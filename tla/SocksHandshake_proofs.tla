------------------------- MODULE SocksHandshake_proofs -------------------------
(***************************************************************************)
(* Theorems about SocksHandshake, for whatever bytes an application sends  *)
(* and however they are cut into pieces.                                   *)
(***************************************************************************)
EXTENDS SocksHandshake, SequenceTheorems, TLAPS

Bytes == 0..255

\* How many methods the application says it offers, and how many bytes were
\* taken before those that _recv is after.
MethodCount == script[2]
Before == taken - Len(data)

\* What _recv has are the bytes that follow those before, and where the handler
\* is, it is for what those said.
ReadInv ==
  pc \in Reading =>
    /\ Before \in Nat
    /\ data = SubSeq(script, Before + 1, taken)
    /\ dest = None
    /\ pc = "header" => Before = 0 /\ want = 2
    /\ pc # "header" => Before >= 2 /\ script[1] = SOCKS_VERSION
    /\ pc = "methods" => Before = 2 /\ want = MethodCount
    /\ pc \in {"request", "length", "address", "port"} => Before >= 2 + MethodCount
    /\ pc = "request" => Before = 2 + MethodCount /\ want = 4
    /\ pc \in {"length", "address", "port"} =>
         /\ Before >= 6 + MethodCount
         /\ script[4 + MethodCount] = CMD_CONNECT
         /\ kind = TypeOf(script) /\ kind \in Types
    /\ pc = "length" => Before = 6 + MethodCount /\ want = 1 /\ kind = ATYP_DOMAIN
    /\ pc = "address" => Before + 1 = HostFrom(script) /\ want = HostSize(script)
    /\ pc = "port" =>
         /\ want = 2
         /\ HostSize(script) \in Bytes /\ Before + 1 = HostFrom(script) + HostSize(script)
         /\ kind = ATYP_DOMAIN => 7 + MethodCount <= Before
         /\ host = SubSeq(script, HostFrom(script), Before)

\* A destination is what was requested; the pump begins when the application is
\* told of its success, and what was taken since is upstream or with the pump.
DestInv ==
  /\ pc \in {"creating", "waiting", "relaying"} => dest # None
  /\ dest = None \/ pc \in {"creating", "waiting"} => pump = "off"
  /\ pump = "off" => upstream = <<>>
  /\ pump # "writing" => held = <<>>
  /\ upstream \in Seq(Bytes)
  /\ dest # None => Handshake(dest, script) \in 0..taken
  /\ DestinationIsRequested
  /\ PayloadIsWhole

\* What the application was told up to here, and why.
ReplyInv ==
  /\ replies \in {<<>>, <<"method">>, <<"method", "success">>, <<"method", "failure">>,
                  <<"method", "refused">>}
  /\ pc \in {"header", "methods"} => replies = <<>>
  /\ pc \in {"request", "length", "address", "port", "creating", "waiting"} =>
       replies = <<"method">>
  /\ replies = <<"method", "success">> => opened
  /\ replies = <<"method", "refused">> => dest # None
  /\ replies = <<"method", "failure">> => app # "open" \/ ~WellFormed(script)

SocksInv == TypeOK /\ data \in Seq(Bytes) /\ ReadInv /\ DestInv /\ ReplyInv

-----------------------------------------------------------------------------
\* What lies between two places of a script.
LEMMA Between ==
  ASSUME NEW s \in Seq(Bytes), NEW m \in 1..Len(s) + 1, NEW n \in m - 1 .. Len(s)
  PROVE  /\ SubSeq(s, m, n) \in Seq(Bytes)
         /\ Len(SubSeq(s, m, n)) = n - m + 1
         /\ \A i \in 1..(n - m + 1) : SubSeq(s, m, n)[i] = s[m + i - 1]
<1>1. Len(s) \in Nat /\ \A i \in 1..Len(s) : s[i] \in Bytes
  BY LenProperties, ElementOfSeq
<1>2. \A i \in m..n : s[i] \in Bytes
  BY <1>1
<1>3. m \in Int /\ n \in Int
  BY <1>1
<1>4. /\ SubSeq(s, m, n) \in Seq(Bytes)
      /\ Len(SubSeq(s, m, n)) = IF m <= n THEN n - m + 1 ELSE 0
      /\ \A i \in 1..(n - m + 1) : SubSeq(s, m, n)[i] = s[m + i - 1]
  BY <1>2, <1>3, SubSeqProperties
<1> QED
  BY <1>1, <1>4

\* Two places that meet.
LEMMA Meet ==
  ASSUME NEW s \in Seq(Bytes), NEW m \in Nat, NEW n \in Nat, m <= n, n <= Len(s)
  PROVE  SubSeq(s, 1, m) \o SubSeq(s, m + 1, n) = SubSeq(s, 1, n)
<1>1. 1 \in 1..Len(s) + 1 /\ m \in 1 - 1 .. Len(s) /\ n \in m..Len(s)
  BY LenProperties
<1> QED
  BY <1>1, ConcatAdjacentSubSeq

\* What lies between two places, counted from the bytes before it.
LEMMA Part ==
  ASSUME NEW s \in Seq(Bytes), NEW m \in Nat, NEW n \in Nat, m <= n, n <= Len(s)
  PROVE  /\ SubSeq(s, m + 1, n) \in Seq(Bytes)
         /\ Len(SubSeq(s, m + 1, n)) = n - m
         /\ \A i \in 1..(n - m) : SubSeq(s, m + 1, n)[i] = s[m + i]
<1>1. /\ m + 1 \in 1..Len(s) + 1 /\ n \in (m + 1) - 1 .. Len(s)
      /\ n - (m + 1) + 1 = n - m /\ \A i \in 1..(n - m) : (m + 1) + i - 1 = m + i
  BY LenProperties
<1>2. /\ SubSeq(s, m + 1, n) \in Seq(Bytes)
      /\ Len(SubSeq(s, m + 1, n)) = n - (m + 1) + 1
      /\ \A i \in 1..(n - (m + 1) + 1) : SubSeq(s, m + 1, n)[i] = s[(m + 1) + i - 1]
  BY <1>1, Between
<1> QED
  BY <1>1, <1>2, Zenon

\* What follows a part of a script makes it a longer part.
LEMMA Longer ==
  ASSUME NEW s \in Seq(Bytes), NEW start \in Nat, NEW m \in Nat, NEW n \in Nat,
         start <= m, m <= n, n <= Len(s)
  PROVE  /\ SubSeq(s, start + 1, m) \o SubSeq(s, m + 1, n) = SubSeq(s, start + 1, n)
         /\ start + Len(SubSeq(s, start + 1, n)) = n
<1>1. start + 1 \in 1..Len(s) + 1 /\ m \in (start + 1) - 1 .. Len(s) /\ n \in m..Len(s)
  BY LenProperties
<1>2. SubSeq(s, start + 1, m) \o SubSeq(s, m + 1, n) = SubSeq(s, start + 1, n)
  BY <1>1, ConcatAdjacentSubSeq
<1>3. Len(SubSeq(s, start + 1, n)) = n - start
  BY Part
<1> QED
  BY <1>2, <1>3

\* The first bytes of a part of a script.
LEMMA Cut ==
  ASSUME NEW s \in Seq(Bytes), NEW m \in Nat, NEW n \in Nat, m <= n, n <= Len(s),
         NEW k \in 0..(n - m)
  PROVE  SubSeq(SubSeq(s, m + 1, n), 1, k) = SubSeq(s, m + 1, m + k)
<1>. DEFINE t == SubSeq(s, m + 1, n)
<1>1. t \in Seq(Bytes) /\ Len(t) = n - m
  BY Part
<1>2. Len(s) \in Nat
  BY LenProperties
<1>3. CASE k = 0
  <2>1. SubSeq(t, 1, k) = <<>> /\ SubSeq(s, m + 1, m + k) = <<>>
    BY <1>3, SubSeqEmpty
  <2> QED
    BY <2>1
<1>4. CASE k # 0
  <2>1. /\ m + 1 \in 1..Len(s) /\ n \in 1..Len(s)
        /\ 1 \in 1..n - (m + 1) + 1 /\ k \in 1..n - (m + 1) + 1
        /\ (m + 1) + 1 - 1 = m + 1 /\ (m + 1) + k - 1 = m + k
    BY <1>2, <1>4
  <2> QED
    BY <1>1, <2>1, SubSeqOfSubSeq
<1> QED
  BY <1>3, <1>4

\* A few bytes one by one.
LEMMA OneByte ==
  ASSUME NEW s \in Seq(Bytes), NEW m \in Nat, m + 1 <= Len(s)
  PROVE  SubSeq(s, m + 1, m + 1) = <<s[m + 1]>>
<1>. DEFINE t == <<s[m + 1]>>
            u == SubSeq(s, m + 1, m + 1)
<1>1. u \in Seq(Bytes) /\ Len(u) = 1 /\ \A i \in 1..1 : u[i] = s[m + 1 + i - 1]
  <2>1. m + 1 \in 1..Len(s) + 1 /\ m + 1 \in (m + 1) - 1 .. Len(s)
    BY LenProperties
  <2>2. (m + 1) - (m + 1) + 1 = 1
    OBVIOUS
  <2> QED
    BY <2>1, <2>2, Between
<1>2. s[m + 1] \in Bytes
  BY ElementOfSeq, LenProperties
<1>3. t \in Seq(Bytes) /\ Len(t) = 1 /\ t[1] = s[m + 1]
  BY <1>2
<1>. HIDE DEF t, u
<1>4. \A i \in 1..1 : u[i] = t[i]
  BY <1>1, <1>3
<1>5. u = t
  BY <1>1, <1>3, <1>4, SeqEqual
<1> QED
  BY <1>5 DEF u, t

LEMMA TwoBytes ==
  ASSUME NEW s \in Seq(Bytes), NEW m \in Nat, m + 2 <= Len(s)
  PROVE  SubSeq(s, m + 1, m + 2) = <<s[m + 1], s[m + 2]>>
<1>. DEFINE t == <<s[m + 1], s[m + 2]>>
            u == SubSeq(s, m + 1, m + 2)
<1>1. u \in Seq(Bytes) /\ Len(u) = 2 /\ \A i \in 1..2 : u[i] = s[m + 1 + i - 1]
  <2>1. m + 1 \in 1..Len(s) + 1 /\ m + 2 \in (m + 1) - 1 .. Len(s)
    BY LenProperties
  <2>2. (m + 2) - (m + 1) + 1 = 2
    OBVIOUS
  <2> QED
    BY <2>1, <2>2, Between
<1>2. s[m + 1] \in Bytes /\ s[m + 2] \in Bytes
  BY ElementOfSeq, LenProperties
<1>3. t \in Seq(Bytes) /\ Len(t) = 2 /\ t[1] = s[m + 1] /\ t[2] = s[m + 2]
  BY <1>2
<1>. HIDE DEF t, u
<1>4. \A i \in 1..2 : u[i] = t[i]
  <2>1. u[1] = s[m + 1 + 1 - 1] /\ u[2] = s[m + 1 + 2 - 1]
    BY <1>1
  <2> QED
    BY <1>3, <2>1
<1>5. u = t
  BY <1>1, <1>3, <1>4, SeqEqual
<1> QED
  BY <1>5 DEF u, t

LEMMA FourBytes ==
  ASSUME NEW s \in Seq(Bytes), NEW m \in Nat, m + 4 <= Len(s)
  PROVE  SubSeq(s, m + 1, m + 4) = <<s[m + 1], s[m + 2], s[m + 3], s[m + 4]>>
<1>. DEFINE t == <<s[m + 1], s[m + 2], s[m + 3], s[m + 4]>>
            u == SubSeq(s, m + 1, m + 4)
<1>1. u \in Seq(Bytes) /\ Len(u) = 4 /\ \A i \in 1..4 : u[i] = s[m + 1 + i - 1]
  <2>1. m + 1 \in 1..Len(s) + 1 /\ m + 4 \in (m + 1) - 1 .. Len(s)
    BY LenProperties
  <2>2. (m + 4) - (m + 1) + 1 = 4
    OBVIOUS
  <2> QED
    BY <2>1, <2>2, Between
<1>2. s[m + 1] \in Bytes /\ s[m + 2] \in Bytes /\ s[m + 3] \in Bytes /\ s[m + 4] \in Bytes
  BY ElementOfSeq, LenProperties
<1>3. /\ t \in Seq(Bytes) /\ Len(t) = 4
      /\ t[1] = s[m + 1] /\ t[2] = s[m + 2] /\ t[3] = s[m + 3] /\ t[4] = s[m + 4]
  BY <1>2
<1>. HIDE DEF t, u
<1>4. \A i \in 1..4 : u[i] = t[i]
  <2>1. /\ u[1] = s[m + 1 + 1 - 1] /\ u[2] = s[m + 1 + 2 - 1]
        /\ u[3] = s[m + 1 + 3 - 1] /\ u[4] = s[m + 1 + 4 - 1]
    BY <1>1
  <2> QED
    BY <1>3, <2>1
<1>5. u = t
  BY <1>1, <1>3, <1>4, SeqEqual
<1> QED
  BY <1>5 DEF u, t

-----------------------------------------------------------------------------
\* A port is two bytes, the higher one first.
LEMMA PortBytes ==
  ASSUME NEW high \in 0..255, NEW low \in 0..255
  PROVE  /\ (256 * high + low) \div 256 = high
         /\ (256 * high + low) % 256 = low
         /\ 256 * high + low \in Ports
<1>1. high \in Int /\ low \in Int /\ 0 <= low /\ low < 256 /\ 0 <= high /\ high < 256
  OBVIOUS
<1>2. (256 * high + low) \div 256 = high
  BY <1>1, Z3
<1>3. (256 * high + low) % 256 = low
  BY <1>1, Z3
<1>4. 256 * high + low \in Ports
  BY <1>1, Z3T(30) DEF Ports
<1> QED
  BY <1>2, <1>3, <1>4

\* In s are, where a request has them: the version, n methods, the command, the
\* type, the length of a name, and a port that ends after at + 2 bytes.
Placed(s, n, type, length, at, port) ==
  /\ s[1] = SOCKS_VERSION /\ s[2] = n
  /\ s[4 + n] = CMD_CONNECT /\ s[6 + n] = type
  /\ type = ATYP_DOMAIN => s[7 + n] = length
  /\ s[at + 1] = port[1] /\ s[at + 2] = port[2]

Destination(s, type, from, at, port) ==
  [type |-> type, host |-> SubSeq(s, from, at), port |-> 256 * port[1] + port[2]]

\* A script whose bytes are where a request has them is one for what they say.
LEMMA ReadIsRequested ==
  ASSUME NEW s \in Seq(Bytes), NEW n \in Bytes, 8 + n <= Len(s),
         NEW type \in Types, NEW length \in Bytes,
         NEW from \in {7 + n, 8 + n}, from = 8 + n <=> type = ATYP_DOMAIN,
         type = ATYP_IPV4 => length = 4,
         type = ATYP_IPV6 => length = 16,
         NEW at \in Nat, at + 1 = from + length, at + 2 <= Len(s),
         NEW high \in Bytes, NEW low \in Bytes,
         Placed(s, n, type, length, at, <<high, low>>),
         NEW d, d = Destination(s, type, from, at, <<high, low>>)
  PROVE  d \in Destinations /\ Requests(d, s) /\ Handshake(d, s) = at + 2
<1>. DEFINE methods == SubSeq(s, 3, 2 + n)
            req == <<s[3 + n], CMD_CONNECT, s[5 + n], type>>
            name == SubSeq(s, from, at)
            addr == AddressBytes(d)
            port == <<high, low>>
<1>1. /\ d.type = type /\ d.host = name /\ d.port = 256 * high + low
      /\ d = [type |-> type, host |-> name, port |-> 256 * high + low]
  BY DEF Destination
<1>2. /\ Len(s) \in Nat /\ 8 + n <= Len(s) /\ 6 + n <= at
      /\ at + 1 = from + length /\ n \in 0..255 /\ length \in 0..255
      /\ at \in Nat /\ at + 2 <= Len(s) /\ from \in {7 + n, 8 + n}
  <2>1. n \in 0..255 /\ length \in 0..255
    BY DEF Bytes
  <2>2. Len(s) \in Nat
    BY LenProperties
  <2> QED
    BY <2>1, <2>2
<1>3. name \in Seq(Bytes) /\ Len(name) = length
  <2>1. from \in 1..Len(s) + 1 /\ at \in from - 1 .. Len(s) /\ at - from + 1 = length
    BY <1>2
  <2> QED
    BY <2>1, Between
<1>4. addr = SubSeq(s, 7 + n, at) /\ Len(addr) = at - (6 + n)
  <2>1. CASE type = ATYP_DOMAIN
    <3>1. at = 7 + n + length /\ from = 8 + n
      BY <1>2, <2>1
    <3>2. addr = <<s[7 + n]>> \o SubSeq(s, 8 + n, at)
      BY <1>1, <1>3, <2>1, <3>1, Zenon DEF AddressBytes, Placed
    <3>3. <<s[7 + n]>> = SubSeq(s, 7 + n, 7 + n)
      <4>1. 6 + n \in Nat /\ (6 + n) + 1 <= Len(s) /\ (6 + n) + 1 = 7 + n
        BY <1>2
      <4>2. SubSeq(s, (6 + n) + 1, (6 + n) + 1) = <<s[(6 + n) + 1]>>
        BY <4>1, OneByte
      <4> QED
        BY <4>1, <4>2, Zenon
    <3>4. SubSeq(s, 7 + n, 7 + n) \o SubSeq(s, (7 + n) + 1, at) = SubSeq(s, 7 + n, at)
      <4>1. 7 + n \in 1..Len(s) + 1 /\ 7 + n \in (7 + n) - 1 .. Len(s) /\ at \in 7 + n .. Len(s)
        BY <1>2, <3>1
      <4> QED
        BY <4>1, ConcatAdjacentSubSeq
    <3>5. addr = SubSeq(s, 7 + n, at)
      <4>1. (7 + n) + 1 = 8 + n
        BY <1>2
      <4> QED
        BY <3>2, <3>3, <3>4, <4>1, Zenon
    <3>6. 7 + n \in 1..Len(s) + 1 /\ at \in (7 + n) - 1 .. Len(s) /\ at - (7 + n) + 1 = at - (6 + n)
      BY <1>2, <3>1
    <3>7. Len(SubSeq(s, 7 + n, at)) = at - (6 + n)
      BY <3>6, Between
    <3> QED
      BY <3>5, <3>7, Zenon
  <2>2. CASE type # ATYP_DOMAIN
    <3>1. addr = name /\ from = 7 + n
      BY <1>1, <2>2, Zenon DEF AddressBytes
    <3>2. length = at - (6 + n)
      BY <1>2, <3>1
    <3> QED
      BY <1>3, <3>1, <3>2, Zenon
  <2> QED
    BY <2>1, <2>2
<1>5. <<d.port \div 256, d.port % 256>> = port /\ d.port \in Ports
  <2>1. d.port \div 256 = high /\ d.port % 256 = low /\ d.port \in Ports
    <3>1. high \in 0..255 /\ low \in 0..255
      BY DEF Bytes
    <3>2. /\ (256 * high + low) \div 256 = high
          /\ (256 * high + low) % 256 = low
          /\ 256 * high + low \in Ports
      BY <3>1, PortBytes
    <3> QED
      BY <1>1, <3>2, Zenon
  <2> QED
    BY <2>1
<1>6. <<SOCKS_VERSION, Len(methods)>> = SubSeq(s, 1, 2) /\ Len(methods) = n
  <2>1. /\ 2 \in Nat /\ 2 + n \in Nat /\ 2 <= 2 + n /\ 2 + n <= Len(s)
        /\ (2 + n) - 2 = n /\ 2 + 1 = 3
    BY <1>2
  <2>2. Len(methods) = n
    <3>1. Len(SubSeq(s, 2 + 1, 2 + n)) = (2 + n) - 2
      BY <2>1, Part
    <3> QED
      BY <2>1, <3>1, Zenon
  <2>3. 0 \in Nat /\ 0 + 2 <= Len(s) /\ 0 + 1 = 1 /\ 0 + 2 = 2
    BY <1>2
  <2>4. SubSeq(s, 0 + 1, 0 + 2) = <<s[0 + 1], s[0 + 2]>>
    BY <2>3, TwoBytes
  <2> QED
    BY <2>2, <2>3, <2>4, Zenon DEF Placed
<1>7. req = SubSeq(s, 3 + n, 6 + n)
  <2>1. 2 + n \in Nat /\ (2 + n) + 4 <= Len(s)
    BY <1>2
  <2>2. SubSeq(s, (2 + n) + 1, (2 + n) + 4) =
          <<s[(2 + n) + 1], s[(2 + n) + 2], s[(2 + n) + 3], s[(2 + n) + 4]>>
    BY <2>1, FourBytes
  <2>3. (2 + n) + 1 = 3 + n /\ (2 + n) + 2 = 4 + n /\ (2 + n) + 3 = 5 + n /\ (2 + n) + 4 = 6 + n
    BY <1>2
  <2> QED
    BY <2>2, <2>3, Zenon DEF Placed
<1>8. port = SubSeq(s, at + 1, at + 2)
  <2>1. SubSeq(s, at + 1, at + 2) = <<s[at + 1], s[at + 2]>>
    BY TwoBytes
  <2>2. <<high, low>>[1] = high /\ <<high, low>>[2] = low
    OBVIOUS
  <2> QED
    BY <2>1, <2>2, Zenon DEF Placed
<1>9. RequestBytes(d, methods, <<s[3 + n], s[5 + n]>>) = SubSeq(s, 1, at + 2)
  <2>1. RequestBytes(d, methods, <<s[3 + n], s[5 + n]>>) =
          <<SOCKS_VERSION, Len(methods)>> \o methods \o req \o addr \o port
    <3>1. <<s[3 + n], s[5 + n]>>[1] = s[3 + n] /\ <<s[3 + n], s[5 + n]>>[2] = s[5 + n]
      OBVIOUS
    <3> QED
      BY <1>1, <1>5, <3>1 DEF RequestBytes
  <2>2. /\ 2 \in Nat /\ 2 + n \in Nat /\ 6 + n \in Nat
        /\ 2 <= 2 + n /\ 2 + n <= 6 + n /\ 6 + n <= at /\ at <= at + 2 /\ at + 2 \in Nat
        /\ 2 + n <= Len(s) /\ 6 + n <= Len(s) /\ at <= Len(s)
        /\ 2 + 1 = 3 /\ (2 + n) + 1 = 3 + n /\ (6 + n) + 1 = 7 + n
    BY <1>2
  <2>3. SubSeq(s, 1, 2) \o SubSeq(s, 2 + 1, 2 + n) = SubSeq(s, 1, 2 + n)
    BY <2>2, Meet
  <2>4. SubSeq(s, 1, 2 + n) \o SubSeq(s, (2 + n) + 1, 6 + n) = SubSeq(s, 1, 6 + n)
    BY <2>2, Meet
  <2>5. SubSeq(s, 1, 6 + n) \o SubSeq(s, (6 + n) + 1, at) = SubSeq(s, 1, at)
    BY <2>2, Meet
  <2>6. SubSeq(s, 1, at) \o SubSeq(s, at + 1, at + 2) = SubSeq(s, 1, at + 2)
    BY <2>2, Meet
  <2>7. <<SOCKS_VERSION, Len(methods)>> \o methods = SubSeq(s, 1, 2 + n)
    BY <1>6, <2>2, <2>3, Zenon
  <2>8. SubSeq(s, 1, 2 + n) \o req = SubSeq(s, 1, 6 + n)
    BY <1>7, <2>2, <2>4, Zenon
  <2>9. SubSeq(s, 1, 6 + n) \o addr = SubSeq(s, 1, at)
    BY <1>4, <2>2, <2>5, Zenon
  <2>10. SubSeq(s, 1, at) \o port = SubSeq(s, 1, at + 2)
    BY <1>8, <2>6, Zenon
  <2> QED
    BY <2>1, <2>7, <2>8, <2>9, <2>10, Zenon
<1>10. Handshake(d, s) = at + 2
  <2>1. Handshake(d, s) = 2 + n + 4 + Len(addr) + 2
    BY Zenon DEF Handshake, Placed
  <2>. HIDE DEF addr
  <2>2. 2 + n + 4 + Len(addr) + 2 = at + 2
    BY <1>2, <1>4
  <2> QED
    BY <2>1, <2>2, Zenon
<1>11. IsPrefix(SubSeq(s, 1, at + 2), s)
  <2>1. 1 \in 1..Len(s) + 1 /\ at + 2 \in 1 - 1 .. Len(s) /\ at + 2 - 1 + 1 = at + 2
    BY <1>2
  <2>2. SubSeq(s, 1, at + 2) \in Seq(Bytes) /\ Len(SubSeq(s, 1, at + 2)) = at + 2
    BY <2>1, Between
  <2>3. SubSeq(SubSeq(s, 1, at + 2), 1, at + 2) = SubSeq(s, 1, at + 2)
    BY <2>2, SubSeqFull, Zenon
  <2> QED
    BY <2>2, <2>3, Zenon DEF IsPrefix
<1>12. Requests(d, s)
  <2>1. Len(s) >= Handshake(d, s)
    BY <1>2, <1>10
  <2>2. /\ d.type = ATYP_IPV4 => Len(d.host) = 4
        /\ d.type = ATYP_IPV6 => Len(d.host) = 16
    BY <1>1, <1>3, Zenon
  <2>3. s[2] = n
    BY DEF Placed
  <2> QED
    BY <1>9, <1>11, <2>1, <2>2, <2>3, Zenon DEF Requests
<1>13. d \in Destinations
  <2>1. d = [type |-> type, host |-> name, port |-> d.port]
    BY <1>1
  <2>2. name \in Seq(0..255)
    BY <1>3, Zenon DEF Bytes
  <2>. HIDE DEF name
  <2> QED
    BY <1>5, <2>1, <2>2 DEF Destinations
<1> QED
  BY <1>10, <1>12, <1>13, Zenon

\* What is in one of two sequences is in both of them together.
LEMMA InFirst ==
  ASSUME NEW S, NEW x \in Seq(S), NEW y \in Seq(S), NEW k \in 1..Len(x)
  PROVE  x \o y \in Seq(S) /\ k \in 1..Len(x \o y) /\ (x \o y)[k] = x[k]
<1>1. Len(x) \in Nat /\ Len(y) \in Nat
  BY LenProperties
<1>2. x \o y \in Seq(S) /\ Len(x \o y) = Len(x) + Len(y)
  BY ConcatProperties
<1>3. k \in 1..Len(x) + Len(y) /\ k <= Len(x)
  BY <1>1
<1>4. (x \o y)[k] = IF k <= Len(x) THEN x[k] ELSE y[k - Len(x)]
  BY <1>3, ConcatProperties
<1> QED
  BY <1>2, <1>3, <1>4, Zenon

LEMMA InSecond ==
  ASSUME NEW S, NEW x \in Seq(S), NEW y \in Seq(S), NEW i \in 1..Len(y)
  PROVE  /\ x \o y \in Seq(S)
         /\ Len(x) + i \in 1..Len(x \o y) /\ (x \o y)[Len(x) + i] = y[i]
<1>1. Len(x) \in Nat /\ Len(y) \in Nat
  BY LenProperties
<1>2. x \o y \in Seq(S) /\ Len(x \o y) = Len(x) + Len(y)
  BY ConcatProperties
<1>3. Len(x) + i \in 1..Len(x) + Len(y) /\ ~(Len(x) + i <= Len(x)) /\ (Len(x) + i) - Len(x) = i
  BY <1>1
<1>4. (x \o y)[Len(x) + i] = IF Len(x) + i <= Len(x) THEN x[Len(x) + i] ELSE y[(Len(x) + i) - Len(x)]
  BY <1>3, ConcatProperties
<1> QED
  BY <1>2, <1>3, <1>4, Zenon

\* Short sequences.
LEMMA Tuples ==
  ASSUME NEW S, NEW a \in S, NEW b \in S
  PROVE  <<a, b>> \in Seq(S) /\ \A c, d \in S : <<a, b, c, d>> \in Seq(S)
OBVIOUS

\* The host of a well-formed script is in it.
LEMMA NamedHost ==
  ASSUME NEW s \in Seq(Bytes), WellFormed(s)
  PROVE  /\ s[2] \in Bytes /\ 8 + s[2] <= Len(s)
         /\ Named(s).host \in Seq(Bytes)
<1>. DEFINE n == s[2]
<1>1. Len(s) \in Nat /\ n \in Bytes /\ s[7 + n] \in Bytes /\ 8 + n <= Len(s)
  <2>1. Len(s) \in Nat /\ Len(s) >= 8 /\ Len(s) >= 8 + n
    BY LenProperties DEF WellFormed
  <2>2. 2 \in 1..Len(s)
    BY <2>1
  <2>3. n \in Bytes
    BY <2>2, ElementOfSeq
  <2>. HIDE DEF n
  <2>4. 7 + n \in 1..Len(s) /\ 8 + n <= Len(s)
    BY <2>1, <2>3 DEF Bytes
  <2>5. s[7 + n] \in Bytes
    BY <2>4, ElementOfSeq
  <2> QED
    BY <2>1, <2>3, <2>4, <2>5
<1>2. HostFrom(s) \in {7 + n, 8 + n} /\ HostSize(s) \in Bytes
  <2>1. 4 \in Bytes /\ 16 \in Bytes
    BY DEF Bytes
  <2> QED
    BY <1>1, <2>1, Zenon DEF HostFrom, HostSize
<1>. HIDE DEF n
<1>3. HostFrom(s) \in 1..Len(s) + 1 /\ HostTo(s) \in HostFrom(s) - 1 .. Len(s)
  <2>1. Len(s) >= HostTo(s) + 2
    BY DEF WellFormed
  <2>2. ASSUME NEW f \in {7 + n, 8 + n}, NEW z \in Bytes, Len(s) >= (f + z - 1) + 2
        PROVE  f \in 1..Len(s) + 1 /\ f + z - 1 \in f - 1 .. Len(s)
    BY <1>1, <2>2 DEF Bytes
  <2> QED
    BY <1>2, <2>1, <2>2, Zenon DEF HostTo
<1>4. Named(s).host \in Seq(Bytes)
  <2>1. SubSeq(s, HostFrom(s), HostTo(s)) \in Seq(Bytes)
    BY <1>3, Between
  <2> QED
    BY <2>1, Zenon DEF Named
<1> QED
  BY <1>1, <1>4, Zenon DEF n

\* A well-formed script asks to connect.
LEMMA WellFormedConnects ==
  ASSUME NEW s \in Seq(Bytes), WellFormed(s)
  PROVE  s[4 + s[2]] = CMD_CONNECT
<1>. DEFINE n == s[2]
            d == Named(s)
            methods == SubSeq(s, 3, 2 + n)
            ver == <<SOCKS_VERSION, Len(methods)>>
            req == <<s[3 + n], CMD_CONNECT, s[5 + n], d.type>>
            addr == AddressBytes(d)
            port == <<d.port \div 256, d.port % 256>>
            all == ver \o methods \o req \o addr \o port
            S == Bytes \cup {SOCKS_VERSION, Len(methods), s[3 + n], CMD_CONNECT, s[5 + n], d.type,
                             Len(d.host), d.port \div 256, d.port % 256}
<1>1. n \in Bytes /\ 8 + n <= Len(s) /\ d.host \in Seq(Bytes)
  BY NamedHost
<1>2. methods \in Seq(Bytes) /\ Len(methods) = n
  <2>. HIDE DEF n
  <2>1. /\ 2 \in Nat /\ 2 + n \in Nat /\ 2 <= 2 + n /\ 2 + n <= Len(s)
        /\ (2 + n) - 2 = n /\ 2 + 1 = 3
    BY <1>1, LenProperties DEF Bytes
  <2>2. /\ SubSeq(s, 2 + 1, 2 + n) \in Seq(Bytes)
        /\ Len(SubSeq(s, 2 + 1, 2 + n)) = (2 + n) - 2
    BY <2>1, Part
  <2> QED
    BY <2>1, <2>2, Zenon DEF n
<1>3. IsPrefix(all, s)
  <2>1. IsPrefix(RequestBytes(d, methods, <<s[3 + n], s[5 + n]>>), s)
    BY Zenon DEF WellFormed, Requests
  <2>2. <<s[3 + n], s[5 + n]>>[1] = s[3 + n] /\ <<s[3 + n], s[5 + n]>>[2] = s[5 + n]
    OBVIOUS
  <2> QED
    BY <2>1, <2>2 DEF RequestBytes
<1>4. all[4 + n] = CMD_CONNECT /\ 4 + n \in 1..Len(all) /\ all \in Seq(S)
  <2>1. methods \in Seq(S) /\ d.host \in Seq(S)
    BY <1>1, <1>2, SeqMonotonic
  <2>2. addr \in Seq(S)
    <3>1. <<Len(d.host)>> \in Seq(S)
      OBVIOUS
    <3>2. <<Len(d.host)>> \o d.host \in Seq(S)
      BY <2>1, <3>1, ConcatProperties
    <3> QED
      BY <2>1, <3>2, Zenon DEF AddressBytes
  <2>3. ver \in Seq(S) /\ req \in Seq(S) /\ port \in Seq(S)
    <3>1. /\ SOCKS_VERSION \in S /\ Len(methods) \in S /\ s[3 + n] \in S /\ CMD_CONNECT \in S
          /\ s[5 + n] \in S /\ d.type \in S /\ d.port \div 256 \in S /\ d.port % 256 \in S
      BY Zenon
    <3>. HIDE DEF S, methods, n, d
    <3> QED
      BY <3>1, Tuples
  <2>4. Len(req) = 4 /\ req[2] = CMD_CONNECT /\ Len(ver) = 2
    OBVIOUS
  <2>5. 2 \in 1..Len(req) /\ \A m \in Bytes : 2 + m + 2 = 4 + m
    BY <2>4 DEF Bytes
  <2>. DEFINE start == ver \o methods
              front == start \o req
              most == front \o addr
  <2>. HIDE DEF S, methods, ver, req, addr, port, n, d
  <2>6. start \in Seq(S) /\ Len(start) = 2 + n
    <3>1. ver \in Seq(S) /\ methods \in Seq(S)
      BY <2>1, <2>3
    <3>2. start \in Seq(S) /\ Len(start) = Len(ver) + Len(methods)
      BY <3>1, ConcatProperties
    <3> QED
      BY <1>2, <2>4, <3>2, Zenon
  <2>. HIDE DEF start
  <2>7. front \in Seq(S) /\ Len(start) + 2 \in 1..Len(front) /\ front[Len(start) + 2] = req[2]
    BY <2>3, <2>5, <2>6, InSecond
  <2>8. front \in Seq(S) /\ 4 + n \in 1..Len(front) /\ front[4 + n] = CMD_CONNECT
    BY <1>1, <2>4, <2>5, <2>6, <2>7, Zenon
  <2>. HIDE DEF front
  <2>9. most \in Seq(S) /\ 4 + n \in 1..Len(most) /\ most[4 + n] = CMD_CONNECT
    BY <2>2, <2>8, InFirst
  <2>. HIDE DEF most
  <2>10. /\ most \o port \in Seq(S) /\ 4 + n \in 1..Len(most \o port)
         /\ (most \o port)[4 + n] = CMD_CONNECT
    BY <2>3, <2>9, InFirst
  <2> QED
    BY <2>10, Zenon DEF most, front, start
<1>5. s[4 + n] = all[4 + n]
  <2>1. Len(all) \in Nat /\ Len(all) <= Len(s) /\ SubSeq(all, 1, Len(all)) = SubSeq(s, 1, Len(all))
    BY <1>3, <1>4, LenProperties, Zenon DEF IsPrefix
  <2>2. SubSeq(all, 1, Len(all)) = all
    BY <1>4, SubSeqFull, Zenon
  <2>. HIDE DEF all, n
  <2>3. /\ 0 \in Nat /\ 0 <= Len(all) /\ 0 + 1 = 1 /\ Len(all) - 0 = Len(all)
        /\ 0 + (4 + n) = 4 + n
    BY <1>1, <2>1 DEF Bytes
  <2>4. \A i \in 1..Len(all) - 0 : SubSeq(s, 0 + 1, Len(all))[i] = s[0 + i]
    BY <2>1, <2>3, Part
  <2>5. SubSeq(s, 1, Len(all))[4 + n] = s[4 + n]
    BY <1>4, <2>3, <2>4, Zenon
  <2> QED
    BY <2>1, <2>2, <2>5, Zenon
<1> QED
  BY <1>4, <1>5, Zenon

-----------------------------------------------------------------------------
\* What was taken are bytes of the script.
LEMMA TakenBytes ==
  ASSUME TypeOK
  PROVE  /\ script \in Seq(Bytes) /\ Len(script) \in Nat /\ taken \in Nat /\ arrived \in Nat
         /\ taken <= arrived /\ arrived <= Len(script)
         /\ \A i \in 1..taken : script[i] \in Bytes
<1>1. script \in Seq(Bytes)
  BY ScriptsAssumption DEF TypeOK, Bytes
<1>2. Len(script) \in Nat
  BY <1>1, LenProperties
<1>3. taken \in Nat /\ arrived \in Nat /\ taken <= arrived /\ arrived <= Len(script)
  BY <1>2 DEF TypeOK
<1>4. ASSUME NEW i \in 1..taken PROVE script[i] \in Bytes
  <2>1. i \in 1..Len(script)
    BY <1>2, <1>3
  <2> QED
    BY <1>1, <2>1, ElementOfSeq
<1> QED
  BY <1>1, <1>2, <1>3, <1>4

\* What _recv has, where it is in the script.
LEMMA ReadBytes ==
  ASSUME TypeOK, data \in Seq(Bytes), ReadInv, pc \in Reading
  PROVE  /\ Len(data) \in Nat /\ Before \in Nat /\ taken = Before + Len(data)
         /\ \A i \in 1..Len(data) : data[i] = script[Before + i] /\ data[i] \in Bytes
<1>1. Len(data) \in Nat
  BY LenProperties
<1>2. Before \in Nat /\ data = SubSeq(script, Before + 1, taken)
  BY DEF ReadInv
<1>3. taken = Before + Len(data)
  BY <1>1, TakenBytes DEF Before
<1>4. ASSUME NEW i \in 1..Len(data) PROVE data[i] = script[Before + i]
  <2>1. script \in Seq(Bytes) /\ taken \in Nat /\ taken <= Len(script)
    BY TakenBytes
  <2>2. Before <= taken /\ taken - Before = Len(data)
    BY <1>1, <1>2, <1>3
  <2>3. \A j \in 1..(taken - Before) : SubSeq(script, Before + 1, taken)[j] = script[Before + j]
    BY <1>2, <2>1, <2>2, Part
  <2> QED
    BY <1>2, <2>2, <2>3, Zenon
<1>5. \A i \in 1..Len(data) : data[i] \in Bytes
  BY ElementOfSeq
<1> QED
  BY <1>1, <1>2, <1>3, <1>4, <1>5

\* The next _recv begins after what this one has.
LEMMA ReadOn ==
  ASSUME TypeOK, data \in Seq(Bytes), ReadInv, Complete, data' = <<>>, UNCHANGED <<script, taken>>
  PROVE  /\ Len(data) = want /\ Before' \in Nat /\ Before' = Before + want
         /\ data' = SubSeq(script', Before' + 1, taken')
<1>1. want \in Nat /\ Len(data) = want /\ pc \in Reading
  <2>1. want \in Nat /\ Len(data) <= want /\ Len(data) >= want /\ pc \in Reading
    BY DEF TypeOK, Complete
  <2> QED
    BY <2>1, LenProperties
<1>2. Before \in Nat /\ taken = Before + Len(data)
  BY <1>1, ReadBytes
<1>3. Before' = taken
  <2>1. Len(data') = 0 /\ taken' = taken /\ taken \in Nat
    BY TakenBytes
  <2> QED
    BY <2>1 DEF Before
<1>4. SubSeq(script, taken + 1, taken) = <<>>
  <2>1. taken + 1 \in Int /\ taken \in Int /\ taken < taken + 1
    BY TakenBytes
  <2> QED
    BY <2>1, SubSeqEmpty
<1>5. data' = SubSeq(script', Before' + 1, taken')
  BY <1>3, <1>4, Zenon
<1>6. Before' \in Nat /\ Before' = Before + want
  BY <1>1, <1>2, <1>3
<1> QED
  BY <1>1, <1>5, <1>6, Zenon

\* The number of methods is known once two bytes were taken.
LEMMA MethodCountIsByte ==
  ASSUME TypeOK, data \in Seq(Bytes), ReadInv, pc \in Reading, pc # "header"
  PROVE  MethodCount \in Bytes
<1>1. 2 \in 1..taken
  BY ReadBytes DEF ReadInv
<1> QED
  BY <1>1, TakenBytes DEF MethodCount

\* More of what _recv asks for.
LEMMA ChunkKeepsReading ==
  ASSUME TypeOK, data \in Seq(Bytes), ReadInv, TakeChunk
  PROVE  /\ data' \in Seq(Bytes) /\ Len(data') <= want /\ Len(data') \in Nat
         /\ taken' \in 0..arrived
         /\ Before' = Before /\ data' = SubSeq(script, Before + 1, taken')
<1>1. PICK k \in 1..(want - Len(data)) :
        /\ k <= arrived - taken
        /\ data' = data \o SubSeq(script, taken + 1, taken + k)
        /\ taken' = taken + k
  BY DEF TakeChunk
<1>2. /\ want \in Nat /\ Len(data) \in Nat /\ Before \in Nat /\ taken = Before + Len(data)
      /\ pc \in Reading /\ script \in Seq(Bytes)
      /\ Len(script) \in Nat /\ taken \in Nat /\ arrived \in Nat /\ arrived <= Len(script)
  BY ReadBytes, TakenBytes DEF TakeChunk, Waiting, TypeOK
<1>3. /\ k \in Nat /\ taken + k \in Nat /\ taken <= taken + k /\ taken + k <= Len(script)
      /\ (taken + k) - taken = k
  BY <1>1, <1>2
<1>. DEFINE more == SubSeq(script, taken + 1, taken + k)
<1>4. more \in Seq(Bytes) /\ Len(more) = k
  BY <1>2, <1>3, Part, Zenon
<1>5. SubSeq(script, Before + 1, taken) \o more = SubSeq(script, Before + 1, taken + k)
  <2>1. /\ Before + 1 \in 1..Len(script) + 1 /\ taken \in (Before + 1) - 1 .. Len(script)
        /\ taken + k \in taken .. Len(script)
    BY <1>1, <1>2
  <2> QED
    BY <1>2, <2>1, ConcatAdjacentSubSeq
<1>. HIDE DEF more
<1>6. data' \in Seq(Bytes) /\ Len(data') = Len(data) + k
  <2>1. data \o more \in Seq(Bytes) /\ Len(data \o more) = Len(data) + Len(more)
    BY <1>4, ConcatProperties
  <2> QED
    BY <1>1, <1>4, <2>1, Zenon DEF more
<1>7. data' = SubSeq(script, Before + 1, taken')
  BY <1>1, <1>2, <1>5, Zenon DEF more, ReadInv
<1>8. /\ Len(data') <= want /\ Len(data') \in Nat
      /\ taken' \in 0..arrived /\ taken' - Len(data') = taken - Len(data)
  BY <1>1, <1>2, <1>6
<1> QED
  BY <1>6, <1>7, <1>8 DEF Before

-----------------------------------------------------------------------------
\* Nobody takes what has not arrived, or changes what is sent.
LEMMA KeepsInput ==
  ASSUME TypeOK, data \in Seq(Bytes), ReadInv, [Next]_vars
  PROVE  /\ script' = script /\ taken' \in 0..arrived' /\ arrived' \in 0..Len(script')
         /\ app' \in {"open", "closed", "reset"}
         /\ taken <= taken'
<1>1. /\ Len(script) \in Nat /\ taken \in Nat /\ arrived \in Nat
      /\ taken <= arrived /\ arrived <= Len(script)
  BY TakenBytes
<1>2. CASE TakeChunk
  <2>1. taken' \in 0..arrived /\ taken <= taken'
    BY <1>1, <1>2, ChunkKeepsReading DEF TakeChunk, Waiting, TypeOK
  <2>2. script' = script /\ arrived' = arrived /\ app' = app
    BY <1>2 DEF TakeChunk
  <2> QED
    BY <1>1, <2>1, <2>2 DEF TypeOK
<1>3. CASE Send
  <2>1. script' = script /\ taken' = taken /\ app' = app /\ arrived' \in arrived + 1 .. Len(script)
    BY <1>3 DEF Send
  <2> QED
    BY <1>1, <2>1 DEF TypeOK
<1>4. CASE HangUp
  BY <1>1, <1>4 DEF HangUp, TypeOK
<1>5. CASE ReceiveUp
  <2>1. script' = script /\ arrived' = arrived /\ app' = app /\ taken' \in taken + 1 .. arrived
    BY <1>5 DEF ReceiveUp
  <2> QED
    BY <1>1, <2>1 DEF TypeOK
<1>6. CASE ~(TakeChunk \/ Send \/ HangUp \/ ReceiveUp)
  <2>1. UNCHANGED <<script, taken, arrived, app>>
    BY <1>6 DEF Next, HandlerStep, GiveUp, ReadHeader, ReadMethods, MethodsUnsent, ReadRequest,
       RejectRequest, ReadLength, ReadAddress, AddressNotAscii, ReadPort, Create, BridgeFails,
       Established, NotEstablished, Open, WriteUp, WriteUpFails, PumpEnds, RelayEnds, Stop,
       inVars, vars
  <2> QED
    BY <1>1, <2>1 DEF TypeOK
<1> QED
  BY <1>2, <1>3, <1>4, <1>5, <1>6

\* _recv asks for a byte's worth and gets no more than it asks for.
LEMMA KeepsHandler ==
  ASSUME TypeOK, data \in Seq(Bytes), ReadInv, [Next]_vars
  PROVE  /\ pc' \in Reading \cup {"creating", "waiting", "relaying", "closed", "dead"}
         /\ want' \in 0..255 /\ data' \in Seq(Bytes) /\ Len(data') <= want'
         /\ kind' \in 0..255
<1>1. /\ pc \in Reading \cup {"creating", "waiting", "relaying", "closed", "dead"}
      /\ want \in 0..255 /\ Len(data) <= want /\ kind \in 0..255
  BY DEF TypeOK
<1>2. <<>> \in Seq(Bytes) /\ Len(<<>>) = 0
  OBVIOUS
<1>3. ASSUME NEW here \in Reading, NEW n \in 0..255, Recv(here, n)
      PROVE  pc' \in Reading /\ want' \in 0..255 /\ data' \in Seq(Bytes) /\ Len(data') <= want'
  BY <1>2, <1>3 DEF Recv
<1>4. ASSUME Complete, NEW i \in 1..want PROVE data[i] \in 0..255
  <2>1. i \in 1..Len(data) /\ pc \in Reading
    <3>1. pc \in Reading /\ Len(data) >= want /\ Len(data) \in Nat
      BY <1>4, LenProperties DEF Complete
    <3> QED
      BY <1>1, <3>1
  <2> QED
    BY <2>1, ReadBytes DEF Bytes
<1>5. CASE TakeChunk
  BY <1>1, <1>5, ChunkKeepsReading DEF TakeChunk, addrVars
<1>6. CASE ReadHeader
  <2>1. Complete /\ want = 2 /\ kind' = kind
    BY <1>6 DEF ReadHeader, ReadInv, Reading, addrVars
  <2>2. data[2] \in 0..255 /\ "methods" \in Reading
    BY <1>4, <2>1 DEF Reading
  <2>3. CASE data[1] = SOCKS_VERSION
    <3>1. Recv("methods", data[2])
      BY <1>6, <2>3 DEF ReadHeader
    <3> QED
      BY <1>1, <1>3, <2>1, <2>2, <3>1
  <2>4. CASE data[1] # SOCKS_VERSION
    BY <1>1, <1>6, <2>1, <2>4 DEF ReadHeader, Finally, recvVars
  <2> QED
    BY <2>3, <2>4
<1>7. CASE ReadMethods
  <2>1. Recv("request", 4) /\ kind' = kind /\ "request" \in Reading
    BY <1>7 DEF ReadMethods, addrVars, Reading
  <2> QED
    BY <1>1, <1>3, <2>1, SMTT(30)
<1>8. CASE ReadRequest
  <2>1. Complete /\ want = 4 /\ kind' = data[4]
    BY <1>8 DEF ReadRequest, ReadInv, Reading
  <2>2. data[4] \in 0..255
    BY <1>4, <2>1
  <2>3. Recv("address", 4) \/ Recv("length", 1) \/ Recv("address", 16)
    BY <1>8 DEF ReadRequest
  <2>4. "address" \in Reading /\ "length" \in Reading
    BY DEF Reading
  <2> QED
    BY <1>3, <2>1, <2>2, <2>3, <2>4, SMTT(30)
<1>9. CASE ReadLength
  <2>1. Complete /\ want = 1 /\ kind' = kind /\ Recv("address", data[1]) /\ "address" \in Reading
    BY <1>9 DEF ReadLength, ReadInv, Reading, addrVars
  <2>2. data[1] \in 0..255
    BY <1>4, <2>1
  <2> QED
    BY <1>1, <1>3, <2>1, <2>2
<1>10. CASE ReadAddress
  <2>1. Recv("port", 2) /\ kind' = kind /\ "port" \in Reading
    BY <1>10 DEF ReadAddress, Reading
  <2> QED
    BY <1>1, <1>3, <2>1, SMTT(30)
<1>11. CASE ~(TakeChunk \/ ReadHeader \/ ReadMethods \/ ReadRequest \/ ReadLength \/ ReadAddress)
  <2>1. UNCHANGED <<want, data, kind>>
    BY <1>11 DEF Next, HandlerStep, GiveUp, MethodsUnsent, RejectRequest, AddressNotAscii, ReadPort,
       Create, BridgeFails, Established, NotEstablished, Send, HangUp, Open, ReceiveUp, WriteUp,
       WriteUpFails, PumpEnds, RelayEnds, Stop, recvVars, addrVars, vars
  <2>2. pc' \in Reading \cup {"creating", "waiting", "relaying", "closed", "dead"}
    BY <1>1, <1>11 DEF Next, HandlerStep, GiveUp, MethodsUnsent, RejectRequest, AddressNotAscii,
       ReadPort, Create, BridgeFails, Established, NotEstablished, Send, HangUp, Open, ReceiveUp, WriteUp,
       WriteUpFails, PumpEnds, RelayEnds, Stop, Finally, CloseUpstream, vars
  <2> QED
    BY <1>1, <2>1, <2>2
<1> QED
  BY <1>5, <1>6, <1>7, <1>8, <1>9, <1>10, <1>11

-----------------------------------------------------------------------------
\* The handler knows where it is in the script.
LEMMA KeepsReading ==
  ASSUME TypeOK, data \in Seq(Bytes), ReadInv, DestInv, [Next]_vars
  PROVE  ReadInv'
<1>1. script' = script /\ MethodCount' = MethodCount
  BY KeepsInput DEF MethodCount
<1>11. ASSUME pc \in Reading, pc # "header" PROVE MethodCount \in Nat
  <2>1. MethodCount \in Bytes
    BY <1>11, MethodCountIsByte
  <2> QED
    BY <2>1 DEF Bytes
<1>12. ASSUME pc \in Reading PROVE \A i \in 1..Len(data) : data[i] = script[Before + i]
  BY <1>12, ReadBytes
<1>2. CASE UNCHANGED <<taken, pc, want, data, kind, host, dest>>
  BY <1>1, <1>2 DEF ReadInv, Before
<1>3. CASE pc' \notin Reading
  BY <1>3 DEF ReadInv
<1>4. CASE TakeChunk
  <2>1. UNCHANGED <<pc, want, kind, host, dest>> /\ pc \in Reading
    BY <1>4 DEF TakeChunk, Waiting, addrVars
  <2>2. Before' = Before /\ data' = SubSeq(script', Before' + 1, taken')
    BY <1>1, <1>4, ChunkKeepsReading
  <2> QED
    BY <1>1, <2>1, <2>2 DEF ReadInv
<1>5. CASE ReadHeader /\ data[1] = SOCKS_VERSION
  <2>1. /\ pc \in Reading /\ Complete /\ Before = 0 /\ want = 2 /\ dest' = None
        /\ pc' = "methods" /\ want' = data[2] /\ data' = <<>> /\ taken' = taken
    BY <1>5 DEF ReadHeader, Complete, Recv, ReadInv, addrVars, inVars
  <2>2. Before' = 2 /\ Len(data) = 2 /\ data' = SubSeq(script', Before' + 1, taken')
    BY <1>1, <2>1, ReadOn
  <2>3. data[1] = script[0 + 1] /\ data[2] = script[0 + 2]
    BY <2>1, <2>2, ReadBytes
  <2>4. script'[1] = SOCKS_VERSION /\ want' = MethodCount'
    BY <1>1, <1>5, <2>1, <2>3 DEF MethodCount
  <2> QED
    BY <2>1, <2>2, <2>4 DEF ReadInv
<1>6. CASE ReadMethods
  <2>1. /\ pc \in Reading /\ Complete /\ Before = 2 /\ want = MethodCount /\ dest' = None
        /\ script[1] = SOCKS_VERSION
        /\ pc' = "request" /\ want' = 4 /\ data' = <<>> /\ taken' = taken
    BY <1>6 DEF ReadMethods, Complete, Recv, ReadInv, addrVars, inVars
  <2>2. /\ Before' = 2 + MethodCount' /\ Before' \in Nat /\ Before' >= 2
        /\ data' = SubSeq(script', Before' + 1, taken')
    BY <1>1, <2>1, ReadOn DEF TypeOK
  <2> QED
    BY <1>1, <2>1, <2>2 DEF ReadInv
<1>7. CASE ReadRequest
  <2>1. /\ pc \in Reading /\ pc # "header" /\ Complete /\ Before = 2 + MethodCount /\ want = 4
        /\ dest' = None /\ script[1] = SOCKS_VERSION
        /\ data[2] = CMD_CONNECT /\ kind' = data[4] /\ kind' \in Types
        /\ data' = <<>> /\ taken' = taken
        /\ \/ kind' = ATYP_IPV4 /\ pc' = "address" /\ want' = 4
           \/ kind' = ATYP_DOMAIN /\ pc' = "length" /\ want' = 1
           \/ kind' = ATYP_IPV6 /\ pc' = "address" /\ want' = 16
    BY <1>7 DEF ReadRequest, Complete, Recv, ReadInv, inVars, Types
  <2>2. MethodCount \in Nat
    BY <1>11, <2>1
  <2>3. Len(data) = 4 /\ Before' = Before + 4 /\ data' = SubSeq(script', Before' + 1, taken')
    BY <1>1, <2>1, ReadOn
  <2>4. Before' = 6 + MethodCount /\ Before' \in Nat /\ Before' >= 2 /\ Before' >= 2 + MethodCount
    BY <2>1, <2>2, <2>3
  <2>5. data[2] = script[4 + MethodCount] /\ data[4] = script[6 + MethodCount]
    <3>1. data[2] = script[Before + 2] /\ data[4] = script[Before + 4]
      <4>1. \A i \in 1..Len(data) : data[i] = script[Before + i]
        BY <1>12, <2>1
      <4> QED
        BY <2>3, <4>1
    <3>2. Before + 2 = 4 + MethodCount /\ Before + 4 = 6 + MethodCount
      BY <2>1, <2>2
    <3> QED
      BY <3>1, <3>2
  <2>6. script'[4 + MethodCount] = CMD_CONNECT /\ kind' = TypeOf(script')
    BY <1>1, <2>1, <2>5 DEF TypeOf, MethodCount
  <2>7. pc' = "address" => Before' + 1 = HostFrom(script') /\ want' = HostSize(script')
    <3>1. ASSUME pc' = "address"
          PROVE  HostFrom(script') = 7 + MethodCount /\ want' = HostSize(script')
      BY <1>1, <2>1, <2>6, <3>1
      DEF HostFrom, HostSize, MethodCount, ATYP_IPV4, ATYP_IPV6, ATYP_DOMAIN
    <3> QED
      BY <2>2, <2>4, <3>1
  <2> QED
    BY <1>1, <2>1, <2>3, <2>4, <2>6, <2>7 DEF ReadInv
<1>8. CASE ReadLength
  <2>1. /\ pc \in Reading /\ pc # "header" /\ Complete /\ Before = 6 + MethodCount /\ want = 1
        /\ script[1] = SOCKS_VERSION /\ script[4 + MethodCount] = CMD_CONNECT
        /\ kind = TypeOf(script) /\ kind \in Types /\ kind = ATYP_DOMAIN
        /\ dest' = None /\ kind' = kind
        /\ pc' = "address" /\ want' = data[1] /\ data' = <<>> /\ taken' = taken
    BY <1>8 DEF ReadLength, Complete, Recv, ReadInv, addrVars, inVars
  <2>2. MethodCount \in Nat
    BY <1>11, <2>1
  <2>3. Len(data) = 1 /\ Before' = Before + 1 /\ data' = SubSeq(script', Before' + 1, taken')
    BY <1>1, <2>1, ReadOn
  <2>4. /\ Before' \in Nat /\ Before' >= 2 /\ Before' >= 2 + MethodCount /\ Before' >= 6 + MethodCount
        /\ Before' + 1 = 8 + MethodCount
    BY <2>1, <2>2, <2>3
  <2>5. data[1] = script[7 + MethodCount]
    <3>1. data[1] = script[Before + 1]
      <4>1. \A i \in 1..Len(data) : data[i] = script[Before + i]
        BY <1>12, <2>1
      <4> QED
        BY <2>3, <4>1
    <3>2. Before + 1 = 7 + MethodCount
      BY <2>1, <2>2
    <3> QED
      BY <3>1, <3>2
  <2>6. HostFrom(script') = 8 + MethodCount /\ want' = HostSize(script')
    BY <1>1, <2>1, <2>5 DEF HostFrom, HostSize, MethodCount, ATYP_IPV4, ATYP_IPV6, ATYP_DOMAIN
  <2> QED
    BY <1>1, <2>1, <2>3, <2>4, <2>6 DEF ReadInv
<1>9. CASE ReadAddress
  <2>1. /\ pc \in Reading /\ pc # "header" /\ Complete
        /\ Before + 1 = HostFrom(script) /\ want = HostSize(script)
        /\ script[1] = SOCKS_VERSION /\ script[4 + MethodCount] = CMD_CONNECT
        /\ kind = TypeOf(script) /\ kind \in Types /\ Before \in Nat /\ Before >= 6 + MethodCount
        /\ dest' = None /\ kind' = kind /\ host' = data /\ data = SubSeq(script, Before + 1, taken)
        /\ pc' = "port" /\ want' = 2 /\ data' = <<>> /\ taken' = taken
    BY <1>9 DEF ReadAddress, Complete, Recv, ReadInv, inVars
  <2>2. MethodCount \in Nat /\ want \in Nat /\ HostSize(script) \in Bytes
    <3>1. want \in Bytes
      BY DEF TypeOK, Bytes
    <3>2. want \in Nat
      BY <3>1 DEF Bytes
    <3> QED
      BY <1>11, <2>1, <3>1, <3>2, Zenon
  <2>3. Before' = Before + want /\ Before' \in Nat /\ data' = SubSeq(script', Before' + 1, taken')
    BY <1>1, <2>1, ReadOn
  <2>4. Before' = taken
    BY <2>1, TakenBytes DEF Before
  <2>5. host' = SubSeq(script, HostFrom(script), Before')
    BY <2>1, <2>4, Zenon
  <2>6. /\ Before' >= 2 /\ Before' >= 2 + MethodCount /\ Before' >= 6 + MethodCount
        /\ Before' + 1 = HostFrom(script) + HostSize(script)
    BY <2>1, <2>2, <2>3
  <2>7. kind = ATYP_DOMAIN => 7 + MethodCount <= Before'
    <3>1. ASSUME kind = ATYP_DOMAIN PROVE HostFrom(script) = 8 + MethodCount
      BY <2>1, <3>1 DEF HostFrom, MethodCount
    <3> QED
      BY <2>1, <2>2, <2>3, <3>1
  <2> QED
    BY <1>1, <2>1, <2>2, <2>3, <2>5, <2>6, <2>7 DEF ReadInv
<1>10. CASE ReceiveUp
  <2>1. pump = "receiving" /\ pc' = pc
    BY <1>10 DEF ReceiveUp
  <2>2. pc \notin Reading
    BY <2>1 DEF ReadInv, DestInv
  <2> QED
    BY <1>3, <2>1, <2>2
<1>13. CASE ~(\/ TakeChunk \/ ReadMethods \/ ReadRequest \/ ReadLength \/ ReadAddress \/ ReceiveUp
              \/ ReadHeader /\ data[1] = SOCKS_VERSION)
  <2>1. \/ UNCHANGED <<taken, pc, want, data, kind, host, dest>>
        \/ pc' \notin Reading
    BY <1>13 DEF Next, HandlerStep, GiveUp, ReadHeader, MethodsUnsent, RejectRequest,
       AddressNotAscii, ReadPort, Create, BridgeFails, Established, NotEstablished, Send, HangUp,
       Open, WriteUp, WriteUpFails, PumpEnds, RelayEnds, Stop, Finally, Reading,
       recvVars, addrVars, inVars, vars
  <2> QED
    BY <1>2, <1>3, <2>1
<1> QED
  BY <1>4, <1>5, <1>6, <1>7, <1>8, <1>9, <1>10, <1>13

-----------------------------------------------------------------------------
\* The destination is the one whose request was taken.
LEMMA DestinationRead ==
  ASSUME TypeOK, data \in Seq(Bytes), ReadInv, ReadPort
  PROVE  /\ dest' \in Destinations /\ Requests(dest', script)
         /\ Handshake(dest', script) = taken
<1>4. Len(data) = 2
  <2>1. Len(data) >= 2 /\ Len(data) <= 2
    BY DEF ReadPort, Reading, ReadInv, Complete, TypeOK
  <2>2. Len(data) \in Nat
    BY LenProperties
  <2>3. \A k \in Nat : k >= 2 /\ k <= 2 => k = 2
    OBVIOUS
  <2> QED
    BY <2>1, <2>2, <2>3, Zenon
<1>. DEFINE n == MethodCount
            from == HostFrom(script)
            length == HostSize(script)
            at == Before
            high == data[1]
            low == data[2]
            port == <<high, low>>
<1>1. /\ pc = "port" /\ pc \in Reading /\ Complete /\ want = 2
      /\ at \in Nat /\ at >= 6 + n
      /\ script[1] = SOCKS_VERSION /\ script[4 + n] = CMD_CONNECT
      /\ kind = TypeOf(script) /\ kind \in Types
      /\ length \in Bytes /\ at + 1 = from + length /\ host = SubSeq(script, from, at)
  BY DEF ReadPort, Reading, ReadInv
<1>2. script \in Seq(Bytes) /\ Len(script) \in Nat /\ taken \in Nat /\ taken <= Len(script)
  <2>1. /\ script \in Seq(Bytes) /\ Len(script) \in Nat /\ taken \in Nat /\ arrived \in Nat
        /\ taken <= arrived /\ arrived <= Len(script)
    BY TakenBytes
  <2> QED
    BY <2>1
<1>3. n \in Bytes
  BY <1>1, MethodCountIsByte
<1>5. taken = at + 2
  BY <1>1, <1>4, ReadBytes
<1>6. /\ high = script[at + 1] /\ low = script[at + 2] /\ high \in Bytes /\ low \in Bytes
  <2>1. \A i \in 1..Len(data) : data[i] = script[Before + i] /\ data[i] \in Bytes
    BY <1>1, ReadBytes
  <2> QED
    BY <1>4, <2>1
<1>7. from \in {7 + n, 8 + n} /\ (from = 8 + n <=> kind = ATYP_DOMAIN)
  <2>1. from = IF kind = ATYP_DOMAIN THEN 8 + n ELSE 7 + n
    BY <1>1, Zenon DEF HostFrom, MethodCount
  <2>. HIDE DEF from, n
  <2>2. 7 + n # 8 + n
    BY <1>3 DEF Bytes
  <2> QED
    BY <2>1, <2>2
<1>8. /\ kind = ATYP_IPV4 => length = 4
      /\ kind = ATYP_IPV6 => length = 16
      /\ kind = ATYP_DOMAIN => script[7 + n] = length
  BY <1>1 DEF HostSize, MethodCount, ATYP_IPV4, ATYP_IPV6, ATYP_DOMAIN
<1>9. port[1] = high /\ port[2] = low
  OBVIOUS
<1>10. Placed(script, n, kind, length, at, port)
  BY <1>1, <1>6, <1>8, <1>9, Zenon DEF Placed, TypeOf, MethodCount
<1>11. dest' = Destination(script, kind, from, at, port)
  BY <1>1, <1>9, Zenon DEF ReadPort, Destination
<1>. HIDE DEF n, from, length, at, high, low
<1>12. 8 + n <= Len(script) /\ at + 2 <= Len(script)
  BY <1>1, <1>2, <1>3, <1>5 DEF Bytes
<1>13. dest' \in Destinations /\ Requests(dest', script) /\ Handshake(dest', script) = at + 2
  BY <1>1, <1>2, <1>3, <1>6, <1>7, <1>8, <1>10, <1>11, <1>12, ReadIsRequested
<1> QED
  BY <1>5, <1>13, Zenon

\* Where the written bytes end, those with the pump begin.
LEMMA WithThePump ==
  ASSUME TypeOK, DestInv, dest # None
  PROVE  LET start == Handshake(dest, script)
             written == start + Len(upstream)
         IN /\ start \in Nat /\ written \in Nat /\ start <= written /\ written <= taken
            /\ upstream = SubSeq(script, start + 1, written)
            /\ pump # "failed" =>
                 held = SubSeq(script, written + 1, taken) /\ Len(held) = taken - written
<1>. DEFINE start == Handshake(dest, script)
            written == start + Len(upstream)
<1>1. /\ script \in Seq(Bytes) /\ Len(script) \in Nat /\ taken \in Nat /\ taken <= Len(script)
  <2>1. /\ script \in Seq(Bytes) /\ Len(script) \in Nat /\ taken \in Nat /\ arrived \in Nat
        /\ taken <= arrived /\ arrived <= Len(script)
    BY TakenBytes
  <2> QED
    BY <2>1
<1>2. start \in 0..taken /\ Len(upstream) \in Nat
  BY LenProperties DEF DestInv
<1>3. /\ written <= taken /\ upstream = SubSeq(script, start + 1, written)
      /\ pump # "failed" => held = SubSeq(script, written + 1, taken)
  BY DEF DestInv, PayloadIsWhole
<1>. HIDE DEF start
<1>4. start \in Nat /\ written \in Nat /\ start <= written
  BY <1>1, <1>2
<1>5. pump # "failed" => Len(held) = taken - written
  BY <1>1, <1>3, <1>4, Part
<1> QED
  BY <1>3, <1>4, <1>5 DEF start

\* What the pump does keeps the bytes in their order and without a gap.
LEMMA PumpKeepsPayload ==
  ASSUME TypeOK, DestInv, ReceiveUp \/ WriteUp \/ WriteUpFails
  PROVE  DestInv'
<1>. DEFINE start == Handshake(dest, script)
            written == start + Len(upstream)
            start2 == Handshake(dest', script')
            written2 == start2 + Len(upstream')
<1>1. /\ script \in Seq(Bytes) /\ Len(script) \in Nat /\ taken \in Nat /\ arrived \in Nat
      /\ taken <= arrived /\ arrived <= Len(script)
  BY TakenBytes
<1>2. dest' = dest /\ script' = script /\ pc' = pc /\ dest # None
      /\ pump \in {"receiving", "writing"} /\ pump' # "off"
      /\ pc \notin {"creating", "waiting"}
  BY DEF ReceiveUp, WriteUp, WriteUpFails, DestInv, addrVars, inVars
<1>3. /\ start \in Nat /\ written \in Nat /\ start <= written /\ written <= taken
      /\ upstream = SubSeq(script, start + 1, written)
      /\ held = SubSeq(script, written + 1, taken) /\ Len(held) = taken - written
  BY <1>2, WithThePump
<1>4. start2 = start
  BY <1>2
<1>. HIDE DEF start, start2
<1>5. /\ taken' \in taken..arrived
      /\ upstream' \in Seq(Bytes)
      /\ pump' # "writing" => held' = <<>>
      /\ written2 <= taken' /\ upstream' = SubSeq(script, start + 1, written2)
      /\ pump' # "failed" => held' = SubSeq(script, written2 + 1, taken')
  <2>1. CASE ReceiveUp
    <3>1. /\ pump = "receiving" /\ pump' = "writing" /\ upstream' = upstream
          /\ taken' \in taken + 1 .. arrived /\ held' = SubSeq(script, taken + 1, taken')
      BY <2>1 DEF ReceiveUp
    <3>2. held = <<>> /\ upstream \in Seq(Bytes)
      BY <3>1 DEF DestInv
    <3>3. written = taken
      <4>1. Len(held) = 0
        BY <3>2
      <4>2. taken - written = 0
        BY <1>3, <4>1
      <4> QED
        BY <1>1, <1>3, <4>2
    <3>4. written2 = written
      BY <1>4, <3>1
    <3>5. taken' \in taken..arrived /\ written2 <= taken'
      BY <1>1, <3>1, <3>3, <3>4
    <3> QED
      BY <1>3, <3>1, <3>2, <3>3, <3>4, <3>5, Zenon
  <2>2. CASE WriteUp
    <3>1. /\ taken' = taken /\ held' = <<>> /\ upstream' = upstream \o held
          /\ pump' \in {"receiving", "ended"}
      BY <2>2 DEF WriteUp, inVars
    <3>2. upstream' = SubSeq(script, start + 1, taken) /\ start + Len(upstream') = taken
      BY <1>1, <1>3, <3>1, Longer
    <3>3. written2 = taken
      BY <1>4, <3>2
    <3>4. SubSeq(script, taken + 1, taken) = <<>>
      BY <1>1, SubSeqEmpty
    <3>5. upstream' \in Seq(Bytes)
      BY <1>1, <1>3, <3>2, Part
    <3>6. taken' \in taken..arrived /\ written2 <= taken'
      BY <1>1, <3>1, <3>3
    <3> QED
      BY <3>1, <3>2, <3>3, <3>4, <3>5, <3>6, Zenon
  <2>3. CASE WriteUpFails
    <3>1. PICK k \in 0..Len(held) : upstream' = upstream \o SubSeq(held, 1, k)
      BY <2>3 DEF WriteUpFails
    <3>2. taken' = taken /\ held' = <<>> /\ pump' = "failed"
      BY <2>3 DEF WriteUpFails, inVars
    <3>3. /\ k \in 0..(taken - written) /\ written + k \in Nat /\ written <= written + k
          /\ written + k <= taken /\ written + k <= Len(script) /\ start <= written + k
      BY <1>1, <1>3, <3>1
    <3>4. SubSeq(held, 1, k) = SubSeq(script, written + 1, written + k)
      BY <1>1, <1>3, <3>3, Cut
    <3>5. /\ upstream' = SubSeq(script, start + 1, written + k)
          /\ start + Len(upstream') = written + k
      <4>1. upstream' = SubSeq(script, start + 1, written) \o SubSeq(script, written + 1, written + k)
        BY <1>3, <3>1, <3>4, Zenon
      <4>. HIDE DEF written
      <4>2. upstream' = SubSeq(script, start + 1, written + k)
        BY <1>1, <1>3, <3>3, <4>1, Longer, Z3T(30)
      <4>3. start + Len(SubSeq(script, start + 1, written + k)) = written + k
        BY <1>1, <1>3, <3>3, Longer
      <4> QED
        BY <4>2, <4>3
    <3>6. written2 = written + k
      BY <1>4, <3>5
    <3>7. upstream' \in Seq(Bytes)
      BY <1>1, <1>3, <3>3, <3>5, Part
    <3>8. taken' \in taken..arrived /\ written2 <= taken'
      BY <1>1, <3>2, <3>3, <3>6
    <3> QED
      BY <3>2, <3>5, <3>6, <3>7, <3>8
  <2> QED
    BY <2>1, <2>2, <2>3
<1>6. start2 \in 0..taken'
  BY <1>1, <1>3, <1>4, <1>5
<1>7. DestinationIsRequested'
  BY <1>2, Zenon DEF DestInv, DestinationIsRequested
<1>8. PayloadIsWhole'
  <2>1. /\ written2 <= taken' /\ upstream' = SubSeq(script', start2 + 1, written2)
        /\ pump' # "failed" => held' = SubSeq(script', written2 + 1, taken')
    BY <1>2, <1>4, <1>5, Zenon
  <2> QED
    BY <2>1, Zenon DEF PayloadIsWhole, start2
<1> QED
  BY <1>2, <1>5, <1>6, <1>7, <1>8, Zenon DEF DestInv, start2

\* A destination stays the one requested, and nothing is lost or added between
\* the script and what goes upstream.
LEMMA KeepsDest ==
  ASSUME TypeOK, data \in Seq(Bytes), ReadInv, DestInv, [Next]_vars
  PROVE  DestInv' /\ dest' \in Destinations \cup {None}
<1>1. /\ script \in Seq(Bytes) /\ Len(script) \in Nat /\ taken \in Nat /\ arrived \in Nat
      /\ taken <= arrived /\ arrived <= Len(script)
  BY TakenBytes
<1>2. script' = script
  BY KeepsInput
<1>3. CASE ReadPort
  <2>1. dest' \in Destinations /\ Requests(dest', script) /\ Handshake(dest', script) = taken
    BY <1>3, DestinationRead
  <2>2. dest' # None
    BY <2>1, ScriptsAssumption
  <2>3. /\ taken' = taken /\ upstream' = upstream /\ held' = held /\ pump' = pump
        /\ dest = None
    BY <1>3 DEF ReadPort, inVars, connVars, pumpVars, ReadInv, Reading
  <2>4. upstream = <<>> /\ held = <<>> /\ pump = "off" /\ upstream \in Seq(Bytes)
    BY <2>3 DEF DestInv
  <2>5. Handshake(dest', script') \in 0..taken'
    BY <1>1, <1>2, <2>1, <2>3
  <2>6. SubSeq(script, taken + 1, taken) = <<>>
    <3>1. taken + 1 \in Int /\ taken \in Int /\ taken < taken + 1
      BY <1>1
    <3> QED
      BY <3>1, SubSeqEmpty
  <2>7. taken + Len(upstream') = taken /\ taken <= taken
    BY <1>1, <2>3, <2>4
  <2>8. DestinationIsRequested' /\ PayloadIsWhole'
    BY <1>2, <2>1, <2>3, <2>4, <2>6, <2>7, Zenon DEF DestinationIsRequested, PayloadIsWhole
  <2> QED
    BY <2>1, <2>2, <2>3, <2>4, <2>5, <2>8, Zenon DEF DestInv
<1>4. CASE TakeChunk
  <2>1. dest = None /\ dest' = None /\ pc' = pc /\ pc \in Reading /\ UNCHANGED pumpVars
    BY <1>4 DEF TakeChunk, Waiting, ReadInv, addrVars, connVars
  <2>2. pc \notin {"creating", "waiting", "relaying"}
    BY <2>1 DEF Reading
  <2> QED
    BY <2>1, <2>2, Zenon DEF DestInv, DestinationIsRequested, PayloadIsWhole, pumpVars
<1>5. CASE ReceiveUp \/ WriteUp \/ WriteUpFails
  <2>1. DestInv'
    BY <1>5, PumpKeepsPayload
  <2>2. dest' = dest
    BY <1>5 DEF ReceiveUp, WriteUp, WriteUpFails, addrVars
  <2> QED
    BY <2>1, <2>2 DEF TypeOK
<1>6. CASE ~(ReadPort \/ TakeChunk \/ ReceiveUp \/ WriteUp \/ WriteUpFails)
  <2>1. UNCHANGED <<taken, dest, held, upstream>>
    BY <1>6 DEF Next, HandlerStep, GiveUp, ReadHeader, ReadMethods, MethodsUnsent, ReadRequest,
       RejectRequest, ReadLength, ReadAddress, AddressNotAscii, Create, BridgeFails,
       Established, NotEstablished, Send, HangUp, Open, PumpEnds, RelayEnds, Stop,
       inVars, addrVars, connVars, pumpVars, vars
  <2>2. \/ pump' = pump
        \/ pump = "receiving" /\ pump' = "ended" /\ pc' = pc
        \/ Established
    BY <1>6 DEF Next, HandlerStep, GiveUp, ReadHeader, ReadMethods, MethodsUnsent, ReadRequest,
       RejectRequest, ReadLength, ReadAddress, AddressNotAscii, Create, BridgeFails,
       NotEstablished, Send, HangUp, Open, PumpEnds, RelayEnds, Stop, connVars, pumpVars, vars
  <2>3. /\ pc' \in {"creating", "waiting", "relaying"} => pc \in {"creating", "waiting", "relaying"}
        /\ pc' \in {"creating", "waiting"} => pc \in {"creating", "waiting"}
    BY <1>6 DEF Next, HandlerStep, GiveUp, ReadHeader, ReadMethods, MethodsUnsent, ReadRequest,
       RejectRequest, ReadLength, ReadAddress, AddressNotAscii, Create, BridgeFails,
       Established, NotEstablished, Send, HangUp, Open, PumpEnds, RelayEnds, Stop,
       Finally, Recv, vars
  <2>4. /\ dest' = None \/ pc' \in {"creating", "waiting"} => pump' = "off"
        /\ pump' = "off" => upstream' = <<>>
        /\ pump' # "writing" => held' = <<>>
        /\ pump' # "failed" => pump # "failed"
    <3>1. CASE Established
      <4>1. pc = "waiting" /\ pc' = "relaying" /\ pump' = "receiving"
        BY <3>1 DEF Established
      <4>2. dest # None /\ pump = "off"
        BY <4>1 DEF DestInv
      <4> QED
        BY <2>1, <4>1, <4>2 DEF DestInv
    <3>2. CASE ~Established
      BY <2>1, <2>2, <2>3, <3>2 DEF DestInv
    <3> QED
      BY <3>1, <3>2
  <2>5. DestinationIsRequested' /\ PayloadIsWhole'
    BY <1>2, <2>1, <2>4, Zenon DEF DestInv, DestinationIsRequested, PayloadIsWhole
  <2> QED
    BY <1>2, <2>1, <2>3, <2>4, <2>5, Zenon DEF DestInv, TypeOK
<1> QED
  BY <1>3, <1>4, <1>5, <1>6

-----------------------------------------------------------------------------
\* A request that is given up within its address is none.
LEMMA NoNameGivenUp ==
  ASSUME TypeOK, data \in Seq(Bytes), ReadInv,
         RecvFails, pc \in {"length", "address", "port"}
  PROVE  app # "open" \/ ~WellFormed(script)
<1>1. CASE app # "open"
  BY <1>1
<1>2. CASE app = "open"
  <2>1. want = 0 /\ pc = "address" /\ HostSize(script) = 0 /\ kind = TypeOf(script) /\ kind \in Types
    BY <1>2 DEF RecvFails, Waiting, ReadInv, Reading
  <2>2. kind = ATYP_DOMAIN /\ script[7 + script[2]] = 0
    BY <2>1 DEF HostSize, Types, ATYP_IPV4, ATYP_IPV6, ATYP_DOMAIN
  <2>3. ~(0 > 0)
    OBVIOUS
  <2> QED
    BY <2>1, <2>2, <2>3, Zenon DEF WellFormed
<1> QED
  BY <1>1, <1>2

\* What is rejected is no request to connect to an address of a known type.
LEMMA RejectedIsNone ==
  ASSUME TypeOK, data \in Seq(Bytes), ReadInv, RejectRequest
  PROVE  ~WellFormed(script)
<1>1. /\ pc \in Reading /\ pc # "header" /\ Before = 2 + MethodCount /\ want = 4 /\ Complete
      /\ data[2] # CMD_CONNECT \/ data[4] \notin Types
  BY DEF RejectRequest, ReadInv, Reading
<1>2. MethodCount \in Nat
  <2>1. MethodCount \in Bytes
    BY <1>1, MethodCountIsByte
  <2> QED
    BY <2>1 DEF Bytes
<1>3. data[2] = script[4 + MethodCount] /\ data[4] = script[6 + MethodCount]
  <2>1. 2 \in 1..Len(data) /\ 4 \in 1..Len(data)
    <3>1. Len(data) \in Nat /\ Len(data) >= 4
      BY <1>1, LenProperties DEF Complete
    <3> QED
      BY <3>1
  <2>2. \A i \in 1..Len(data) : data[i] = script[Before + i]
    BY <1>1, ReadBytes
  <2>3. Before + 2 = 4 + MethodCount /\ Before + 4 = 6 + MethodCount
    BY <1>1, <1>2
  <2> QED
    BY <2>1, <2>2, <2>3, Zenon
<1>4. script \in Seq(Bytes)
  BY TakenBytes
<1>5. ASSUME WellFormed(script) PROVE FALSE
  <2>1. script[4 + MethodCount] = CMD_CONNECT /\ script[6 + MethodCount] \in Types
    BY <1>4, <1>5, WellFormedConnects, Zenon DEF WellFormed, TypeOf, MethodCount
  <2> QED
    BY <1>1, <1>3, <2>1, Zenon
<1> QED
  BY <1>5

\* A second reply after the first.
LEMMA SecondReply ==
  ASSUME NEW S, NEW x \in S, NEW y \in S
  PROVE  Append(<<x>>, y) = <<x, y>>
<1>. DEFINE one == <<x>>
            two == <<x, y>>
            both == Append(one, y)
<1>1. one \in Seq(S) /\ Len(one) = 1 /\ one[1] = x
  OBVIOUS
<1>2. two \in Seq(S) /\ Len(two) = 2 /\ two[1] = x /\ two[2] = y
  OBVIOUS
<1>. HIDE DEF one, two
<1>3. both \in Seq(S) /\ Len(both) = 2 /\ both[1] = one[1] /\ both[2] = y
  <2>1. both \in Seq(S) /\ Len(both) = Len(one) + 1 /\ both[Len(one) + 1] = y
    BY <1>1, AppendProperties
  <2>2. \A i \in 1..Len(one) : both[i] = one[i]
    BY <1>1, AppendProperties
  <2>3. 1 \in 1..Len(one) /\ Len(one) + 1 = 2
    BY <1>1
  <2> QED
    BY <2>1, <2>2, <2>3, Zenon
<1>. HIDE DEF both
<1>4. \A i \in 1..2 : both[i] = two[i]
  BY <1>1, <1>2, <1>3
<1>5. both = two
  BY <1>2, <1>3, <1>4, SeqEqual
<1> QED
  BY <1>5 DEF both, one, two

\* The application is told of the method, and then of one thing that is true.
LEMMA KeepsReplies ==
  ASSUME TypeOK, data \in Seq(Bytes), ReadInv, DestInv, ReplyInv, [Next]_vars
  PROVE  ReplyInv'
<1>1. script' = script /\ (app # "open" => app' # "open") /\ (opened => opened')
  <2>1. script' = script
    BY KeepsInput
  <2>2. (app # "open" => app' # "open") /\ (opened => opened')
    BY DEF Next, HandlerStep, TakeChunk, GiveUp, ReadHeader, ReadMethods, MethodsUnsent,
       ReadRequest, RejectRequest, ReadLength, ReadAddress, AddressNotAscii, ReadPort, Create,
       BridgeFails, Established, NotEstablished, Send, HangUp, Open, ReceiveUp, WriteUp,
       WriteUpFails, PumpEnds, RelayEnds, Stop, inVars, connVars, vars
  <2> QED
    BY <2>1, <2>2
<1>2. dest # None => dest' # None
  <2>1. CASE ReadPort
    BY <2>1 DEF ReadPort, ReadInv, Reading
  <2>2. CASE ~ReadPort
    BY <2>2 DEF Next, HandlerStep, TakeChunk, GiveUp, ReadHeader, ReadMethods, MethodsUnsent,
       ReadRequest, RejectRequest, ReadLength, ReadAddress, AddressNotAscii, Create,
       BridgeFails, Established, NotEstablished, Send, HangUp, Open, ReceiveUp, WriteUp,
       WriteUpFails, PumpEnds, RelayEnds, Stop, addrVars, vars
  <2> QED
    BY <2>1, <2>2
<1>3. Append(<<>>, "method") = <<"method">>
  OBVIOUS
<1>4. /\ Append(<<"method">>, "success") = <<"method", "success">>
      /\ Append(<<"method">>, "failure") = <<"method", "failure">>
      /\ Append(<<"method">>, "refused") = <<"method", "refused">>
  <2>1. \A x, y \in {"method", "success", "failure", "refused"} : Append(<<x>>, y) = <<x, y>>
    BY SecondReply
  <2> QED
    BY <2>1
<1>5. /\ <<>> # <<"method">>
      /\ \A reply : <<"method", reply>> # <<>> /\ <<"method", reply>> # <<"method">>
      /\ \A one, two : <<"method", one>> = <<"method", two>> => one = two
  OBVIOUS
<1>6. CASE UNCHANGED replies /\ (pc' \notin Reading \cup {"creating", "waiting"} \/ pc' = pc
            \/ (pc' \in {"methods"} /\ pc = "header")
            \/ /\ pc' \in {"length", "address", "port", "creating", "waiting"}
               /\ pc \in {"request", "length", "address", "port", "creating"})
  <2>1. pc' \in {"header", "methods"} => pc \in {"header", "methods"}
    BY <1>6 DEF Reading
  <2>2. pc' \in {"request", "length", "address", "port", "creating", "waiting"} =>
          pc \in {"request", "length", "address", "port", "creating", "waiting"}
    BY <1>6 DEF Reading
  <2> QED
    BY <1>1, <1>2, <1>6, <2>1, <2>2, Zenon DEF ReplyInv
<1>7. ASSUME replies = <<"method">>, SendReply("failure"), pc' = "closed",
             app # "open" \/ ~WellFormed(script)
      PROVE  ReplyInv'
  <2>1. replies' = <<"method", "failure">>
    BY <1>4, <1>7, Zenon DEF SendReply
  <2>2. "failure" # "success" /\ "failure" # "refused"
    OBVIOUS
  <2>3. replies' # <<"method", "success">> /\ replies' # <<"method", "refused">>
    BY <1>5, <2>1, <2>2, Zenon
  <2>4. pc' \notin {"header", "methods", "request", "length", "address", "port", "creating", "waiting"}
    BY <1>7
  <2> QED
    BY <1>1, <1>7, <2>1, <2>3, <2>4, Zenon DEF ReplyInv
<1>8. CASE GiveUp
  <2>1. RecvFails /\ pc \in Reading /\ pc' = "closed"
    BY <1>8 DEF GiveUp, RecvFails, Waiting, Finally
  <2>2. CASE pc \in {"header", "methods", "request"}
    BY <1>6, <1>8, <2>1, <2>2 DEF GiveUp, Reading
  <2>3. CASE pc \in {"length", "address", "port"}
    <3>1. SendReply("failure") /\ replies = <<"method">>
      BY <1>8, <2>3 DEF GiveUp, ReplyInv
    <3> QED
      BY <1>7, <2>1, <2>3, <3>1, NoNameGivenUp
  <2> QED
    BY <2>1, <2>2, <2>3 DEF Reading
<1>9. CASE RejectRequest
  <2>1. SendReply("failure") /\ replies = <<"method">> /\ pc' = "closed"
    BY <1>9 DEF RejectRequest, Finally, ReplyInv
  <2> QED
    BY <1>7, <1>9, <2>1, RejectedIsNone
<1>10. CASE ReadMethods
  <2>1. pc' = "request" /\ replies = <<>> /\ replies' = Append(<<>>, "method")
    BY <1>10 DEF ReadMethods, Recv, ReplyInv, SendReply
  <2>2. replies' = <<"method">> /\ \A reply : replies' # <<"method", reply>>
    BY <1>3, <1>5, <2>1, Zenon
  <2>3. pc' \notin {"header", "methods"}
    BY <2>1
  <2> QED
    BY <2>2, <2>3, Zenon DEF ReplyInv
<1>11. CASE Established
  <2>1. /\ pc' = "relaying" /\ replies = <<"method">> /\ replies' = Append(replies, "success")
        /\ opened
    BY <1>11 DEF Established, ReplyInv, SendReply
  <2>2. replies' = <<"method", "success">>
    BY <1>4, <2>1, Zenon
  <2>3. "success" # "failure" /\ "success" # "refused"
    OBVIOUS
  <2>4. replies' # <<"method", "failure">> /\ replies' # <<"method", "refused">>
    BY <1>5, <2>2, <2>3, Zenon
  <2>5. pc' \notin {"header", "methods", "request", "length", "address", "port", "creating", "waiting"}
    BY <2>1
  <2> QED
    BY <1>1, <2>1, <2>2, <2>4, <2>5, Zenon DEF ReplyInv
<1>12. CASE NotEstablished
  <2>1. /\ pc' = "closed" /\ replies = <<"method">> /\ replies' = Append(replies, "refused")
        /\ dest # None
    BY <1>12 DEF NotEstablished, ReplyInv, SendReply, DestInv
  <2>2. replies' = <<"method", "refused">>
    BY <1>4, <2>1, Zenon
  <2>3. "refused" # "failure" /\ "refused" # "success"
    OBVIOUS
  <2>4. replies' # <<"method", "failure">> /\ replies' # <<"method", "success">>
    BY <1>5, <2>2, <2>3, Zenon
  <2>5. pc' \notin {"header", "methods", "request", "length", "address", "port", "creating", "waiting"}
    BY <2>1
  <2> QED
    BY <1>2, <2>1, <2>2, <2>4, <2>5, Zenon DEF ReplyInv
<1>13. CASE ~(GiveUp \/ RejectRequest \/ ReadMethods \/ Established \/ NotEstablished)
  <2>1. UNCHANGED replies
    BY <1>13 DEF Next, HandlerStep, TakeChunk, ReadHeader, MethodsUnsent,
       ReadRequest, ReadLength, ReadAddress, AddressNotAscii, ReadPort, Create,
       BridgeFails, Send, HangUp, Open, ReceiveUp, WriteUp,
       WriteUpFails, PumpEnds, RelayEnds, Stop, vars
  <2>2. \/ pc' \in {"closed", "dead"} \/ pc' = pc
        \/ pc = "header" /\ pc' = "methods"
        \/ /\ pc' \in {"length", "address", "port", "creating", "waiting"}
           /\ pc \in {"request", "length", "address", "port", "creating"}
    BY <1>13 DEF Next, HandlerStep, TakeChunk, ReadHeader, MethodsUnsent,
       ReadRequest, ReadLength, ReadAddress, AddressNotAscii, ReadPort, Create,
       BridgeFails, Send, HangUp, Open, ReceiveUp, WriteUp,
       WriteUpFails, PumpEnds, RelayEnds, Stop, Finally, CloseUpstream, Recv, vars
  <2> QED
    BY <1>6, <2>1, <2>2 DEF Reading
<1> QED
  BY <1>8, <1>9, <1>10, <1>11, <1>12, <1>13

-----------------------------------------------------------------------------
\* The rest of what the variables are.
LEMMA KeepsFlags ==
  ASSUME TypeOK, [Next]_vars
  PROVE  /\ conn' \in {"none", "requested", "broken"} /\ opened' \in BOOLEAN /\ upClosed' \in BOOLEAN
         /\ pump' \in {"off", "receiving", "writing", "ended", "failed"}
<1>1. /\ conn \in {"none", "requested", "broken"} /\ opened \in BOOLEAN /\ upClosed \in BOOLEAN
      /\ pump \in {"off", "receiving", "writing", "ended", "failed"}
  BY DEF TypeOK
<1>2. conn' \in {"none", "requested", "broken"}
  BY <1>1 DEF Next, HandlerStep, TakeChunk, GiveUp, ReadHeader, ReadMethods, MethodsUnsent,
     ReadRequest, RejectRequest, ReadLength, ReadAddress, AddressNotAscii, ReadPort, Create,
     BridgeFails, Established, NotEstablished, Send, HangUp, Open, ReceiveUp, WriteUp,
     WriteUpFails, PumpEnds, RelayEnds, Stop, connVars, vars
<1>3. opened' \in BOOLEAN
  BY <1>1 DEF Next, HandlerStep, TakeChunk, GiveUp, ReadHeader, ReadMethods, MethodsUnsent,
     ReadRequest, RejectRequest, ReadLength, ReadAddress, AddressNotAscii, ReadPort, Create,
     BridgeFails, Established, NotEstablished, Send, HangUp, Open, ReceiveUp, WriteUp,
     WriteUpFails, PumpEnds, RelayEnds, Stop, connVars, vars
<1>4. upClosed' \in BOOLEAN
  BY <1>1 DEF Next, HandlerStep, TakeChunk, GiveUp, ReadHeader, ReadMethods, MethodsUnsent,
     ReadRequest, RejectRequest, ReadLength, ReadAddress, AddressNotAscii, ReadPort, Create,
     BridgeFails, Established, NotEstablished, Send, HangUp, Open, ReceiveUp, WriteUp,
     WriteUpFails, PumpEnds, RelayEnds, Stop, Finally, CloseUpstream, connVars, vars
<1>5. pump' \in {"off", "receiving", "writing", "ended", "failed"}
  BY <1>1 DEF Next, HandlerStep, TakeChunk, GiveUp, ReadHeader, ReadMethods, MethodsUnsent,
     ReadRequest, RejectRequest, ReadLength, ReadAddress, AddressNotAscii, ReadPort, Create,
     BridgeFails, Established, NotEstablished, Send, HangUp, Open, ReceiveUp, WriteUp,
     WriteUpFails, PumpEnds, RelayEnds, Stop, connVars, pumpVars, vars
<1> QED
  BY <1>2, <1>3, <1>4, <1>5

LEMMA ShortSequences ==
  ASSUME NEW S, NEW x \in S
  PROVE  <<>> \in Seq(S) /\ <<x>> \in Seq(S) /\ \A y \in S : <<x, y>> \in Seq(S)
OBVIOUS

LEMMA RepliesTyped ==
  ASSUME NEW r \in {<<>>, <<"method">>, <<"method", "success">>, <<"method", "failure">>,
                    <<"method", "refused">>}
  PROVE  r \in Seq({"method", "success", "failure", "refused"})
<1>. DEFINE Words == {"method", "success", "failure", "refused"}
<1>1. "method" \in Words /\ "success" \in Words /\ "failure" \in Words /\ "refused" \in Words
  OBVIOUS
<1>. HIDE DEF Words
<1>2. /\ <<>> \in Seq(Words) /\ <<"method">> \in Seq(Words)
      /\ <<"method", "success">> \in Seq(Words) /\ <<"method", "failure">> \in Seq(Words)
      /\ <<"method", "refused">> \in Seq(Words)
  BY <1>1, ShortSequences, Zenon
<1> QED
  BY <1>2, Zenon DEF Words

\* What an application may have been told.
LEMMA Replies ==
  ASSUME ReplyInv
  PROVE  /\ replies \in Seq({"method", "success", "failure", "refused"})
         /\ RepliesAreTrue
<1>1. replies \in Seq({"method", "success", "failure", "refused"})
  BY RepliesTyped, Zenon DEF ReplyInv
<1>2. CASE replies = <<>>
  <2>1. Len(replies) <= 2 /\ replies = <<>> /\ \A e : ~Contains(replies, e)
    BY <1>2 DEF Contains
  <2> QED
    BY <1>1, <2>1, Zenon DEF RepliesAreTrue
<1>3. CASE replies = <<"method">>
  <2>1. /\ Len(replies) <= 2 /\ IsPrefix(<<"method">>, replies)
        /\ \A e \in {"success", "refused", "failure"} : ~Contains(replies, e)
    BY <1>3 DEF Contains, IsPrefix
  <2> QED
    BY <1>1, <1>3, <2>1, Zenon DEF RepliesAreTrue
<1>4. CASE replies = <<"method", "success">>
  <2>1. /\ Len(replies) <= 2 /\ IsPrefix(<<"method">>, replies)
        /\ \A e \in {"refused", "failure"} : ~Contains(replies, e)
    BY <1>4 DEF Contains, IsPrefix
  <2>2. opened
    BY <1>4 DEF ReplyInv
  <2> QED
    BY <1>1, <1>4, <2>1, <2>2, Zenon DEF RepliesAreTrue
<1>5. CASE replies = <<"method", "failure">>
  <2>1. /\ Len(replies) <= 2 /\ IsPrefix(<<"method">>, replies)
        /\ \A e \in {"refused", "success"} : ~Contains(replies, e)
    BY <1>5 DEF Contains, IsPrefix
  <2>2. app # "open" \/ ~WellFormed(script)
    BY <1>5 DEF ReplyInv
  <2> QED
    BY <1>1, <1>5, <2>1, <2>2, Zenon DEF RepliesAreTrue
<1>6. CASE replies = <<"method", "refused">>
  <2>1. /\ Len(replies) <= 2 /\ IsPrefix(<<"method">>, replies)
        /\ \A e \in {"failure", "success"} : ~Contains(replies, e)
    BY <1>6 DEF Contains, IsPrefix
  <2>2. dest # None
    BY <1>6 DEF ReplyInv
  <2> QED
    BY <1>1, <1>6, <2>1, <2>2, Zenon DEF RepliesAreTrue
<1> QED
  BY <1>2, <1>3, <1>4, <1>5, <1>6 DEF ReplyInv

-----------------------------------------------------------------------------
LEMMA SocksInit == Init => SocksInv
<1>. SUFFICES ASSUME Init PROVE SocksInv
  OBVIOUS
<1>1. /\ script \in Scripts /\ arrived = 0 /\ taken = 0 /\ app = "open"
      /\ pc = "header" /\ want = 2 /\ data = <<>> /\ kind = 0 /\ dest = None /\ conn = "none"
      /\ opened = FALSE /\ replies = <<>> /\ upstream = <<>> /\ upClosed = FALSE
      /\ pump = "off" /\ held = <<>>
  BY DEF Init
<1>2. ReplyInv
  BY <1>1, Zenon DEF ReplyInv
<1>3. Len(script) \in Nat /\ data \in Seq(Bytes) /\ Len(data) = 0
  BY <1>1, ScriptsAssumption, LenProperties
<1>4. TypeOK
  <2>1. replies \in Seq({"method", "success", "failure", "refused"})
    BY <1>2, Replies
  <2>2. /\ taken \in 0..arrived /\ arrived \in 0..Len(script) /\ want \in 0..255
        /\ Len(data) <= want /\ kind \in 0..255
    BY <1>1, <1>3
  <2> QED
    BY <1>1, <2>1, <2>2, Zenon DEF TypeOK, Reading
<1>5. ReadInv
  <2>1. SubSeq(script, 0 + 1, 0) = <<>>
    BY SubSeqEmpty
  <2>2. Before = 0
    <3>1. taken = 0 /\ Len(data) = 0 /\ 0 - 0 = 0
      BY <1>1, <1>3
    <3> QED
      BY <3>1, Zenon DEF Before
  <2> QED
    BY <1>1, <2>1, <2>2 DEF ReadInv
<1>6. DestInv
  <2>1. <<>> \in Seq(Bytes)
    OBVIOUS
  <2> QED
    BY <1>1, <2>1, Zenon DEF DestInv, DestinationIsRequested, PayloadIsWhole
<1> QED
  BY <1>2, <1>3, <1>4, <1>5, <1>6 DEF SocksInv

LEMMA SocksNext == SocksInv /\ [Next]_vars => SocksInv'
<1>. SUFFICES ASSUME SocksInv, [Next]_vars PROVE SocksInv'
  OBVIOUS
<1>1. TypeOK /\ data \in Seq(Bytes) /\ ReadInv /\ DestInv /\ ReplyInv
  BY DEF SocksInv
<1>2. ReadInv' /\ DestInv' /\ ReplyInv' /\ dest' \in Destinations \cup {None}
  BY <1>1, KeepsReading, KeepsDest, KeepsReplies
<1>3. /\ script' = script /\ taken' \in 0..arrived' /\ arrived' \in 0..Len(script')
      /\ app' \in {"open", "closed", "reset"}
  BY <1>1, KeepsInput
<1>4. /\ pc' \in Reading \cup {"creating", "waiting", "relaying", "closed", "dead"}
      /\ want' \in 0..255 /\ data' \in Seq(Bytes) /\ Len(data') <= want'
      /\ kind' \in 0..255
  BY <1>1, KeepsHandler
<1>5. /\ conn' \in {"none", "requested", "broken"} /\ opened' \in BOOLEAN /\ upClosed' \in BOOLEAN
      /\ pump' \in {"off", "receiving", "writing", "ended", "failed"}
  BY <1>1, KeepsFlags
<1>6. replies' \in Seq({"method", "success", "failure", "refused"})
  BY <1>2, RepliesTyped, Zenon DEF ReplyInv
<1>7. TypeOK'
  BY <1>1, <1>2, <1>3, <1>4, <1>5, <1>6, Zenon DEF TypeOK, Reading
<1> QED
  BY <1>2, <1>4, <1>7 DEF SocksInv

\* At every byte of the handshake and of what follows it.
THEOREM Invariant == Spec => []SocksInv
<1>1. Init => SocksInv
  BY SocksInit
<1>2. SocksInv /\ [Next]_vars => SocksInv'
  BY SocksNext
<1> QED
  BY <1>1, <1>2, PTL DEF Spec

\* Every variable keeps its type: _recv never has more than it asks for, never
\* asks for more than a byte can say, and no byte is taken that has not arrived.
THEOREM Typing == Spec => []TypeOK
<1>1. SocksInv => TypeOK
  BY DEF SocksInv
<1> QED
  BY <1>1, Invariant, PTL

\* socks.py _do_handshake, _parse_address, _recv: a connection is asked for
\* only to the host and port that the application sent, however they arrived.
THEOREM DestinationRequested == Spec => []DestinationIsRequested
<1>1. SocksInv => DestinationIsRequested
  BY DEF SocksInv, DestInv
<1> QED
  BY <1>1, Invariant, PTL

\* socks.py handle, _relay: what follows the request goes upstream from its
\* first byte on and without a gap; what was received and is not there yet is
\* with the pump, unless a write has failed, and then nothing comes after it.
THEOREM PayloadWhole == Spec => []PayloadIsWhole
<1>1. SocksInv => PayloadIsWhole
  BY DEF SocksInv, DestInv
<1> QED
  BY <1>1, Invariant, PTL

\* socks.py _send_reply and its callers: what the application is told is true.
THEOREM TrueReplies == Spec => []RepliesAreTrue
<1>1. SocksInv => RepliesAreTrue
  BY Replies DEF SocksInv
<1> QED
  BY <1>1, Invariant, PTL
=============================================================================
