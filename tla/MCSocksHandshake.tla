-------------------------- MODULE MCSocksHandshake --------------------------
(***************************************************************************)
(* What applications send, for TLC: requests of every type, with one and   *)
(* with several methods, followed by data or not; and what is no request.  *)
(***************************************************************************)
EXTENDS SocksHandshake

Greeting == <<5, 1, 0>>
Connect(type) == <<5, 1, 0, type>>
Port == <<1, 187>>
Payload == <<5, 1, 0>>

Well == {
  Greeting \o Connect(1) \o <<127, 0, 0, 1>> \o Port \o Payload,
  <<5, 3, 0, 1, 2>> \o Connect(3) \o <<2, 97, 46>> \o <<0, 80>> \o Payload,
  <<5, 2, 5, 1>> \o <<4, 1, 9, 3>> \o <<1, 98>> \o <<255, 255>>,
  Greeting \o Connect(4) \o [i \in 1..16 |-> IF i = 16 THEN 1 ELSE 0] \o Port \o <<200>>}

Ill == {
  <<4, 1, 0, 80, 127, 0, 0, 1, 0>>,                \* SOCKS4
  <<5, 0>> \o Connect(1) \o <<127, 0, 0, 1>> \o Port,  \* no methods
  Greeting \o <<5, 2, 0, 1, 127, 0, 0, 1>> \o Port,    \* BIND
  Greeting \o Connect(2) \o <<127, 0, 0, 1>> \o Port,  \* an unknown type
  Greeting \o Connect(3) \o <<0>> \o Port,             \* an empty name
  Greeting \o Connect(3) \o <<2, 195, 164>> \o Port,   \* a name that is not ASCII
  Greeting \o Connect(1) \o <<127, 0>>}                \* cut short

MCScripts == Well \cup Ill

\* WellFormed tells them apart.
ASSUME WellAssumption == \A s \in MCScripts : WellFormed(s) <=> s \in Well
=============================================================================
