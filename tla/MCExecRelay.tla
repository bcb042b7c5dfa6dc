----------------------------- MODULE MCExecRelay -----------------------------
(***************************************************************************)
(* A policy, its later versions and calls for TLC, after                   *)
(* tests/test_exec_policy.py: whole, split and embedded placeholders, a    *)
(* maximum length, an enumeration, a parameter that need not be a string,  *)
(* a level that is none.                                                   *)
(***************************************************************************)
EXTENDS ExecRelay, TLC

CONSTANTS r1, r2, paths, label, count

Spec1(n, demands) == n :> (demands @@ NoDemands)

Add == [name |-> "add", level |-> "allow", dirs |-> {"project"},
        cmd |-> << <<"git">>, <<"add">>, <<paths>>, <<"-v">> >>,
        params |-> Spec1(paths, [split |-> TRUE, max_length |-> 2])]
Restart == [name |-> "restart", level |-> "confirm", dirs |-> {},
            cmd |-> << <<"kickstart">>, <<label>>, <<"gui/", label, ".", label>> >>,
            params |-> Spec1(label, [enum |-> {<<"a">>, <<"a", "b">>}])]
Log == [name |-> "log", level |-> "allow", dirs |-> {},
        cmd |-> << <<"log">>, <<count>>, <<"-">> >>,
        params |-> Spec1(count, [string |-> FALSE])]
NoAdd == [Add EXCEPT !.level = "deny"]
Misspelt == [Restart EXCEPT !.level = "ask"]

Old == <<Add, Restart>>
New == <<NoAdd, Log>>
Broken == <<Add, Misspelt>>
MCHistories == { <<Unreadable>>, <<Old>>, <<Broken, New>> }

Ask(action, params, cwd) == [action |-> action, params |-> params, cwd |-> cwd]

MCCallsOf ==
  r1 :> { Ask("add", paths :> <<"a">>, "nowhere"),
          Ask("add", paths :> <<>>, "a..b"),
          Ask("add", paths :> <<"a", "b", "c">>, "project"),
          Ask("restart", label :> <<"a", "b">>, "home"),
          Ask("log", count :> NotText, "home") } @@
  r2 :> { Ask("add", paths :> <<"a", "b">>, "project") }
=============================================================================
