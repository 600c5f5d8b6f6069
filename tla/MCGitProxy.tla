----------------------------- MODULE MCGitProxy -----------------------------
(***************************************************************************)
(* Instances of GitProxy for TLC: the command lines they explore.  What is *)
(* written to the relay is bounded more closely where a proxy is asked     *)
(* first.                                                                  *)
(***************************************************************************)
EXTENDS GitProxy

Direct == [ method |-> "direct", local |-> "stdio", timeout |-> 0, resolve |-> "remote",
            password |-> "env", rebinds |-> FALSE, bytes |-> 4 ]

Relays ==
  { Direct, [Direct EXCEPT !.local = "port", !.timeout = 1, !.bytes = 2] }
  \cup { [Direct EXCEPT !.local = "hold", !.rebinds = r, !.bytes = 2] : r \in BOOLEAN }

Proxies ==
  { [Direct EXCEPT !.method = m, !.timeout = t, !.resolve = r, !.password = p, !.bytes = 1] :
      m \in Methods \ {"direct"}, t \in {0, 2}, r \in {"local", "both"}, p \in {"env", "tty"} }

CommandLines == Relays \cup Proxies
=============================================================================
