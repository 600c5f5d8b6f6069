------------------------------ MODULE MCFiles -------------------------------
(***************************************************************************)
(* Processes that share files: the plugin cache, and the lock files of     *)
(* bitbake, which TLC goes through one after the other.                    *)
(***************************************************************************)
EXTENDS GstRegistry, LockFile, TLC

CONSTANTS a, b, p, q, x, y, z

VARIABLE of              (* which of the two this behaviour is about        *)

MCProcess == {a, b}
MCPlugin  == {p, q}
MCClient  == {x, y, z}
Sym == Permutations(MCProcess) \cup Permutations(MCPlugin) \cup Permutations(MCClient)

(* One plugin is in a file, the other anything.                             *)
MCKinds == { k \in PluginKinds : \E w \in MCPlugin : k[w] = "file" }

MCInit ==
  /\ Init /\ LockInit
  /\ of = "registry" \/ (of = "lock" /\ \A w \in MCPlugin : kind[w] = "file")

MCNext ==
  /\ UNCHANGED of
  /\ \/ of = "registry" /\ Next /\ UNCHANGED lockvars
     \/ of = "lock" /\ LockNext /\ UNCHANGED vars

MCSpec == MCInit /\ [][MCNext]_<<vars, lockvars, of>>
=============================================================================
