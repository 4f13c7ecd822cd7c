------------------------------ MODULE Service -------------------------------
(***************************************************************************)
(* What either mode promises: at any time the device serves at most one    *)
(* network in that mode; a session serves one network as long as it lasts; *)
(* and it ends before the next one begins, on a restart too.               *)
(***************************************************************************)
CONSTANTS
  Ids,        (* what a session is known by                                *)
  Networks    (* what it can be configured for                             *)

VARIABLE sessions

Init == sessions = {}

Connect ==
  /\ sessions = {}
  /\ \E i \in Ids, n \in Networks : sessions' = {[id |-> i, network |-> n]}

Disconnect == sessions # {} /\ sessions' = {}

Spec == Init /\ [][Connect \/ Disconnect]_sessions

=============================================================================
