------------------------------ MODULE RemoteCall ------------------------------
(***************************************************************************)
(* What a caller of the SDK is promised about one API call, whatever the    *)
(* network does: the server acts on a call that is not repeatable at most   *)
(* once, the call settles once, and a call reported as successful was acted *)
(* on.  The server may act on a call long after it settled, because a       *)
(* request given up by the client can still be on its way.                  *)
(***************************************************************************)
CONSTANTS Calls,     \* the API calls made
          Attempts,  \* names for the transmissions of one call
          Results    \* how a call can settle, "ok" among them

VARIABLES repeatable,  \* repeatable[c]: the call may take effect repeatedly
          effects,     \* effects[c]: the transmissions the server acted on
          result       \* result[c]: "none" until the call settles

vars == <<repeatable, effects, result>>

Init ==
  /\ repeatable \in [Calls -> BOOLEAN]
  /\ effects = [c \in Calls |-> {}]
  /\ result = [c \in Calls |-> "none"]

(* The server acts on transmission k of call c. *)
Effect(c, k) ==
  /\ k \notin effects[c]
  /\ repeatable[c] \/ effects[c] = {}
  /\ effects' = [effects EXCEPT ![c] = @ \cup {k}]
  /\ UNCHANGED <<repeatable, result>>

(* Call c settles with result r. *)
Settle(c, r) ==
  /\ result[c] = "none"
  /\ r = "ok" => effects[c] # {}
  /\ result' = [result EXCEPT ![c] = r]
  /\ UNCHANGED <<repeatable, effects>>

Next == \E c \in Calls : \/ \E k \in Attempts : Effect(c, k)
                         \/ \E r \in Results : Settle(c, r)

Spec == Init /\ [][Next]_vars
=============================================================================
