----------------------------- MODULE NodeStatus -----------------------------
(***************************************************************************)
(* The statuses of a node, the matrix of their transitions, and the gate   *)
(* they put on the node's streams (app/domain/statuses.py).                *)
(***************************************************************************)

Manual == {"maintenance", "disabled", "suspended"}
Automatic == {"provisioning", "active", "degraded", "offline"}
Status == Manual \union Automatic \union {"pending"}

\* A manual status is left to the automatic ones.
Cleared == {"active", "offline"}

Transitions(s) ==
    CASE s = "pending" -> {"provisioning"}
      [] s = "provisioning" -> Cleared \union Manual
      [] s = "active" -> {"degraded", "offline"} \union Manual
      [] s = "degraded" -> Cleared \union Manual
      [] s = "offline" -> {"active"} \union Manual
      [] s \in Manual -> Cleared

\* Past the matrix, from any status: consequences of operations on identities.
OnRevocation == "disabled"
OnReenrollment == "pending"

Gates == {"refused", "none", "revocations", "all"}

\* What part of the users stream the status lets through.
Gate(s) == CASE s = "pending" -> "refused"
             [] s = "provisioning" -> "none"
             [] s \in {"disabled", "suspended"} -> "revocations"
             [] OTHER -> "all"
=============================================================================
