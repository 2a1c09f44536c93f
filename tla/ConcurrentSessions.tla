------------------------- MODULE ConcurrentSessions -------------------------
(* The transactions of the Control Plane that may be open at once on one row. *)

CONSTANTS
    Sessions,   \* concurrent transactions
    Free        \* holds a row that nobody has locked

ASSUME SessionsAssumption == Free \notin Sessions
=============================================================================
