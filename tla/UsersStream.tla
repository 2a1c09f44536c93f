---------------------------- MODULE UsersStream ----------------------------
(***************************************************************************)
(* What the writers of the rows of nodes promise to their readers, without *)
(* jobs, batches, locks and crashes: the rows of a node are a log.  One is *)
(* written at a time, under the next number of its node, and a removal     *)
(* takes away a row that is there.                                         *)
(*                                                                         *)
(* Publication implements it, and it is all that StateStream assumes of    *)
(* those who write while an agent reads.                                   *)
(***************************************************************************)
EXTENDS Naturals

CONSTANTS Nodes, Users

VARIABLES
    row,        \* node_user_state
    desired     \* nodes.desired_users_seq

streamVars == <<row, desired>>

Away == {"absent", "removed"}
Written == {"active", "suspended", "removed"}

\* Rows that have been written, in any order.
StreamInit ==
    /\ row \in [Nodes -> [Users -> [state : Away \union Written, seq : Nat]]]
    /\ desired \in [Nodes -> Nat]
    /\ \A n \in Nodes, u \in Users : row[n][u].seq <= desired[n]

\* What may be written over a row.
Over(state) == IF state \in Away THEN Written \ Away ELSE Written

Write(n, u, state) ==
    /\ state \in Over(row[n][u].state)
    /\ row' = [row EXCEPT ![n][u] = [state |-> state, seq |-> desired[n] + 1]]
    /\ desired' = [desired EXCEPT ![n] = @ + 1]

StreamNext == \E n \in Nodes, u \in Users, state \in Written : Write(n, u, state)

StreamSpec == StreamInit /\ [][StreamNext]_streamVars
=============================================================================
