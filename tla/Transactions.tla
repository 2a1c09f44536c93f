---------------------------- MODULE Transactions ----------------------------
(***************************************************************************)
(* Two services of the domain whose transactions race on the rows of one   *)
(* user and of one node: the subscription, and the history of what traffic *)
(* costs.  Transactions of one service wait for each other, those of the   *)
(* two share neither rows nor locks: a behaviour lets one service move and *)
(* leaves the other where it begins.                                       *)
(***************************************************************************)
EXTENDS Subscription, BillingHistory

VARIABLE serving    \* the service that moves

transactionsVars == <<serving, subscriptionVars, billingVars>>

Services == {"subscriptions", "groups"}

\* The groups are alike: the node begins in any one of them.
Init ==
    /\ serving \in Services
    /\ SubscriptionInit
    /\ BillingInit
    /\ node.group = CHOOSE g \in Groups : TRUE
    /\ serving # "groups" => now = 0

SubscriptionMoves ==
    /\ serving = "subscriptions"
    /\ SubscriptionNext
    /\ UNCHANGED <<serving, billingVars>>

HistoryMoves ==
    /\ serving = "groups"
    /\ BillingNext
    /\ UNCHANGED <<serving, subscriptionVars>>

Next == SubscriptionMoves \/ HistoryMoves

Spec == Init /\ [][Next]_transactionsVars
=============================================================================
