----------------------------- MODULE Deployment -----------------------------
(***************************************************************************)
(* Eight parts of the Control Plane that are small enough for one run: the *)
(* identity of a node, its reports, accounts and sessions, rate limits,    *)
(* the scheduler, the cipher of each process, the gate of the Node API and *)
(* redeem codes.  They share no rows that both write, and what one reads   *)
(* of another (that an identity is still good, in Reports) may change at   *)
(* any moment in its own module: a behaviour lets one of them move and     *)
(* leaves the others where they begin.                                     *)
(***************************************************************************)
EXTENDS Enrollment, Reports, Accounts, RateLimit, Scheduler, FieldCipher, BodyShape, Codes

VARIABLE moving    \* the part that moves

nodeVars == <<enrollmentVars, reportsVars>>
aroundVars == <<accountsVars, limitVars, schedulerVars, cipherVars, bodyVars, codesVars>>
deploymentVars == <<moving, nodeVars, aroundVars>>

Parts == {"nodes", "accounting", "accounts", "limits", "scheduler", "cipher", "gate", "codes"}

TypeOK ==
    /\ moving \in Parts
    /\ EnrollmentTypeOK
    /\ ReportsTypeOK
    /\ AccountsTypeOK
    /\ LimitTypeOK
    /\ SchedulerTypeOK
    /\ CipherTypeOK
    /\ CodesTypeOK

Init ==
    /\ moving \in Parts
    /\ EnrollmentInit
    /\ ReportsInit
    /\ AccountsInit
    /\ LimitInit
    /\ SchedulerInit
    /\ CipherInit
    /\ moving # "cipher" => keyFile = [p \in Processes |-> CHOOSE key \in CipherKeys : TRUE]
    /\ BodyInit
    /\ CodesInit

NodesMove ==
    /\ moving = "nodes"
    /\ EnrollmentNext
    /\ UNCHANGED <<moving, reportsVars, aroundVars>>

ReportsMove ==
    /\ moving = "accounting"
    /\ ReportsNext
    /\ UNCHANGED <<moving, enrollmentVars, aroundVars>>

AccountsMove ==
    /\ moving = "accounts"
    /\ AccountsNext
    /\ UNCHANGED <<moving, nodeVars, limitVars, schedulerVars, cipherVars, bodyVars, codesVars>>

LimitsMove ==
    /\ moving = "limits"
    /\ LimitNext
    /\ UNCHANGED <<moving, nodeVars, accountsVars, schedulerVars, cipherVars, bodyVars, codesVars>>

SchedulerMoves ==
    /\ moving = "scheduler"
    /\ SchedulerNext
    /\ UNCHANGED <<moving, nodeVars, accountsVars, limitVars, cipherVars, bodyVars, codesVars>>

CipherMoves ==
    /\ moving = "cipher"
    /\ CipherNext
    /\ UNCHANGED <<moving, nodeVars, accountsVars, limitVars, schedulerVars, bodyVars, codesVars>>

GateMoves ==
    /\ moving = "gate"
    /\ BodyNext
    /\ UNCHANGED <<moving, nodeVars, accountsVars, limitVars, schedulerVars, cipherVars, codesVars>>

CodesMove ==
    /\ moving = "codes"
    /\ CodesNext
    /\ UNCHANGED <<moving, nodeVars, accountsVars, limitVars, schedulerVars, cipherVars, bodyVars>>

Next ==
    \/ NodesMove \/ ReportsMove
    \/ AccountsMove \/ LimitsMove \/ SchedulerMoves \/ CipherMoves \/ GateMoves \/ CodesMove

Fairness ==
    \A i \in Instances :
        WF_deploymentVars(
            /\ moving = "scheduler"
            /\ InstanceStep(i)
            /\ UNCHANGED <<moving, nodeVars, accountsVars, limitVars, cipherVars, bodyVars,
                           codesVars>>)

Spec == Init /\ [][Next]_deploymentVars /\ Fairness

\* A slot that lasts gets its job (SlotsGetPlaced), where the scheduler moves.
MovingSlotsGetPlaced == moving = "scheduler" => SlotsGetPlaced
=============================================================================
