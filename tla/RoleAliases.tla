------------------------------ MODULE RoleAliases ------------------------------
(***************************************************************************)
(* Pending role aliases and the moderators' commands on them.  Unlike the  *)
(* commands on companies and topics, approvePendingRole reads the row and  *)
(* its canonical row first and updates both by id: the reads are steps of  *)
(* their own, the updates and the log row become visible together when the *)
(* transaction commits.                                                    *)
(***************************************************************************)
EXTENDS Naturals, Sequences

CONSTANTS
  Moderators,
  Aliases,       \* roles proposed, all pending at first
  Canon,         \* Canon[a]: the role a folds into, or NoRole: a is a new role
  NoRole,
  Overlapping    \* whether commands on one canonical row may overlap

ASSUME NoRoleAssumption == NoRole \notin Aliases
ASSUME OverlappingAssumption == Overlapping \in BOOLEAN

VARIABLES
  roleStatus,  \* the status column
  folded,      \* folded[c]: the aliases column of canonical role c
  roleLog,     \* roleLog[a]: the actions logged about a, oldest first
  cmdStep,     \* cmdStep[m]: where moderator m's command is
  aliasOf,     \* aliasOf[m]: the alias it is about
  union       \* union[m]: the aliases column it will write

roleVars == <<roleStatus, folded, roleLog, cmdStep, aliasOf, union>>

Canonical == {Canon[a] : a \in Aliases} \ {NoRole}

RoleTypeOK ==
  /\ roleStatus \in [Aliases -> {"pending", "active", "merged", "rejected"}]
  /\ folded \in [Canonical -> SUBSET Aliases]
  /\ roleLog \in [Aliases -> Seq({"merge", "approve", "reject"})]
  /\ cmdStep \in [Moderators -> {"idle", "read", "canon"}]
  /\ aliasOf \in [Moderators -> Aliases \cup {NoRole}]
  /\ union \in [Moderators -> SUBSET Aliases]

RoleInit ==
  /\ roleStatus = [a \in Aliases |-> "pending"]
  /\ folded = [c \in Canonical |-> {}]
  /\ roleLog = [a \in Aliases |-> << >>]
  /\ cmdStep = [m \in Moderators |-> "idle"]
  /\ aliasOf = [m \in Moderators |-> NoRole]
  /\ union = [m \in Moderators |-> {}]

ListPendingRoles == {a \in Aliases : roleStatus[a] = "pending"}

LogRole(a, action) == roleLog' = [roleLog EXCEPT ![a] = Append(@, action)]

CanonFree(a) ==
  \A m \in Moderators :
    cmdStep[m] # "idle" => aliasOf[m] # a /\ (Canon[a] = NoRole \/ Canon[aliasOf[m]] # Canon[a])

\* A defect: the row is folded whatever its status.
BeginUnread(m, a) ==
  /\ cmdStep[m] = "idle"
  /\ Overlapping \/ CanonFree(a)
  /\ cmdStep' = [cmdStep EXCEPT ![m] = "read"]
  /\ aliasOf' = [aliasOf EXCEPT ![m] = a]
  /\ UNCHANGED <<roleStatus, folded, roleLog, union>>

\* The first statement: the row, which must be pending.  Any page that is out
\* of date may ask for a row that is not.
BeginApprove(m, a) ==
  /\ cmdStep[m] = "idle"
  /\ Overlapping \/ CanonFree(a)
  /\ a \in ListPendingRoles
  /\ cmdStep' = [cmdStep EXCEPT ![m] = "read"]
  /\ aliasOf' = [aliasOf EXCEPT ![m] = a]
  /\ UNCHANGED <<roleStatus, folded, roleLog, union>>

\* The canonical row, and the union that will be written.
ReadCanonical(m) ==
  /\ cmdStep[m] = "read"
  /\ Canon[aliasOf[m]] # NoRole
  /\ union' = [union EXCEPT ![m] = folded[Canon[aliasOf[m]]] \cup {aliasOf[m]}]
  /\ cmdStep' = [cmdStep EXCEPT ![m] = "canon"]
  /\ UNCHANGED <<roleStatus, folded, roleLog, aliasOf>>

CmdReturn(m) ==
  /\ cmdStep' = [cmdStep EXCEPT ![m] = "idle"]
  /\ aliasOf' = [aliasOf EXCEPT ![m] = NoRole]
  /\ union' = [union EXCEPT ![m] = {}]

\* A defect: the canonical row gets the new name alone.
FoldAlone(m) ==
  /\ cmdStep[m] = "canon"
  /\ folded' = [folded EXCEPT ![Canon[aliasOf[m]]] = {aliasOf[m]}]
  /\ roleStatus' = [roleStatus EXCEPT ![aliasOf[m]] = "merged"]
  /\ LogRole(aliasOf[m], "merge")
  /\ CmdReturn(m)

CommitFold(m) ==
  /\ cmdStep[m] = "canon"
  /\ folded' = [folded EXCEPT ![Canon[aliasOf[m]]] = union[m]]
  /\ roleStatus' = [roleStatus EXCEPT ![aliasOf[m]] = "merged"]
  /\ LogRole(aliasOf[m], "merge")
  /\ CmdReturn(m)

CommitNewRole(m) ==
  /\ cmdStep[m] = "read"
  /\ Canon[aliasOf[m]] = NoRole
  /\ roleStatus' = [roleStatus EXCEPT ![aliasOf[m]] = "active"]
  /\ LogRole(aliasOf[m], "approve")
  /\ CmdReturn(m)
  /\ UNCHANGED folded

RejectPendingRole(a) ==
  /\ Overlapping \/ CanonFree(a)
  /\ roleStatus[a] = "pending"
  /\ roleStatus' = [roleStatus EXCEPT ![a] = "rejected"]
  /\ LogRole(a, "reject")
  /\ UNCHANGED <<folded, cmdStep, aliasOf, union>>

RoleNext ==
  \/ \E m \in Moderators :
       \/ \E a \in Aliases : BeginApprove(m, a)
       \/ ReadCanonical(m) \/ CommitFold(m) \/ CommitNewRole(m)
  \/ \E a \in Aliases : RejectPendingRole(a)

RoleSpec == RoleInit /\ [][RoleNext]_roleVars

-----------------------------------------------------------------------------

\* taxonomy.ts:127: an approved alias is folded into its canonical row, and
\* later approvals keep the names that are there.
FoldedNamesStay ==
  \A a \in Aliases :
    roleStatus[a] = "merged" => a \in folded[Canon[a]] /\ roleLog[a] = <<"merge">>

=============================================================================
