------------------------------- MODULE Accounts -------------------------------
(***************************************************************************)
(* One Clerk principal and the users rows it has had: the upsert on every  *)
(* visit, settings, a report, the two-sided account deletion, the daily    *)
(* scrub, and the moderators' approve and restore, which look at no        *)
(* account.                                                                *)
(*                                                                         *)
(* Clerk is external: currentUser answers as long as the Clerk user exists *)
(* and a request that has passed it goes on.  Every request after that is  *)
(* the upsert and one write.  An account has one report and one flag for   *)
(* the columns the scrub nulls; its drafts come and go with the report     *)
(* here and are Drafts'.                                                   *)
(***************************************************************************)
EXTENDS Naturals

CONSTANTS
  Visits,     \* requests that may be under way
  MaxUsers    \* bound: users rows of this principal

ASSUME MaxUsersAssumption == MaxUsers \in Nat

UserIds == 1 .. MaxUsers

VARIABLES
  principal,   \* the Clerk user exists
  account,     \* account[u]: a users row
  post,        \* post[u]: its report
  visit,       \* visit[v]: where request v is
  actor,       \* actor[v]: the row it resolved to
  touched,     \* rows written, or whose report came back, after their deletion
  strays       \* live rows beside the one whose deletion took the Clerk user away

accountVars == <<principal, account, post, visit, actor, touched, strays>>

NoAccount == [state |-> "absent", clerk |-> FALSE, pii |-> FALSE]

AccountsTypeOK ==
  /\ principal \in BOOLEAN
  /\ account \in [UserIds -> [state : {"absent", "live", "deleted", "expired", "purged"},
                              clerk : BOOLEAN, pii : BOOLEAN]]
  /\ post \in [UserIds -> {"none", "held", "public", "deleted"}]
  /\ visit \in [Visits -> {"idle", "signed", "resolved", "clerk"}]
  /\ actor \in [Visits -> 0 .. MaxUsers]
  /\ touched \in SUBSET UserIds /\ strays \in SUBSET UserIds

AccountsInit ==
  /\ principal = TRUE
  /\ account = [u \in UserIds |-> NoAccount]
  /\ post = [u \in UserIds |-> "none"]
  /\ visit = [v \in Visits |-> "idle"]
  /\ actor = [v \in Visits |-> 0]
  /\ touched = {} /\ strays = {}

DeletedAt(u) == account[u].state \in {"deleted", "expired", "purged"}
OwnRows == {u \in UserIds : account[u].clerk}

Ends(v) ==
  /\ visit' = [visit EXCEPT ![v] = "idle"]
  /\ actor' = [actor EXCEPT ![v] = 0]

Touch(u) == touched' = IF DeletedAt(u) THEN touched \cup {u} ELSE touched

-----------------------------------------------------------------------------
(* Requests.                                                               *)

CurrentUser(v) ==
  /\ visit[v] = "idle" /\ principal
  /\ visit' = [visit EXCEPT ![v] = "signed"]
  /\ UNCHANGED <<principal, account, post, actor, touched, strays>>

\* An upsert on clerk_id: a deleted row answers as well, its email refreshed.
GetOrCreateUserByClerkId(v) ==
  /\ visit[v] = "signed"
  /\ \E u \in UserIds :
       /\ IF OwnRows # {} THEN u \in OwnRows
          ELSE /\ account[u].state = "absent"
               /\ \A w \in UserIds : w < u => account[w].state # "absent"
       /\ actor' = [actor EXCEPT ![v] = u]
       /\ account' = [account EXCEPT ![u] =
                        [state |-> IF @.state = "absent" THEN "live" ELSE @.state,
                         clerk |-> TRUE, pii |-> TRUE]]
       /\ strays' = IF principal \/ account[u].state # "absent" THEN strays ELSE strays \cup {u}
  /\ visit' = [visit EXCEPT ![v] = "resolved"]
  /\ UNCHANGED <<principal, post, touched>>

\* createReport for the resolved row, whatever became of it.
FileAs(v) ==
  /\ visit[v] = "resolved"
  /\ post[actor[v]] = "none"
  /\ \E status \in {"held", "public"} : post' = [post EXCEPT ![actor[v]] = status]
  /\ Touch(actor[v])
  /\ Ends(v)
  /\ UNCHANGED <<principal, account, strays>>

\* A display name, or none; updateUserSettings asks only for the id.
UpdateUserSettings(v) ==
  /\ visit[v] = "resolved"
  /\ \E name \in BOOLEAN : account' = [account EXCEPT ![actor[v]].pii = @ \/ name]
  /\ Touch(actor[v])
  /\ Ends(v)
  /\ UNCHANGED <<principal, post, strays>>

\* A defect: a report still on hold is not taken down.
DeletePublicOnly(v) ==
  /\ visit[v] = "resolved"
  /\ LET u == actor[v] IN
       IF DeletedAt(u) THEN UNCHANGED <<account, post>>
       ELSE /\ account' = [account EXCEPT ![u].state = "deleted"]
            /\ post' = [post EXCEPT ![u] = IF @ = "public" THEN "deleted" ELSE @]
  /\ visit' = [visit EXCEPT ![v] = "clerk"]
  /\ UNCHANGED <<principal, actor, touched, strays>>

\* The local half of deleteAccountAction, one transaction, then Clerk.
DeleteUserAccount(v) ==
  /\ visit[v] = "resolved"
  /\ LET u == actor[v] IN
       IF DeletedAt(u) THEN UNCHANGED <<account, post>>
       ELSE /\ account' = [account EXCEPT ![u].state = "deleted"]
            /\ post' = [post EXCEPT ![u] = IF @ = "none" THEN @ ELSE "deleted"]
  /\ visit' = [visit EXCEPT ![v] = "clerk"]
  /\ UNCHANGED <<principal, actor, touched, strays>>

DeleteClerkUser(v) ==
  /\ visit[v] = "clerk"
  /\ principal' = FALSE
  /\ strays' = strays \cup {u \in UserIds : account[u].state = "live" /\ u # actor[v]}
  /\ Ends(v)
  /\ UNCHANGED <<account, post, touched>>

\* Refused, thrown (a failed Clerk deletion is swallowed), or the process is gone.
Abandon(v) ==
  /\ visit[v] # "idle"
  /\ Ends(v)
  /\ UNCHANGED <<principal, account, post, touched, strays>>

-----------------------------------------------------------------------------
(* The scrub and the moderators.                                           *)

\* The retention time goes by: no request lasts that long.
RetentionEnds(u) ==
  /\ account[u].state = "deleted"
  /\ \A v \in Visits : visit[v] = "idle"
  /\ account' = [account EXCEPT ![u].state = "expired"]
  /\ UNCHANGED <<principal, post, visit, actor, touched, strays>>

PurgeDeletedUserPii ==
  /\ \E u \in UserIds : account[u].state = "expired"
  /\ account' = [u \in UserIds |->
                   IF account[u].state = "expired"
                   THEN [state |-> "purged", clerk |-> FALSE, pii |-> FALSE] ELSE account[u]]
  /\ UNCHANGED <<principal, post, visit, actor, touched, strays>>

\* approveHeldReport and restoreSoftDeleted.
Moderate(u) ==
  /\ \/ /\ post[u] = "held" /\ UNCHANGED touched
     \/ /\ post[u] = "deleted" /\ Touch(u)
  /\ post' = [post EXCEPT ![u] = "public"]
  /\ UNCHANGED <<principal, account, visit, actor, strays>>

AccountsNext ==
  \/ \E v \in Visits :
       \/ CurrentUser(v) \/ GetOrCreateUserByClerkId(v)
       \/ FileAs(v) \/ UpdateUserSettings(v)
       \/ DeleteUserAccount(v) \/ DeleteClerkUser(v) \/ Abandon(v)
  \/ \E u \in UserIds : RetentionEnds(u) \/ Moderate(u)
  \/ PurgeDeletedUserPii

AccountsSpec == AccountsInit /\ [][AccountsNext]_accountVars

-----------------------------------------------------------------------------

\* settings/actions.ts:54-59 and settings/delete: the deletion removes every
\* report from public view, a purged row identifies no one, and Clerk goes last so
\* that no account is left without its principal.  A deleted row that no request
\* has written since, and whose report no moderator has restored, shows nothing; a
\* live row has its principal, but for a second row, one that another request got
\* because the scrub came before the Clerk deletion.
AccountClosesWhole ==
  \A u \in UserIds :
    /\ DeletedAt(u) /\ u \notin touched => post[u] # "public"
    /\ account[u].state = "purged" /\ u \notin touched => ~account[u].pii /\ ~account[u].clerk
    /\ account[u].state = "live" /\ ~principal => u \in strays

=============================================================================
