---------------------------- MODULE Membership ----------------------------
(***************************************************************************)
(* Who belongs to one timeline, and what becomes of it.  Its owner and its *)
(* admins invite people, change roles and remove members; the owner trans- *)
(* fers, trashes, restores and deletes it, an administrator of the plat-   *)
(* form suspends, restores and transfers it, the nightly worker purges it, *)
(* and accounts are deleted.  Every handler reads the documents it decides *)
(* on, decides, and then saves or deletes one document after the other:    *)
(* the owner is named twice, by a membership's role and by ownerId.        *)
(*                                                                         *)
(* Code: routes/timelines.js (membership, invitations, trash),             *)
(* routes/invitations.js, lib/timelinePurge.js, purgeExpiredTimelines of   *)
(* scripts/worker.js, the timelines of routes/admin.js, POST               *)
(* /delete-account of routes/auth.js, with lib/rbac/permissions.js.        *)
(***************************************************************************)
EXTENDS Naturals

CONSTANTS
    User,
    Founder,       \* who has created the timeline
    Request,       \* bound: requests and tasks that are in progress at once
    Invitation,    \* bound: the invitations that can be sent
    Invitee,       \* Invitee[i]: the user with the address i is sent to
    Offered,       \* bound: the roles that are given to anybody
    Leavers,       \* bound: the users who may delete their account
    MaxFailures    \* bound: errors and restarts between two calls of a handler

Roles == <<"viewer", "editor", "admin", "owner">>

ASSUME ConstantsAssumption ==
    /\ Founder \in User
    /\ Invitee \in [Invitation -> User]
    /\ Offered \subseteq {"viewer", "editor", "admin"}
    /\ Leavers \subseteq User
    /\ MaxFailures \in Nat
    /\ "nobody" \notin User \cup Invitation

Nobody == "nobody"

VARIABLES
    role,        \* role[u]: the role in u's membership, or "none" without one
    timeline,    \* the timeline's document
    invitation,  \* invitation[i]: its status and the role it offers
    account,     \* the users who have an account
    pc,          \* where each request stands
    task,        \* what each request has decided to write, from what it has read
    loaded,      \* loaded[r][u]: the role in the membership of u that r has loaded,
                 \* "none" if it has loaded none or that document has been deleted since
    admissions,  \* history: how often each invitation made somebody a member
    failures,    \* bound
    broken,      \* history: a transfer or an acceptance was cut in half
    blind        \* history: a write hit a document that was not what its handler knew

ghosts == <<admissions, broken, failures>>
vars == <<role, timeline, invitation, account, pc, task, loaded, ghosts, blind>>

NoTask == [target |-> Nobody, actor |-> Nobody, role |-> "none", invitation |-> Nobody,
           owner |-> Nobody]

Transfers == {"demote", "setOwner", "demotePrevious", "saveOwner"}
Purges == {"purgeMembers", "purgeInvitations", "purgeTimeline"}
Stages == Transfers \cup Purges \cup
    {"idle", "findForChange", "saveRole", "findForRemoval", "deleteMember",
     "findForTransfer", "promote", "revokeEarlier", "createInvitation", "saveRevoked",
     "upsert", "saveAccepted", "saveTrashed", "saveRestored",
     "upsertOwner", "deleteMemberships", "deleteUser"}

\* The roles a request body may name: z.enum(["admin", "editor", "viewer"]).
\* Mutant: "owner" gets through.
AssignableOrOwner == Offered \cup {"owner"}
Assignable == Offered

Given == {"none", "viewer", "editor", "admin"}

\* Type invariant: nobody is ever about to be given the owner's role by a change
\* of role or an invitation.
TypeOK ==
    /\ role \in [User -> Given \cup {"owner"}]
    /\ timeline \in [status : {"active", "trashed", "purged"}, ownerId : User]
    /\ invitation \in [Invitation ->
                          [status : {"unsent", "pending", "accepted", "revoked", "gone"},
                           role : Given]]
    /\ account \subseteq User
    /\ pc \in [Request -> Stages]
    /\ task \in [Request -> [target : User \cup {Nobody}, actor : User \cup {Nobody},
                             role : Given, invitation : Invitation \cup {Nobody},
                             owner : User \cup {Nobody}]]
    /\ loaded \in [Request -> [User -> Given \cup {"owner"}]]
    /\ admissions \in [Invitation -> 0..2]
    /\ failures \in 0..MaxFailures
    /\ broken \in BOOLEAN
    /\ blind \in BOOLEAN

\* POST / has created the timeline and the founder's membership.
Init ==
    /\ role = [u \in User |-> IF u = Founder THEN "owner" ELSE "none"]
    /\ timeline = [status |-> "active", ownerId |-> Founder]
    /\ invitation = [i \in Invitation |-> [status |-> "unsent", role |-> "none"]]
    /\ account = User
    /\ pc = [r \in Request |-> "idle"]
    /\ task = [r \in Request |-> NoTask]
    /\ loaded = [r \in Request |-> [u \in User |-> "none"]]
    /\ admissions = [i \in Invitation |-> 0]
    /\ failures = 0
    /\ broken = FALSE
    /\ blind = FALSE

-----------------------------------------------------------------------------
(* Permissions: lib/rbac/permissions.js and lib/auth/guards.js             *)

Rank(x) == IF x = "none" THEN 0 ELSE CHOOSE n \in DOMAIN Roles : Roles[n] = x
RoleAtLeast(x, minimum) == Rank(x) >= Rank(minimum)

CanAssignRole(actorRole, targetRole) ==
    \/ actorRole = "owner"
    \/ actorRole = "admin" /\ targetRole # "owner"

\* getTimelineAndMembership and checkPermission: u acts with the role it has now.
Permitted(u, minimum) ==
    /\ u \in account
    /\ timeline.status = "active"
    /\ role[u] # "none"
    /\ RoleAtLeast(role[u], minimum)

-----------------------------------------------------------------------------
(* How a request goes on                                                   *)

Begin(r, stage, what) ==
    /\ pc[r] = "idle"
    /\ pc' = [pc EXCEPT ![r] = stage]
    /\ task' = [task EXCEPT ![r] = what]

Continue(r, stage) ==
    /\ pc' = [pc EXCEPT ![r] = stage]
    /\ UNCHANGED task

Answer(r) ==
    /\ pc' = [pc EXCEPT ![r] = "idle"]
    /\ task' = [task EXCEPT ![r] = NoTask]

\* Membership documents are loaded, kept while the request goes on, deleted under those
\* who hold them, and saved if they are still there and the role is another.
Load(r, u) == loaded' = [loaded EXCEPT ![r][u] = role[u]]
Release(r) == loaded' = [loaded EXCEPT ![r] = [u \in User |-> "none"]]
Save(r, u, x) ==
    role' = IF loaded[r][u] \in {"none", x} THEN role ELSE [role EXCEPT ![u] = x]
Delete(r, us) ==
    /\ role' = [u \in User |-> IF u \in us THEN "none" ELSE role[u]]
    /\ loaded' = [q \in Request |->
                     [u \in User |-> IF q = r \/ u \in us THEN "none" ELSE loaded[q][u]]]

\* history: a write is blind unless its handler knows what matters about it.
Unless(known) == blind' = (blind \/ ~known)

\* Who has loaded the membership of an owner has seen that it is one.
KnowsRole(r, u) == role[u] = "owner" => loaded[r][u] \in {"none", "owner"}

Others(r, stages) == \E q \in Request \ {r} : pc[q] \in stages

-----------------------------------------------------------------------------
(* PATCH and DELETE /:slug/members/:userId                                 *)

StartChange(r) ==
    \E u \in User, v \in User, x \in Assignable :
        /\ Permitted(u, "admin")
        /\ CanAssignRole(role[u], x)
        /\ Begin(r, "findForChange", [NoTask EXCEPT !.target = v, !.role = x])
        /\ UNCHANGED <<role, timeline, invitation, account, loaded, ghosts, blind>>

StartRemoval(r) ==
    \E u \in User, v \in User :
        /\ Permitted(u, IF u = v THEN "viewer" ELSE "admin")
        /\ Begin(r, "findForRemoval", [NoTask EXCEPT !.target = v])
        /\ UNCHANGED <<role, timeline, invitation, account, loaded, ghosts, blind>>

\* Mutant: the role of the target is not looked at.
FindTargetOfAnyRole(r) ==
    /\ pc[r] \in {"findForChange", "findForRemoval"}
    /\ \/ /\ role[task[r].target] # "none"
          /\ Load(r, task[r].target)
          /\ Continue(r, IF pc[r] = "findForChange" THEN "saveRole" ELSE "deleteMember")
       \/ /\ role[task[r].target] = "none"
          /\ Answer(r)
          /\ UNCHANGED loaded
    /\ UNCHANGED <<role, timeline, invitation, account, ghosts, blind>>

FindTarget(r) ==
    /\ pc[r] \in {"findForChange", "findForRemoval"}
    /\ \/ /\ role[task[r].target] \notin {"none", "owner"}
          /\ Load(r, task[r].target)
          /\ Continue(r, IF pc[r] = "findForChange" THEN "saveRole" ELSE "deleteMember")
       \/ /\ role[task[r].target] \in {"none", "owner"}
          /\ Answer(r)
          /\ UNCHANGED loaded
    /\ UNCHANGED <<role, timeline, invitation, account, ghosts, blind>>

\* target.save() and deleteOne() ask nothing else.
SaveRole(r) ==
    /\ pc[r] = "saveRole"
    /\ Save(r, task[r].target, task[r].role)
    /\ Unless(KnowsRole(r, task[r].target))
    /\ Answer(r)
    /\ Release(r)
    /\ UNCHANGED <<timeline, invitation, account, ghosts>>

DeleteMember(r) ==
    /\ pc[r] = "deleteMember"
    /\ Delete(r, {u \in User : u = task[r].target /\ loaded[r][u] # "none"})
    /\ Unless(KnowsRole(r, task[r].target))
    /\ Answer(r)
    /\ UNCHANGED <<timeline, invitation, account, ghosts>>

-----------------------------------------------------------------------------
(* POST /:slug/transfer-ownership                                          *)

StartTransfer(r) ==
    \E u \in User, v \in User :
        /\ u # v
        /\ Permitted(u, "owner")
        /\ Begin(r, "findForTransfer",
                 [NoTask EXCEPT !.actor = u, !.target = v, !.owner = timeline.ownerId])
        /\ Load(r, u)
        /\ UNCHANGED <<role, timeline, invitation, account, ghosts, blind>>

FindNewOwner(r) ==
    /\ pc[r] = "findForTransfer"
    /\ \/ /\ role[task[r].target] # "none"
          /\ Load(r, task[r].target)
          /\ Continue(r, "promote")
       \/ /\ role[task[r].target] = "none"
          /\ Answer(r)
          /\ Release(r)
    /\ UNCHANGED <<role, timeline, invitation, account, ghosts, blind>>

\* Nobody else is transferring, and the timeline is whose it was.
StillMine(r) ==
    /\ timeline.ownerId = task[r].owner
    /\ timeline.status # "purged"
    /\ task[r].target \in account
    /\ ~Others(r, Transfers \cup Purges)

\* Mutant: the old owner is demoted before the new one is promoted.
DemoteFirst(r) ==
    /\ pc[r] = "promote"
    /\ Save(r, task[r].actor, "admin")
    /\ Unless(role[task[r].actor] = "owner" /\ StillMine(r))
    /\ Continue(r, "demote")
    /\ UNCHANGED <<timeline, invitation, account, loaded, ghosts>>

\* The new owner is promoted first; a document that is gone ends the transfer.
Promote(r) ==
    /\ pc[r] = "promote"
    /\ Save(r, task[r].target, "owner")
    /\ \/ /\ loaded[r][task[r].target] # "none"
          /\ Unless(role[task[r].actor] = "owner" /\ StillMine(r))
          /\ Continue(r, "demote")
          /\ UNCHANGED loaded
       \/ /\ loaded[r][task[r].target] = "none"
          /\ Answer(r)
          /\ Release(r)
          /\ UNCHANGED blind
    /\ UNCHANGED <<timeline, invitation, account, ghosts>>

Demote(r) ==
    /\ pc[r] = "demote"
    /\ Save(r, task[r].actor, "admin")
    /\ \/ /\ loaded[r][task[r].actor] # "none"
          /\ Unless(role[task[r].target] = "owner")
          /\ Continue(r, "setOwner")
          /\ UNCHANGED <<loaded, broken>>
       \/ /\ loaded[r][task[r].actor] = "none"
          /\ broken' = TRUE
          /\ Answer(r)
          /\ Release(r)
          /\ UNCHANGED blind
    /\ UNCHANGED <<timeline, invitation, account, admissions, failures>>

\* Mutant: ownerId is forgotten.
ForgetOwnerId(r) ==
    /\ pc[r] = "setOwner"
    /\ Unless(role[task[r].target] = "owner")
    /\ Answer(r)
    /\ Release(r)
    /\ UNCHANGED <<role, timeline, invitation, account, ghosts>>

\* save() writes ownerId only when it is not what was loaded.
SetOwner(r) ==
    LET v == task[r].target IN
    /\ pc[r] \in {"setOwner", "saveOwner"}
    /\ timeline' = IF v = task[r].owner \/ timeline.status = "purged" THEN timeline
                   ELSE [timeline EXCEPT !.ownerId = v]
    /\ Unless(role[v] = "owner")
    /\ Answer(r)
    /\ Release(r)
    /\ UNCHANGED <<role, invitation, account, ghosts>>

-----------------------------------------------------------------------------
(* The administrator's transfer, POST /timelines/:id/transfer-ownership    *)

StartAdminTransfer(r) ==
    \E v \in account \ {timeline.ownerId} :
        /\ timeline.status # "purged"
        /\ Begin(r, "upsertOwner", [NoTask EXCEPT !.target = v, !.owner = timeline.ownerId])
        /\ UNCHANGED <<role, timeline, invitation, account, loaded, ghosts, blind>>

UpsertOwner(r) ==
    /\ pc[r] = "upsertOwner"
    /\ role' = [role EXCEPT ![task[r].target] = "owner"]
    /\ Unless(StillMine(r))
    /\ Continue(r, "demotePrevious")
    /\ UNCHANGED <<timeline, invitation, account, loaded, ghosts>>

DemotePrevious(r) ==
    LET u == task[r].owner IN
    /\ pc[r] = "demotePrevious"
    /\ role' = IF role[u] = "none" THEN role ELSE [role EXCEPT ![u] = "admin"]
    /\ Unless(role[task[r].target] = "owner")
    /\ Continue(r, "saveOwner")
    /\ UNCHANGED <<timeline, invitation, account, loaded, ghosts>>

-----------------------------------------------------------------------------
(* POST and DELETE /:slug/invitations, POST /invitations/:token/accept     *)

Pending(i) == invitation[i].status = "pending"

StartInvite(r) ==
    \E u \in User, i \in Invitation, x \in Assignable :
        /\ Permitted(u, "admin")
        /\ invitation[i].status = "unsent" /\ \A q \in Request : task[q].invitation # i
        /\ role[Invitee[i]] = "none"
        /\ Begin(r, "revokeEarlier", [NoTask EXCEPT !.invitation = i, !.role = x])
        /\ UNCHANGED <<role, timeline, invitation, account, loaded, ghosts, blind>>

RevokeEarlier(r) ==
    /\ pc[r] = "revokeEarlier"
    /\ invitation' =
          [i \in Invitation |->
              IF Invitee[i] = Invitee[task[r].invitation] /\ Pending(i)
              THEN [invitation[i] EXCEPT !.status = "revoked"] ELSE invitation[i]]
    /\ Continue(r, "createInvitation")
    /\ UNCHANGED <<role, timeline, account, loaded, ghosts, blind>>

CreateInvitation(r) ==
    /\ pc[r] = "createInvitation"
    /\ invitation' = [invitation EXCEPT ![task[r].invitation] =
                         [status |-> "pending", role |-> task[r].role]]
    /\ Unless(timeline.status # "purged" /\ ~Others(r, Purges))
    /\ Answer(r)
    /\ UNCHANGED <<role, timeline, account, loaded, ghosts>>

\* The status of the invitation is not looked at.
StartRevoke(r) ==
    \E u \in User, i \in Invitation :
        /\ Permitted(u, "admin")
        /\ invitation[i].status \in {"pending", "accepted"}
        /\ Begin(r, "saveRevoked", [NoTask EXCEPT !.invitation = i])
        /\ UNCHANGED <<role, timeline, invitation, account, loaded, ghosts, blind>>

StartAccept(r) ==
    \E i \in Invitation :
        /\ Invitee[i] \in account
        /\ Pending(i)
        /\ timeline.status = "active"
        /\ Begin(r, "upsert", [NoTask EXCEPT !.invitation = i, !.target = Invitee[i],
                                             !.role = invitation[i].role])
        /\ UNCHANGED <<role, timeline, invitation, account, loaded, ghosts, blind>>

\* The membership gets the role of the invitation, whatever it was before.
Upsert(r) ==
    LET u == task[r].target
        i == task[r].invitation
        admits == role[u] = "none" IN
    /\ pc[r] = "upsert"
    /\ role' = [role EXCEPT ![u] = task[r].role]
    /\ admissions' = [admissions EXCEPT ![i] = IF admits /\ @ < 2 THEN @ + 1 ELSE @]
    /\ Unless(/\ role[u] # "owner"
              /\ Pending(i)
              /\ u \in account
              /\ timeline.status # "purged"
              /\ ~Others(r, Purges)
              /\ \A q \in Request : pc[q] = "saveAccepted" => task[q].invitation # i)
    /\ Continue(r, "saveAccepted")
    /\ UNCHANGED <<timeline, invitation, account, loaded, broken, failures>>

\* Mutant: the invitation stays pending.
LeavePending(r) ==
    /\ pc[r] \in {"saveAccepted", "saveRevoked"}
    /\ Answer(r)
    /\ UNCHANGED <<role, timeline, invitation, account, loaded, ghosts, blind>>

\* save() of an invitation that is gone throws.
SaveInvitation(r) ==
    LET i == task[r].invitation
        saved == IF pc[r] = "saveAccepted" THEN "accepted" ELSE "revoked" IN
    /\ pc[r] \in {"saveAccepted", "saveRevoked"}
    /\ invitation' = IF invitation[i].status = "gone" THEN invitation
                     ELSE [invitation EXCEPT ![i].status = saved]
    /\ Answer(r)
    /\ UNCHANGED <<role, timeline, account, loaded, ghosts, blind>>

\* The index on expiresAt deletes an invitation some day after it has expired.
Expire(i) ==
    /\ invitation[i].status \in {"pending", "accepted", "revoked"}
    /\ invitation' = [invitation EXCEPT ![i] = [status |-> "gone", role |-> "none"]]
    /\ UNCHANGED <<role, timeline, account, pc, task, loaded, ghosts, blind>>

-----------------------------------------------------------------------------
(* Trash: DELETE /:slug, POST /:id/restore, DELETE /:id/permanent, suspend *)
(* and restore by an administrator, and the nightly purge                  *)

Decide(r, stage) ==
    /\ Begin(r, stage, NoTask)
    /\ UNCHANGED <<role, timeline, invitation, account, loaded, ghosts, blind>>

StartTrash(r) ==
    /\ \E u \in User : Permitted(u, "owner")
    /\ Decide(r, "saveTrashed")

\* An administrator of the platform does not have to be a member.
StartSuspend(r) ==
    /\ timeline.status = "active"
    /\ Decide(r, "saveTrashed")

SaveTrashed(r) ==
    /\ pc[r] = "saveTrashed"
    /\ timeline' = IF timeline.status = "purged" THEN timeline
                   ELSE [timeline EXCEPT !.status = "trashed"]
    /\ Answer(r)
    /\ UNCHANGED <<role, invitation, account, loaded, ghosts, blind>>

\* In the trash the owner is whom ownerId names.
StartRestore(r) ==
    /\ timeline.status = "trashed"
    /\ timeline.ownerId \in account
    /\ Decide(r, "saveRestored")

StartAdminRestore(r) ==
    /\ timeline.status = "trashed"
    /\ Decide(r, "saveRestored")

\* One of the timelines on the administrator's list.
StartBulk(r) ==
    \/ timeline.status = "active" /\ Decide(r, "saveTrashed")
    \/ timeline.status = "trashed" /\ Decide(r, "saveRestored")

SaveRestored(r) ==
    /\ pc[r] = "saveRestored"
    /\ timeline' = IF timeline.status = "purged" THEN timeline
                   ELSE [timeline EXCEPT !.status = "active"]
    /\ Unless(~Others(r, Purges))
    /\ Answer(r)
    /\ UNCHANGED <<role, invitation, account, loaded, ghosts>>

StartPurge(r) ==
    /\ timeline.status = "trashed"
    /\ timeline.ownerId \in account
    /\ Decide(r, "purgeMembers")

\* The worker has it on the list of what has been in the trash for long enough.
StartNightlyPurge(r) ==
    /\ timeline.status = "trashed"
    /\ Decide(r, "purgeMembers")

PurgeMembers(r) ==
    /\ pc[r] = "purgeMembers"
    /\ Delete(r, User)
    /\ Unless(timeline.status # "active")
    /\ Continue(r, "purgeInvitations")
    /\ UNCHANGED <<timeline, invitation, account, ghosts>>

\* Mutant: the invitations are left behind.
PurgeNoInvitations(r) ==
    /\ pc[r] = "purgeInvitations"
    /\ Continue(r, "purgeTimeline")
    /\ UNCHANGED <<role, timeline, invitation, account, loaded, ghosts, blind>>

PurgeInvitations(r) ==
    /\ pc[r] = "purgeInvitations"
    /\ invitation' = [i \in Invitation |->
                         IF invitation[i].status = "unsent" THEN invitation[i]
                         ELSE [status |-> "gone", role |-> "none"]]
    /\ Continue(r, "purgeTimeline")
    /\ UNCHANGED <<role, timeline, account, loaded, ghosts, blind>>

PurgeTimeline(r) ==
    /\ pc[r] = "purgeTimeline"
    /\ timeline' = [timeline EXCEPT !.status = "purged"]
    /\ Answer(r)
    /\ UNCHANGED <<role, invitation, account, loaded, ghosts, blind>>

-----------------------------------------------------------------------------
(* POST /delete-account: only timelines outside the trash are in the way,  *)
(* and only by ownerId                                                     *)

StartDeleteAccount(r) ==
    \E u \in account \cap Leavers :
        /\ ~(timeline.status = "active" /\ timeline.ownerId = u)
        /\ Begin(r, "deleteMemberships", [NoTask EXCEPT !.target = u])
        /\ UNCHANGED <<role, timeline, invitation, account, loaded, ghosts, blind>>

DeleteMemberships(r) ==
    /\ pc[r] = "deleteMemberships"
    /\ Delete(r, {task[r].target})
    /\ Unless(role[task[r].target] # "owner")
    /\ Continue(r, "deleteUser")
    /\ UNCHANGED <<timeline, invitation, account, ghosts>>

DeleteUser(r) ==
    /\ pc[r] = "deleteUser"
    /\ account' = account \ {task[r].target}
    /\ Unless(role[task[r].target] # "owner")
    /\ Answer(r)
    /\ UNCHANGED <<role, timeline, invitation, loaded, ghosts>>

-----------------------------------------------------------------------------

\* What has a write behind it and another to come; to fail before is to do nothing.
Halfway == Transfers \cup {"createInvitation", "saveAccepted", "purgeInvitations",
                           "purgeTimeline", "deleteUser"}

\* The next call throws, or the process restarts, and the rest is never done.
Fail(r) ==
    /\ pc[r] \in Halfway
    /\ failures < MaxFailures
    /\ failures' = failures + 1
    /\ broken' = (broken \/ pc[r] \in Transfers \cup {"saveAccepted"})
    /\ Unless(pc[r] \notin {"purgeInvitations", "purgeTimeline"})
    /\ Answer(r)
    /\ Release(r)
    /\ UNCHANGED <<role, timeline, invitation, account, admissions>>

Start(r) ==
    \/ StartChange(r) \/ StartRemoval(r) \/ StartTransfer(r) \/ StartAdminTransfer(r)
    \/ StartInvite(r) \/ StartRevoke(r) \/ StartAccept(r)
    \/ StartTrash(r) \/ StartSuspend(r) \/ StartRestore(r) \/ StartAdminRestore(r)
    \/ StartBulk(r) \/ StartPurge(r) \/ StartNightlyPurge(r) \/ StartDeleteAccount(r)

Step(r) ==
    \/ FindTarget(r) \/ SaveRole(r) \/ DeleteMember(r)
    \/ FindNewOwner(r) \/ Promote(r) \/ Demote(r) \/ SetOwner(r)
    \/ UpsertOwner(r) \/ DemotePrevious(r)
    \/ RevokeEarlier(r) \/ CreateInvitation(r) \/ Upsert(r) \/ SaveInvitation(r)
    \/ SaveTrashed(r) \/ SaveRestored(r)
    \/ PurgeMembers(r) \/ PurgeInvitations(r) \/ PurgeTimeline(r)
    \/ DeleteMemberships(r) \/ DeleteUser(r)

Next ==
    \/ \E r \in Request : Start(r) \/ Step(r) \/ Fail(r)
    \/ \E i \in Invitation : Expire(i)

Spec == Init /\ [][Next]_vars

-----------------------------------------------------------------------------
(* Properties                                                              *)

Owners == {u \in User : role[u] = "owner"}

\* A live timeline always has an owner with an account, even when a transfer is cut in
\* half.  Only a blind write can take the last one away: by a handler that has loaded the
\* membership before it became the owner's, or that never looks at it.
NeverOwnerless ==
    timeline.status = "active" /\ ~blind => Owners \cap account # {}

\* The roles and ownerId name the same and only owner, unless a transfer is on its way, or
\* one was cut in half or overtaken by another.
OneOwner ==
    /\ timeline.status = "active"
    /\ \A r \in Request : pc[r] \notin Transfers
    /\ ~blind
    /\ ~broken
    => Owners = {timeline.ownerId}

\* An invitation makes somebody a member once: it cannot bring back who was removed,
\* unless two acceptances overlap or one is cut in half.
AdmitsOnce == ~blind /\ ~broken => \A i \in Invitation : admissions[i] <= 1

\* A purged timeline leaves no membership and no invitation behind, unless a handler that
\* found it alive writes after the purge.
PurgeLeavesNothing ==
    timeline.status = "purged" /\ ~blind =>
        /\ \A u \in User : role[u] = "none"
        /\ \A i \in Invitation : invitation[i].status \in {"unsent", "gone"}
=============================================================================
