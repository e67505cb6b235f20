------------------------- MODULE MembershipProofs --------------------------
(***************************************************************************)
(* Theorems about Membership, for every set of users and invitations and   *)
(* every number of requests.                                               *)
(***************************************************************************)
EXTENDS Membership, TLAPS

Tasks == [target : User \cup {Nobody}, actor : User \cup {Nobody}, role : Given,
          invitation : Invitation \cup {Nobody}, owner : User \cup {Nobody}]
AnyRole == Given \cup {"owner"}
Timelines == [status : {"active", "trashed", "purged"}, ownerId : User]
Invitations == [status : {"unsent", "pending", "accepted", "revoked", "gone"}, role : Given]

\* What a request knows when it writes.
Knows(r) ==
    /\ pc[r] \in {"findForChange", "saveRole", "findForRemoval", "deleteMember", "findForTransfer",
                  "promote", "demote", "setOwner", "upsertOwner", "demotePrevious", "saveOwner",
                  "upsert"} => task[r].target \in User
    /\ pc[r] \in {"findForChange", "saveRole", "revokeEarlier", "createInvitation", "upsert"} =>
          task[r].role # "none"
    /\ pc[r] \in {"findForTransfer", "promote", "demote"} => task[r].actor # task[r].target
    /\ pc[r] \in {"upsertOwner", "demotePrevious"} => task[r].owner # task[r].target
    /\ pc[r] \in {"saveRole", "deleteMember"} => loaded[r][task[r].target] # "owner"
    /\ pc[r] \in {"saveRevoked", "upsert", "saveAccepted"} =>
          /\ task[r].invitation \in Invitation
          /\ invitation[task[r].invitation].status # "unsent"

KnowsInv ==
    /\ \A r \in Request : Knows(r)
    /\ \A i \in Invitation : invitation[i].status = "pending" => invitation[i].role # "none"
    /\ \A r \in Request, u \in User : loaded[r][u] # "none" => role[u] # "none"

-----------------------------------------------------------------------------
(* Types                                                                   *)

LEMMA MembershipTypeStep == TypeOK /\ KnowsInv /\ [Next]_vars => TypeOK'
<1> SUFFICES ASSUME TypeOK, KnowsInv, [Next]_vars PROVE TypeOK'
    OBVIOUS
<1>0. /\ role \in [User -> AnyRole] /\ timeline \in Timelines
      /\ invitation \in [Invitation -> Invitations] /\ account \subseteq User
      /\ pc \in [Request -> Stages] /\ task \in [Request -> Tasks]
      /\ loaded \in [Request -> [User -> AnyRole]] /\ admissions \in [Invitation -> 0..2]
      /\ failures \in 0..MaxFailures /\ broken \in BOOLEAN /\ blind \in BOOLEAN
    BY DEF TypeOK, AnyRole, Timelines, Invitations, Tasks
<1>1. SUFFICES /\ role' \in [User -> AnyRole] /\ timeline' \in Timelines
               /\ invitation' \in [Invitation -> Invitations] /\ account' \subseteq User
               /\ pc' \in [Request -> Stages] /\ task' \in [Request -> Tasks]
               /\ loaded' \in [Request -> [User -> AnyRole]] /\ admissions' \in [Invitation -> 0..2]
               /\ failures' \in 0..MaxFailures /\ broken' \in BOOLEAN /\ blind' \in BOOLEAN
    BY DEF TypeOK, AnyRole, Timelines, Invitations, Tasks
<1> DEFINE Goal == /\ role' \in [User -> AnyRole] /\ timeline' \in Timelines
               /\ invitation' \in [Invitation -> Invitations] /\ account' \subseteq User
               /\ pc' \in [Request -> Stages] /\ task' \in [Request -> Tasks]
               /\ loaded' \in [Request -> [User -> AnyRole]] /\ admissions' \in [Invitation -> 0..2]
               /\ failures' \in 0..MaxFailures /\ broken' \in BOOLEAN /\ blind' \in BOOLEAN
<1>2. NoTask \in Tasks
    BY DEF NoTask, Tasks, Given
<1>3. ASSUME NEW r \in Request, NEW stage \in Stages, NEW k \in Tasks, Begin(r, stage, k)
      PROVE  pc' \in [Request -> Stages] /\ task' \in [Request -> Tasks]
    BY <1>0, <1>3 DEF Begin
<1>4. ASSUME NEW r \in Request, NEW stage \in Stages, Continue(r, stage)
      PROVE  pc' \in [Request -> Stages] /\ task' \in [Request -> Tasks]
    BY <1>0, <1>4 DEF Continue
<1>5. ASSUME NEW r \in Request, Answer(r)
      PROVE  pc' \in [Request -> Stages] /\ task' \in [Request -> Tasks]
    BY <1>0, <1>2, <1>5 DEF Answer, Stages
<1>6. ASSUME NEW r \in Request, NEW u, u \in User, Load(r, u)
      PROVE  loaded' \in [Request -> [User -> AnyRole]]
    BY <1>0, <1>6 DEF Load
<1>7. ASSUME NEW r \in Request, Release(r)
      PROVE  loaded' \in [Request -> [User -> AnyRole]]
    BY <1>0, <1>7 DEF Release, AnyRole, Given
<1>8. ASSUME NEW r \in Request, NEW u, NEW x \in AnyRole, Save(r, u, x)
      PROVE  role' \in [User -> AnyRole]
    BY <1>0, <1>8 DEF Save
<1>9. ASSUME NEW r \in Request, NEW us, Delete(r, us)
      PROVE  role' \in [User -> AnyRole] /\ loaded' \in [Request -> [User -> AnyRole]]
    BY <1>0, <1>9 DEF Delete, AnyRole, Given
<1>10. ASSUME NEW known, Unless(known) PROVE blind' \in BOOLEAN
    BY <1>10 DEF Unless
<1>11. ASSUME NEW r \in Request, NEW stage \in Stages, NEW k \in Tasks, Begin(r, stage, k),
              UNCHANGED <<role, timeline, invitation, account, ghosts, blind>>,
              loaded' \in [Request -> [User -> AnyRole]]
       PROVE  Goal
    BY <1>0, <1>3, <1>11 DEF ghosts
<1>13. Assignable \subseteq Given
    BY ConstantsAssumption DEF Assignable, Given
<1>14. timeline.ownerId \in User /\ \A i \in Invitation : invitation[i].role \in Given
    BY <1>0 DEF Timelines, Invitations
<1>15. ASSUME NEW r \in Request, Start(r) PROVE Goal
    <2> HIDE DEF Goal
    <2>1. CASE StartChange(r)
        <3>1. PICK v \in User, x \in Given :
                 Begin(r, "findForChange", [NoTask EXCEPT !.target = v, !.role = x])
            BY <1>13, <1>14, ConstantsAssumption, <2>1 DEF StartChange
        <3>2. [NoTask EXCEPT !.target = v, !.role = x] \in Tasks
            BY <1>14 DEF NoTask, Tasks, Given
        <3>3. UNCHANGED <<role, timeline, invitation, account, ghosts, blind>>
            BY <2>1 DEF StartChange
        <3>4. loaded' \in [Request -> [User -> AnyRole]]
            BY <1>0, <1>6, <2>1, <3>1 DEF StartChange
        <3> QED
            BY <1>11, <3>1, <3>2, <3>3, <3>4 DEF Stages
    <2>2. CASE StartRemoval(r)
        <3>1. PICK v \in User :
                 Begin(r, "findForRemoval", [NoTask EXCEPT !.target = v])
            BY <1>13, <1>14, ConstantsAssumption, <2>2 DEF StartRemoval
        <3>2. [NoTask EXCEPT !.target = v] \in Tasks
            BY <1>14 DEF NoTask, Tasks, Given
        <3>3. UNCHANGED <<role, timeline, invitation, account, ghosts, blind>>
            BY <2>2 DEF StartRemoval
        <3>4. loaded' \in [Request -> [User -> AnyRole]]
            BY <1>0, <1>6, <2>2, <3>1 DEF StartRemoval
        <3> QED
            BY <1>11, <3>1, <3>2, <3>3, <3>4 DEF Stages
    <2>3. CASE StartTransfer(r)
        <3>1. PICK u \in User, v \in User :
                 Begin(r, "findForTransfer", [NoTask EXCEPT !.actor = u, !.target = v, !.owner = timeline.ownerId]) /\ Load(r, u)
            BY <1>13, <1>14, ConstantsAssumption, <2>3 DEF StartTransfer
        <3>2. [NoTask EXCEPT !.actor = u, !.target = v, !.owner = timeline.ownerId] \in Tasks
            BY <1>14 DEF NoTask, Tasks, Given
        <3>3. UNCHANGED <<role, timeline, invitation, account, ghosts, blind>>
            BY <2>3 DEF StartTransfer
        <3>4. loaded' \in [Request -> [User -> AnyRole]]
            BY <1>0, <1>6, <2>3, <3>1 DEF StartTransfer
        <3> QED
            BY <1>11, <3>1, <3>2, <3>3, <3>4 DEF Stages
    <2>4. CASE StartAdminTransfer(r)
        <3>1. PICK v \in User :
                 Begin(r, "upsertOwner", [NoTask EXCEPT !.target = v, !.owner = timeline.ownerId])
            BY <1>0, <2>4 DEF StartAdminTransfer
        <3>2. [NoTask EXCEPT !.target = v, !.owner = timeline.ownerId] \in Tasks
            BY <1>14 DEF NoTask, Tasks, Given
        <3>3. UNCHANGED <<role, timeline, invitation, account, ghosts, blind>>
            BY <2>4 DEF StartAdminTransfer
        <3>4. loaded' \in [Request -> [User -> AnyRole]]
            BY <1>0, <1>6, <2>4, <3>1 DEF StartAdminTransfer
        <3> QED
            BY <1>11, <3>1, <3>2, <3>3, <3>4 DEF Stages
    <2>5. CASE StartInvite(r)
        <3>1. PICK i \in Invitation, x \in Given :
                 Begin(r, "revokeEarlier", [NoTask EXCEPT !.invitation = i, !.role = x])
            BY <1>13, <1>14, ConstantsAssumption, <2>5 DEF StartInvite
        <3>2. [NoTask EXCEPT !.invitation = i, !.role = x] \in Tasks
            BY <1>14 DEF NoTask, Tasks, Given
        <3>3. UNCHANGED <<role, timeline, invitation, account, ghosts, blind>>
            BY <2>5 DEF StartInvite
        <3>4. loaded' \in [Request -> [User -> AnyRole]]
            BY <1>0, <1>6, <2>5, <3>1 DEF StartInvite
        <3> QED
            BY <1>11, <3>1, <3>2, <3>3, <3>4 DEF Stages
    <2>6. CASE StartRevoke(r)
        <3>1. PICK i \in Invitation :
                 Begin(r, "saveRevoked", [NoTask EXCEPT !.invitation = i])
            BY <1>13, <1>14, ConstantsAssumption, <2>6 DEF StartRevoke
        <3>2. [NoTask EXCEPT !.invitation = i] \in Tasks
            BY <1>14 DEF NoTask, Tasks, Given
        <3>3. UNCHANGED <<role, timeline, invitation, account, ghosts, blind>>
            BY <2>6 DEF StartRevoke
        <3>4. loaded' \in [Request -> [User -> AnyRole]]
            BY <1>0, <1>6, <2>6, <3>1 DEF StartRevoke
        <3> QED
            BY <1>11, <3>1, <3>2, <3>3, <3>4 DEF Stages
    <2>7. CASE StartAccept(r)
        <3>1. PICK i \in Invitation :
                 Begin(r, "upsert", [NoTask EXCEPT !.invitation = i, !.target = Invitee[i],
                                             !.role = invitation[i].role])
            BY <1>13, <1>14, ConstantsAssumption, <2>7 DEF StartAccept
        <3>2. [NoTask EXCEPT !.invitation = i, !.target = Invitee[i],
                                             !.role = invitation[i].role] \in Tasks
            BY <1>14, ConstantsAssumption DEF NoTask, Tasks, Given
        <3>3. UNCHANGED <<role, timeline, invitation, account, ghosts, blind>>
            BY <2>7 DEF StartAccept
        <3>4. loaded' \in [Request -> [User -> AnyRole]]
            BY <1>0, <1>6, <2>7, <3>1 DEF StartAccept
        <3> QED
            BY <1>11, <3>1, <3>2, <3>3, <3>4 DEF Stages
    <2>10. CASE StartDeleteAccount(r)
        <3>1. PICK u \in User :
                 Begin(r, "deleteMemberships", [NoTask EXCEPT !.target = u])
            BY <1>13, <1>14, ConstantsAssumption, <2>10 DEF StartDeleteAccount
        <3>2. [NoTask EXCEPT !.target = u] \in Tasks
            BY <1>14 DEF NoTask, Tasks, Given
        <3>3. UNCHANGED <<role, timeline, invitation, account, ghosts, blind>>
            BY <2>10 DEF StartDeleteAccount
        <3>4. loaded' \in [Request -> [User -> AnyRole]]
            BY <1>0, <1>6, <2>10, <3>1 DEF StartDeleteAccount
        <3> QED
            BY <1>11, <3>1, <3>2, <3>3, <3>4 DEF Stages
    <2>8. ASSUME NEW stage \in Stages, Decide(r, stage) PROVE Goal
        BY <1>0, <1>2, <1>11, <2>8 DEF Decide
    <2>9. {"saveTrashed", "saveRestored", "purgeMembers"} \subseteq Stages
        BY DEF Stages, Purges
    <2> QED
        BY <1>15, <2>1, <2>2, <2>3, <2>4, <2>5, <2>6, <2>7, <2>8, <2>9, <2>10
        DEF Start, StartTrash, StartSuspend, StartRestore, StartAdminRestore, StartBulk,
            StartPurge, StartNightlyPurge
<1>16. ASSUME NEW r \in Request, Step(r) PROVE Goal
    <2>1. ASSUME NEW r1 \in Request PROVE task[r1].role \in AnyRole /\ task[r1].role \in Given
        BY <1>0 DEF Tasks, AnyRole, Given
    <2>2. {"owner", "admin", "none"} \subseteq AnyRole
        BY DEF AnyRole, Given
    <2>3. CASE FindTarget(r)
        <3>1. loaded' \in [Request -> [User -> AnyRole]]
            BY <1>0, <1>6, <2>3 DEF FindTarget, KnowsInv, Knows
        <3>2. pc' \in [Request -> Stages] /\ task' \in [Request -> Tasks]
            BY <1>4, <1>5, <2>3 DEF FindTarget, Stages
        <3> QED
            BY <1>0, <2>3, <3>1, <3>2 DEF FindTarget, ghosts
    <2>4. CASE SaveRole(r)
        <3>1. role' \in [User -> AnyRole] /\ loaded' \in [Request -> [User -> AnyRole]]
            BY <1>7, <1>8, <2>1, <2>4 DEF SaveRole
        <3>2. blind' \in BOOLEAN
            BY <1>10, <2>4 DEF SaveRole
        <3> QED
            BY <1>0, <1>5, <2>4, <3>1, <3>2 DEF SaveRole, ghosts
    <2>5. CASE DeleteMember(r)
        <3>1. role' \in [User -> AnyRole] /\ loaded' \in [Request -> [User -> AnyRole]]
            BY <1>9, <2>5 DEF DeleteMember
        <3>2. blind' \in BOOLEAN
            BY <1>10, <2>5 DEF DeleteMember
        <3> QED
            BY <1>0, <1>5, <2>5, <3>1, <3>2 DEF DeleteMember, ghosts
    <2>6. CASE FindNewOwner(r)
        <3>1. loaded' \in [Request -> [User -> AnyRole]]
            BY <1>0, <1>6, <1>7, <2>6 DEF FindNewOwner, KnowsInv, Knows
        <3>2. pc' \in [Request -> Stages] /\ task' \in [Request -> Tasks]
            BY <1>4, <1>5, <2>6 DEF FindNewOwner, Stages
        <3> QED
            BY <1>0, <2>6, <3>1, <3>2 DEF FindNewOwner, ghosts
    <2>7. CASE Promote(r)
        <3>1. role' \in [User -> AnyRole] /\ loaded' \in [Request -> [User -> AnyRole]]
            BY <1>0, <1>7, <1>8, <2>2, <2>7 DEF Promote
        <3>2. blind' \in BOOLEAN
            BY <1>0, <1>10, <2>7 DEF Promote
        <3>3. pc' \in [Request -> Stages] /\ task' \in [Request -> Tasks]
            BY <1>4, <1>5, <2>7 DEF Promote, Stages, Transfers
        <3> QED
            BY <1>0, <2>7, <3>1, <3>2, <3>3 DEF Promote, ghosts
    <2>8. CASE Demote(r)
        <3>1. role' \in [User -> AnyRole] /\ loaded' \in [Request -> [User -> AnyRole]]
            BY <1>0, <1>7, <1>8, <2>2, <2>8 DEF Demote
        <3>2. blind' \in BOOLEAN
            BY <1>0, <1>10, <2>8 DEF Demote
        <3>3. broken' \in BOOLEAN
            BY <1>0, <2>8 DEF Demote
        <3>4. pc' \in [Request -> Stages] /\ task' \in [Request -> Tasks]
            BY <1>4, <1>5, <2>8 DEF Demote, Stages, Transfers
        <3> QED
            BY <1>0, <2>8, <3>1, <3>2, <3>3, <3>4 DEF Demote
    <2>9. CASE SetOwner(r)
        <3>1. timeline' \in Timelines
            <4>1. task[r].target \in User
                BY <2>9 DEF SetOwner, KnowsInv, Knows
            <4> QED
                BY <1>0, <2>9, <4>1 DEF SetOwner, Timelines
        <3>2. blind' \in BOOLEAN
            BY <1>10, <2>9 DEF SetOwner
        <3>3. loaded' \in [Request -> [User -> AnyRole]] /\ pc' \in [Request -> Stages]
              /\ task' \in [Request -> Tasks]
            BY <1>5, <1>7, <2>9 DEF SetOwner
        <3> QED
            BY <1>0, <2>9, <3>1, <3>2, <3>3 DEF SetOwner, ghosts
    <2>10. CASE UpsertOwner(r) \/ DemotePrevious(r)
        <3>1. role' \in [User -> AnyRole]
            BY <1>0, <2>2, <2>10 DEF UpsertOwner, DemotePrevious
        <3>2. blind' \in BOOLEAN
            BY <1>10, <2>10 DEF UpsertOwner, DemotePrevious
        <3>3. pc' \in [Request -> Stages] /\ task' \in [Request -> Tasks]
            BY <1>4, <2>10 DEF UpsertOwner, DemotePrevious, Stages, Transfers
        <3>4. UNCHANGED <<timeline, invitation, account, loaded, ghosts>>
            BY <2>10 DEF UpsertOwner, DemotePrevious
        <3> QED
            BY <1>0, <3>1, <3>2, <3>3, <3>4 DEF ghosts
    <2>11. CASE RevokeEarlier(r) \/ CreateInvitation(r) \/ SaveInvitation(r)
        <3>1. invitation' \in [Invitation -> Invitations]
            <4>1. CASE RevokeEarlier(r)
                <5>1. ASSUME NEW i \in Invitation
                      PROVE  [invitation[i] EXCEPT !.status = "revoked"] \in Invitations
                    BY <1>0 DEF Invitations
                <5> QED
                    BY <1>0, <4>1, <5>1 DEF RevokeEarlier
            <4>2. CASE CreateInvitation(r)
                <5>1. [status |-> "pending", role |-> task[r].role] \in Invitations
                    BY <2>1 DEF Invitations
                <5> QED
                    BY <1>0, <4>2, <5>1 DEF CreateInvitation
            <4>3. CASE SaveInvitation(r)
                <5>1. ASSUME NEW i \in Invitation, NEW x \in {"accepted", "revoked"}
                      PROVE  [invitation[i] EXCEPT !.status = x] \in Invitations
                    BY <1>0 DEF Invitations
                <5>2. \/ invitation' = invitation
                      \/ \E x \in {"accepted", "revoked"} :
                            invitation' = [invitation EXCEPT ![task[r].invitation] =
                                              [invitation[task[r].invitation] EXCEPT !.status = x]]
                    BY <4>3 DEF SaveInvitation
                <5>3. CASE task[r].invitation \in Invitation
                    BY <1>0, <5>1, <5>2, <5>3
                <5>4. CASE task[r].invitation \notin Invitation
                    BY <1>0, <5>2, <5>4
                <5> QED
                    BY <5>3, <5>4
            <4> QED
                BY <2>11, <4>1, <4>2, <4>3
        <3>2. blind' \in BOOLEAN
            BY <1>0, <1>10, <2>11 DEF RevokeEarlier, CreateInvitation, SaveInvitation
        <3>3. pc' \in [Request -> Stages] /\ task' \in [Request -> Tasks]
            BY <1>4, <1>5, <2>11 DEF RevokeEarlier, CreateInvitation, SaveInvitation, Stages
        <3>4. UNCHANGED <<role, timeline, account, loaded, ghosts>>
            BY <2>11 DEF RevokeEarlier, CreateInvitation, SaveInvitation
        <3> QED
            BY <1>0, <3>1, <3>2, <3>3, <3>4 DEF ghosts
    <2>12. CASE Upsert(r)
        <3>1. role' \in [User -> AnyRole]
            <4>1. role' = [role EXCEPT ![task[r].target] = task[r].role]
                BY <2>12 DEF Upsert
            <4> QED
                BY <1>0, <2>1, <4>1
        <3>2. admissions' \in [Invitation -> 0..2]
            <4> DEFINE i == task[r].invitation
                       n == IF role[task[r].target] = "none" /\ admissions[i] < 2
                            THEN admissions[i] + 1 ELSE admissions[i]
            <4>1. admissions' = [admissions EXCEPT ![i] = n]
                BY <2>12 DEF Upsert
            <4>2. i \in Invitation => n \in 0..2
                BY <1>0
            <4> HIDE DEF i, n
            <4> QED
                BY <1>0, <4>1, <4>2
        <3>3. blind' \in BOOLEAN
            BY <1>10, <2>12 DEF Upsert
        <3>4. pc' \in [Request -> Stages] /\ task' \in [Request -> Tasks]
            BY <1>4, <2>12 DEF Upsert, Stages
        <3> QED
            BY <1>0, <2>12, <3>1, <3>2, <3>3, <3>4 DEF Upsert
    <2>13. CASE SaveTrashed(r) \/ SaveRestored(r) \/ PurgeTimeline(r)
        <3>1. timeline' \in Timelines
            BY <1>0, <2>13 DEF SaveTrashed, SaveRestored, PurgeTimeline, Timelines
        <3>2. blind' \in BOOLEAN
            BY <1>0, <1>10, <2>13 DEF SaveTrashed, SaveRestored, PurgeTimeline
        <3>3. pc' \in [Request -> Stages] /\ task' \in [Request -> Tasks]
            BY <1>5, <2>13 DEF SaveTrashed, SaveRestored, PurgeTimeline
        <3>4. UNCHANGED <<role, invitation, account, loaded, ghosts>>
            BY <2>13 DEF SaveTrashed, SaveRestored, PurgeTimeline
        <3> QED
            BY <1>0, <3>1, <3>2, <3>3, <3>4 DEF ghosts
    <2>14. CASE PurgeMembers(r) \/ DeleteMemberships(r)
        <3>1. role' \in [User -> AnyRole] /\ loaded' \in [Request -> [User -> AnyRole]]
            BY <1>9, <2>14 DEF PurgeMembers, DeleteMemberships
        <3>2. blind' \in BOOLEAN
            BY <1>10, <2>14 DEF PurgeMembers, DeleteMemberships
        <3>3. pc' \in [Request -> Stages] /\ task' \in [Request -> Tasks]
            BY <1>4, <2>14 DEF PurgeMembers, DeleteMemberships, Stages, Purges
        <3>4. UNCHANGED <<timeline, invitation, account, ghosts>>
            BY <2>14 DEF PurgeMembers, DeleteMemberships
        <3> QED
            BY <1>0, <3>1, <3>2, <3>3, <3>4 DEF ghosts
    <2>15. CASE PurgeInvitations(r)
        <3>1. [status |-> "gone", role |-> "none"] \in Invitations
            BY DEF Invitations, Given
        <3>2. invitation' \in [Invitation -> Invitations]
            BY <1>0, <2>15, <3>1 DEF PurgeInvitations
        <3> QED
            BY <1>0, <1>4, <2>15, <3>2 DEF PurgeInvitations, ghosts, Stages, Purges
    <2>16. CASE DeleteUser(r)
        <3>1. blind' \in BOOLEAN
            BY <1>10, <2>16 DEF DeleteUser
        <3> QED
            BY <1>0, <1>5, <2>16, <3>1 DEF DeleteUser, ghosts
    <2> HIDE DEF Goal
    <2> QED
        BY <1>16, <2>3, <2>4, <2>5, <2>6, <2>7, <2>8, <2>9, <2>10, <2>11, <2>12, <2>13, <2>14,
           <2>15, <2>16 DEF Step
<1>17. ASSUME NEW r \in Request, Fail(r) PROVE Goal
    <2>1. blind' \in BOOLEAN
        BY <1>10, <1>17 DEF Fail
    <2>2. broken' \in BOOLEAN
        BY <1>17 DEF Fail
    <2>3. failures' \in 0..MaxFailures
        BY <1>0, <1>17, ConstantsAssumption DEF Fail
    <2>4. /\ loaded' \in [Request -> [User -> AnyRole]] /\ pc' \in [Request -> Stages]
          /\ task' \in [Request -> Tasks]
        BY <1>5, <1>7, <1>17 DEF Fail
    <2> QED
        BY <1>0, <1>17, <2>1, <2>2, <2>3, <2>4 DEF Fail
<1>18. ASSUME NEW i \in Invitation, Expire(i) PROVE Goal
    <2>1. [status |-> "gone", role |-> "none"] \in Invitations
        BY DEF Invitations, Given
    <2>2. invitation' \in [Invitation -> Invitations]
        BY <1>0, <1>18, <2>1 DEF Expire
    <2> QED
        BY <1>0, <1>18, <2>2 DEF Expire, ghosts
<1>19. CASE UNCHANGED vars
    BY <1>0, <1>19 DEF vars, ghosts
<1> HIDE DEF Goal
<1> QED
    BY <1>15, <1>16, <1>17, <1>18, <1>19 DEF Next, Goal

-----------------------------------------------------------------------------
(* What requests know                                                      *)

\* A step of one request leaves the others where they are; it may delete what they have loaded.
LEMMA OthersWait ==
    ASSUME TypeOK, NEW q \in Request, NEW r \in Request \ {q}, Start(q) \/ Step(q) \/ Fail(q)
    PROVE  /\ pc'[r] = pc[r] /\ task'[r] = task[r]
           /\ \A u \in User : loaded'[r][u] = loaded[r][u] \/ loaded'[r][u] = "none"
<1>0. pc \in [Request -> Stages] /\ DOMAIN task = Request /\ DOMAIN loaded = Request
      /\ DOMAIN loaded[q] = User
    BY DEF TypeOK
<1>1. \/ \E stage, k : Begin(q, stage, k)
      \/ \E stage : Continue(q, stage)
      \/ Answer(q)
    <2>1. ASSUME Start(q) PROVE \E stage, k : Begin(q, stage, k)
        BY <2>1 DEF Start, StartChange, StartRemoval, StartTransfer, StartAdminTransfer, StartInvite,
                    StartRevoke, StartAccept, StartTrash, StartSuspend, StartRestore, StartAdminRestore,
                    StartBulk, StartPurge, StartNightlyPurge, StartDeleteAccount, Decide
    <2>2. ASSUME Step(q) PROVE (\E stage : Continue(q, stage)) \/ Answer(q)
        BY <2>2 DEF Step, FindTarget, SaveRole, DeleteMember, FindNewOwner, Promote, Demote, SetOwner,
                    UpsertOwner, DemotePrevious, RevokeEarlier, CreateInvitation, Upsert,
                    SaveInvitation, SaveTrashed, SaveRestored, PurgeMembers, PurgeInvitations,
                    PurgeTimeline, DeleteMemberships, DeleteUser
    <2> QED
        BY <2>1, <2>2 DEF Fail
<1>2. \/ \E u : Load(q, u)
      \/ Release(q)
      \/ loaded' = loaded
      \/ \E us : Delete(q, us)
    <2>1. ASSUME Start(q) PROVE (\E u : Load(q, u)) \/ loaded' = loaded
        BY <2>1 DEF Start, StartChange, StartRemoval, StartTransfer, StartAdminTransfer, StartInvite,
                    StartRevoke, StartAccept, StartTrash, StartSuspend, StartRestore, StartAdminRestore,
                    StartBulk, StartPurge, StartNightlyPurge, StartDeleteAccount, Decide
    <2>2. ASSUME Step(q)
          PROVE  (\E u : Load(q, u)) \/ Release(q) \/ loaded' = loaded \/ \E us : Delete(q, us)
        BY <2>2 DEF Step, FindTarget, SaveRole, DeleteMember, FindNewOwner, Promote, Demote, SetOwner,
                    UpsertOwner, DemotePrevious, RevokeEarlier, CreateInvitation, Upsert,
                    SaveInvitation, SaveTrashed, SaveRestored, PurgeMembers, PurgeInvitations,
                    PurgeTimeline, DeleteMemberships, DeleteUser
    <2> QED
        BY <2>1, <2>2 DEF Fail
<1>3. pc'[r] = pc[r] /\ task'[r] = task[r]
    BY <1>0, <1>1 DEF Begin, Continue, Answer
<1>4. \A u \in User : loaded'[r][u] = loaded[r][u] \/ loaded'[r][u] = "none"
    BY <1>0, <1>2 DEF Load, Release, Delete
<1> QED
    BY <1>3, <1>4

\* An invitation that was sent stays one, and a pending one has been created so.
LEMMA InvitationStep ==
    ASSUME TypeOK, KnowsInv, [Next]_vars, NEW i \in Invitation
    PROVE  /\ invitation[i].status # "unsent" => invitation'[i].status # "unsent"
           /\ invitation'[i].status = "pending" =>
                 \/ invitation[i].status = "pending" /\ invitation'[i].role = invitation[i].role
                 \/ invitation'[i].role # "none"
<1>0. invitation \in [Invitation -> Invitations]
    BY DEF TypeOK, Invitations
<1>1. CASE invitation' = invitation
    BY <1>1
<1>2. ASSUME NEW r \in Request, RevokeEarlier(r)
      PROVE  invitation'[i] = invitation[i] \/ invitation'[i].status = "revoked"
    <2>1. [invitation[i] EXCEPT !.status = "revoked"].status = "revoked"
        BY <1>0 DEF Invitations
    <2> QED
        BY <1>2, <2>1 DEF RevokeEarlier
<1>3. ASSUME NEW r \in Request, CreateInvitation(r)
      PROVE  \/ invitation'[i] = invitation[i]
             \/ invitation'[i].status = "pending" /\ invitation'[i].role # "none"
    BY <1>0, <1>3 DEF CreateInvitation, KnowsInv, Knows
<1>4. ASSUME NEW r \in Request, SaveInvitation(r)
      PROVE  invitation'[i] = invitation[i] \/ invitation'[i].status \in {"accepted", "revoked"}
    <2>1. ASSUME NEW x PROVE [invitation[i] EXCEPT !.status = x].status = x
        BY <1>0 DEF Invitations
    <2>2. \/ invitation' = invitation
          \/ \E x \in {"accepted", "revoked"} :
                 invitation' = [invitation EXCEPT ![task[r].invitation] =
                                   [invitation[task[r].invitation] EXCEPT !.status = x]]
        BY <1>4 DEF SaveInvitation
    <2> QED
        BY <1>0, <2>1, <2>2
<1>5. ASSUME NEW r \in Request, PurgeInvitations(r)
      PROVE  invitation'[i] = invitation[i] \/ invitation'[i].status = "gone"
    BY <1>5 DEF PurgeInvitations
<1>6. ASSUME NEW x \in Invitation, Expire(x)
      PROVE  invitation'[i] = invitation[i] \/ invitation'[i].status = "gone"
    BY <1>0, <1>6 DEF Expire
<1>7. ASSUME NEW r \in Request, Start(r) \/ Step(r) \/ Fail(r)
      PROVE  \/ invitation' = invitation
             \/ RevokeEarlier(r) \/ CreateInvitation(r) \/ SaveInvitation(r) \/ PurgeInvitations(r)
    <2>1. ASSUME Start(r) PROVE invitation' = invitation
        BY <2>1 DEF Start, StartChange, StartRemoval, StartTransfer, StartAdminTransfer, StartInvite,
                    StartRevoke, StartAccept, StartTrash, StartSuspend, StartRestore, StartAdminRestore,
                    StartBulk, StartPurge, StartNightlyPurge, StartDeleteAccount, Decide
    <2>2. ASSUME Step(r)
          PROVE  \/ invitation' = invitation
                 \/ RevokeEarlier(r) \/ CreateInvitation(r) \/ SaveInvitation(r) \/ PurgeInvitations(r)
        BY <2>2 DEF Step, FindTarget, SaveRole, DeleteMember, FindNewOwner, Promote, Demote, SetOwner,
                    UpsertOwner, DemotePrevious, Upsert, SaveTrashed, SaveRestored, PurgeMembers,
                    PurgeTimeline, DeleteMemberships, DeleteUser
    <2> QED
        BY <1>7, <2>1, <2>2 DEF Fail
<1>8. ASSUME UNCHANGED vars PROVE invitation' = invitation
    BY <1>8 DEF vars
<1> QED
    BY <1>1, <1>2, <1>3, <1>4, <1>5, <1>6, <1>7, <1>8 DEF Next

\* A stage at which a request knows nothing in particular.
Ignorant == {"idle", "saveTrashed", "saveRestored", "deleteMemberships", "deleteUser"} \cup Purges

LEMMA RequestKnows ==
    ASSUME TypeOK, KnowsInv, NEW r \in Request, Start(r) \/ Step(r) \/ Fail(r),
           \A i \in Invitation : invitation[i].status # "unsent" => invitation'[i].status # "unsent"
    PROVE  Knows(r)'
<1>0. /\ pc \in [Request -> Stages] /\ DOMAIN task = Request /\ DOMAIN loaded = Request
      /\ DOMAIN loaded[r] = User /\ account \subseteq User /\ timeline.ownerId \in User
    BY DEF TypeOK
<1>1. Knows(r)
    BY DEF KnowsInv
<1>2. ASSUME NEW stage \in Ignorant, \/ \E k : Begin(r, stage, k)
                                    \/ Continue(r, stage)
      PROVE  Knows(r)'
    BY <1>0, <1>2 DEF Begin, Continue, Knows, Ignorant, Purges
<1>3. ASSUME Answer(r) PROVE Knows(r)'
    BY <1>0, <1>3 DEF Answer, Knows
<1>4. CASE StartChange(r)
    <2>1. PICK v \in User, x \in Assignable :
             Begin(r, "findForChange", [NoTask EXCEPT !.target = v, !.role = x])
        BY <1>4 DEF StartChange
    <2>2. pc'[r] = "findForChange" /\ task'[r] = [NoTask EXCEPT !.target = v, !.role = x]
        BY <1>0, <2>1 DEF Begin
    <2>3. task'[r].target = v /\ task'[r].role = x
        BY <2>2 DEF NoTask
    <2>4. x # "none"
        BY ConstantsAssumption DEF Assignable
    <2> QED
        BY <2>2, <2>3, <2>4 DEF Knows
<1>5. CASE StartRemoval(r)
    <2>1. PICK v \in User : Begin(r, "findForRemoval", [NoTask EXCEPT !.target = v])
        BY <1>5 DEF StartRemoval
    <2>2. pc'[r] = "findForRemoval" /\ task'[r] = [NoTask EXCEPT !.target = v]
        BY <1>0, <2>1 DEF Begin
    <2>3. task'[r].target = v
        BY <2>2 DEF NoTask
    <2> QED
        BY <2>2, <2>3 DEF Knows
<1>6. CASE StartTransfer(r)
    <2>1. PICK u \in User, v \in User :
             u # v /\ Begin(r, "findForTransfer",
                            [NoTask EXCEPT !.actor = u, !.target = v, !.owner = timeline.ownerId])
        BY <1>6 DEF StartTransfer
    <2>2. /\ pc'[r] = "findForTransfer"
          /\ task'[r] = [NoTask EXCEPT !.actor = u, !.target = v, !.owner = timeline.ownerId]
        BY <1>0, <2>1 DEF Begin
    <2>3. task'[r].target = v /\ task'[r].actor = u
        BY <2>2 DEF NoTask
    <2> QED
        BY <2>1, <2>2, <2>3 DEF Knows
<1>7. CASE StartAdminTransfer(r)
    <2>1. PICK v \in account \ {timeline.ownerId} :
             Begin(r, "upsertOwner", [NoTask EXCEPT !.target = v, !.owner = timeline.ownerId])
        BY <1>7 DEF StartAdminTransfer
    <2>2. /\ pc'[r] = "upsertOwner"
          /\ task'[r] = [NoTask EXCEPT !.target = v, !.owner = timeline.ownerId]
        BY <1>0, <2>1 DEF Begin
    <2>3. task'[r].target = v /\ task'[r].owner = timeline.ownerId
        BY <2>2 DEF NoTask
    <2> QED
        BY <1>0, <2>1, <2>2, <2>3 DEF Knows
<1>8. CASE StartInvite(r)
    <2>1. PICK i \in Invitation, x \in Assignable :
             Begin(r, "revokeEarlier", [NoTask EXCEPT !.invitation = i, !.role = x])
        BY <1>8 DEF StartInvite
    <2>2. pc'[r] = "revokeEarlier" /\ task'[r] = [NoTask EXCEPT !.invitation = i, !.role = x]
        BY <1>0, <2>1 DEF Begin
    <2>3. task'[r].role = x
        BY <2>2 DEF NoTask
    <2>4. x # "none"
        BY ConstantsAssumption DEF Assignable
    <2> QED
        BY <2>2, <2>3, <2>4 DEF Knows
<1>9. CASE StartRevoke(r)
    <2>1. PICK i \in Invitation :
             /\ invitation[i].status # "unsent"
             /\ Begin(r, "saveRevoked", [NoTask EXCEPT !.invitation = i])
             /\ invitation' = invitation
        BY <1>9 DEF StartRevoke
    <2>2. pc'[r] = "saveRevoked" /\ task'[r] = [NoTask EXCEPT !.invitation = i]
        BY <1>0, <2>1 DEF Begin
    <2>3. task'[r].invitation = i
        BY <2>2 DEF NoTask
    <2> QED
        BY <2>1, <2>2, <2>3 DEF Knows
<1>10. CASE StartAccept(r)
    <2>1. PICK i \in Invitation :
             /\ invitation[i].status = "pending"
             /\ Begin(r, "upsert", [NoTask EXCEPT !.invitation = i, !.target = Invitee[i],
                                                  !.role = invitation[i].role])
             /\ invitation' = invitation
        BY <1>10 DEF StartAccept, Pending
    <2>2. /\ pc'[r] = "upsert"
          /\ task'[r] = [NoTask EXCEPT !.invitation = i, !.target = Invitee[i],
                                       !.role = invitation[i].role]
        BY <1>0, <2>1 DEF Begin
    <2>3. task'[r].invitation = i /\ task'[r].target = Invitee[i] /\ task'[r].role = invitation[i].role
        BY <2>2 DEF NoTask
    <2>4. Invitee[i] \in User /\ invitation[i].role # "none"
        BY <2>1, ConstantsAssumption DEF KnowsInv
    <2> QED
        BY <2>1, <2>2, <2>3, <2>4 DEF Knows
<1>11. CASE \/ StartTrash(r) \/ StartSuspend(r) \/ StartRestore(r) \/ StartAdminRestore(r)
            \/ StartBulk(r) \/ StartPurge(r) \/ StartNightlyPurge(r)
    BY <1>2, <1>11 DEF StartTrash, StartSuspend, StartRestore, StartAdminRestore, StartBulk,
                       StartPurge, StartNightlyPurge, Decide, Ignorant, Purges
<1>12. CASE StartDeleteAccount(r)
    BY <1>2, <1>12 DEF StartDeleteAccount, Ignorant
<1>13. CASE FindTarget(r)
    <2>1. CASE /\ role[task[r].target] \notin {"none", "owner"}
               /\ Load(r, task[r].target)
               /\ Continue(r, IF pc[r] = "findForChange" THEN "saveRole" ELSE "deleteMember")
        <3>1. task[r].target \in User /\ pc[r] \in {"findForChange", "findForRemoval"}
            BY <1>1, <1>13 DEF FindTarget, Knows
        <3>2. loaded'[r][task[r].target] = role[task[r].target]
            BY <1>0, <2>1, <3>1 DEF Load
        <3>3. /\ pc'[r] \in {"saveRole", "deleteMember"} /\ task'[r] = task[r]
              /\ pc'[r] = "saveRole" => pc[r] = "findForChange"
            BY <1>0, <2>1 DEF Continue
        <3> QED
            BY <1>1, <2>1, <3>1, <3>2, <3>3 DEF Knows
    <2> QED
        BY <1>3, <1>13, <2>1 DEF FindTarget
<1>14. CASE \/ SaveRole(r) \/ DeleteMember(r) \/ SetOwner(r) \/ CreateInvitation(r)
            \/ SaveInvitation(r) \/ SaveTrashed(r) \/ SaveRestored(r) \/ PurgeTimeline(r)
            \/ DeleteUser(r) \/ Fail(r)
    BY <1>3, <1>14 DEF SaveRole, DeleteMember, SetOwner, CreateInvitation, SaveInvitation,
                       SaveTrashed, SaveRestored, PurgeTimeline, DeleteUser, Fail
<1>15. CASE PurgeMembers(r) \/ PurgeInvitations(r) \/ DeleteMemberships(r)
    BY <1>2, <1>15 DEF PurgeMembers, PurgeInvitations, DeleteMemberships, Ignorant, Purges
<1>16. CASE FindNewOwner(r) \/ Promote(r) \/ Demote(r)
    <2>1. \/ pc[r] = "findForTransfer" /\ Continue(r, "promote")
          \/ pc[r] = "promote" /\ Continue(r, "demote")
          \/ pc[r] = "demote" /\ Continue(r, "setOwner")
          \/ Answer(r)
        BY <1>16 DEF FindNewOwner, Promote, Demote
    <2> QED
        BY <1>0, <1>1, <1>3, <2>1 DEF Continue, Knows
<1>17. CASE UpsertOwner(r) \/ DemotePrevious(r)
    <2>1. \/ pc[r] = "upsertOwner" /\ Continue(r, "demotePrevious")
          \/ pc[r] = "demotePrevious" /\ Continue(r, "saveOwner")
        BY <1>17 DEF UpsertOwner, DemotePrevious
    <2> QED
        BY <1>0, <1>1, <2>1 DEF Continue, Knows
<1>18. CASE RevokeEarlier(r)
    <2>1. pc[r] = "revokeEarlier" /\ Continue(r, "createInvitation")
        BY <1>18 DEF RevokeEarlier
    <2> QED
        BY <1>0, <1>1, <2>1 DEF Continue, Knows
<1>19. CASE Upsert(r)
    <2>1. pc[r] = "upsert" /\ Continue(r, "saveAccepted")
        BY <1>19 DEF Upsert
    <2> QED
        BY <1>0, <1>1, <2>1 DEF Continue, Knows
<1> QED
    BY <1>4, <1>5, <1>6, <1>7, <1>8, <1>9, <1>10, <1>11, <1>12, <1>13, <1>14, <1>15, <1>16, <1>17,
       <1>18, <1>19 DEF Start, Step

\* Nobody has loaded a membership that is not there.
LEMMA LoadedStep ==
    ASSUME TypeOK, KnowsInv, [Next]_vars, NEW q \in Request, NEW u \in User, loaded'[q][u] # "none"
    PROVE  role'[u] # "none"
<1>0. /\ role \in [User -> AnyRole] /\ DOMAIN loaded = Request /\ \A r \in Request : DOMAIN loaded[r] = User
      /\ pc \in [Request -> Stages]
    BY DEF TypeOK, AnyRole
<1>1. loaded[q][u] # "none" => role[u] # "none"
    BY DEF KnowsInv
<1>2. ASSUME NEW r \in Request, NEW v, Load(r, v), role' = role PROVE role'[u] # "none"
    BY <1>0, <1>1, <1>2 DEF Load
<1>3. ASSUME NEW r \in Request, NEW us, Delete(r, us) PROVE role'[u] # "none"
    BY <1>0, <1>1, <1>3 DEF Delete
<1>4. ASSUME NEW r \in Request, loaded' = loaded \/ Release(r),
             \/ role' = role
             \/ \E v, x : x # "none" /\ role' = [role EXCEPT ![v] = x]
      PROVE  role'[u] # "none"
    BY <1>0, <1>1, <1>4 DEF Release
<1>5. ASSUME NEW r \in Request, NEW v, NEW x, x # "none", Save(r, v, x)
      PROVE  \/ role' = role
             \/ \E v1, x1 : x1 # "none" /\ role' = [role EXCEPT ![v1] = x1]
    BY <1>5 DEF Save
<1>6. ASSUME NEW r \in Request, Start(r) PROVE role'[u] # "none"
    <2>1. role' = role /\ ((\E v : Load(r, v)) \/ loaded' = loaded)
        BY <1>6 DEF Start, StartChange, StartRemoval, StartTransfer, StartAdminTransfer, StartInvite,
                    StartRevoke, StartAccept, StartTrash, StartSuspend, StartRestore, StartAdminRestore,
                    StartBulk, StartPurge, StartNightlyPurge, StartDeleteAccount, Decide
    <2> QED
        BY <1>2, <1>4, <2>1
<1>7. ASSUME NEW r \in Request, Step(r) PROVE role'[u] # "none"
    <2>1. CASE FindTarget(r) \/ FindNewOwner(r)
        BY <1>2, <1>4, <2>1 DEF FindTarget, FindNewOwner
    <2>2. CASE DeleteMember(r) \/ PurgeMembers(r) \/ DeleteMemberships(r)
        BY <1>3, <2>2 DEF DeleteMember, PurgeMembers, DeleteMemberships
    <2>3. CASE SaveRole(r)
        <3>1. task[r].role # "none" /\ Save(r, task[r].target, task[r].role) /\ Release(r)
            BY <2>3 DEF SaveRole, KnowsInv, Knows
        <3> QED
            BY <1>4, <1>5, <3>1
    <2>4. CASE Promote(r)
        BY <1>4, <1>5, <2>4 DEF Promote
    <2>5. CASE Demote(r)
        BY <1>4, <1>5, <2>5 DEF Demote
    <2>6. CASE Upsert(r)
        <3>1. /\ task[r].role # "none" /\ role' = [role EXCEPT ![task[r].target] = task[r].role]
              /\ loaded' = loaded
            BY <2>6 DEF Upsert, KnowsInv, Knows
        <3> QED
            BY <1>4, <3>1
    <2>7. CASE UpsertOwner(r) \/ DemotePrevious(r)
        <3>1. /\ loaded' = loaded
              /\ \/ role' = role
                 \/ \E v, x : x # "none" /\ role' = [role EXCEPT ![v] = x]
            BY <2>7 DEF UpsertOwner, DemotePrevious
        <3> QED
            BY <1>4, <3>1
    <2>8. CASE \/ SetOwner(r) \/ RevokeEarlier(r) \/ CreateInvitation(r) \/ SaveInvitation(r)
               \/ SaveTrashed(r) \/ SaveRestored(r) \/ PurgeInvitations(r) \/ PurgeTimeline(r)
               \/ DeleteUser(r)
        BY <1>4, <2>8 DEF SetOwner, RevokeEarlier, CreateInvitation, SaveInvitation, SaveTrashed,
                          SaveRestored, PurgeInvitations, PurgeTimeline, DeleteUser
    <2> QED
        BY <1>7, <2>1, <2>2, <2>3, <2>4, <2>5, <2>6, <2>7, <2>8 DEF Step
<1>8. ASSUME NEW r \in Request, Fail(r) PROVE role'[u] # "none"
    BY <1>4, <1>8 DEF Fail
<1>9. CASE (\E i \in Invitation : Expire(i)) \/ UNCHANGED vars
    BY <1>1, <1>9 DEF Expire, vars
<1> QED
    BY <1>6, <1>7, <1>8, <1>9 DEF Next

LEMMA KnowsStep == TypeOK /\ KnowsInv /\ [Next]_vars => KnowsInv'
<1> SUFFICES ASSUME TypeOK, KnowsInv, [Next]_vars PROVE KnowsInv'
    OBVIOUS
<1>1. \A i \in Invitation : invitation[i].status # "unsent" => invitation'[i].status # "unsent"
    BY InvitationStep
<1>2. ASSUME NEW r \in Request PROVE Knows(r)'
    <2>1. CASE Start(r) \/ Step(r) \/ Fail(r)
        BY <1>1, <2>1, RequestKnows
    <2>2. ASSUME /\ pc'[r] = pc[r] /\ task'[r] = task[r]
                 /\ \A u \in User : loaded'[r][u] = loaded[r][u] \/ loaded'[r][u] = "none"
          PROVE  Knows(r)'
        <3>1. Knows(r)
            BY DEF KnowsInv
        <3> QED
            BY <1>1, <2>2, <3>1 DEF Knows
    <2>3. CASE \E q \in Request \ {r} : Start(q) \/ Step(q) \/ Fail(q)
        BY <2>2, <2>3, OthersWait
    <2>4. CASE (\E i \in Invitation : Expire(i)) \/ UNCHANGED vars
        BY <2>2, <2>4 DEF Expire, vars
    <2> QED
        BY <2>1, <2>3, <2>4 DEF Next
<1>3. ASSUME NEW i \in Invitation, invitation'[i].status = "pending" PROVE invitation'[i].role # "none"
    BY <1>3, InvitationStep DEF KnowsInv
<1>4. ASSUME NEW q \in Request, NEW u \in User, loaded'[q][u] # "none" PROVE role'[u] # "none"
    BY <1>4, LoadedStep
<1> QED
    BY <1>2, <1>3, <1>4 DEF KnowsInv

-----------------------------------------------------------------------------
(* Owners and purges                                                       *)

\* A purge that has deleted the memberships, and one that has deleted the invitations too.
Emptied == timeline.status = "purged" \/ \E r \in Request : pc[r] \in {"purgeInvitations", "purgeTimeline"}
Swept == timeline.status = "purged" \/ \E r \in Request : pc[r] = "purgeTimeline"

\* Until a purge there is an owner, whoever owns has an account, and a purge is not undone.
OwnersInv ==
    ~blind =>
        /\ Owners \subseteq account
        /\ ~Emptied => Owners # {}
        /\ Emptied => timeline.status # "active" /\ \A u \in User : role[u] = "none"
        /\ Swept => \A i \in Invitation : invitation[i].status \in {"unsent", "gone"}

\* A handler that is still sighted after its write was so before.
LEMMA Sight ==
    ASSUME TypeOK, [Next]_vars, ~blind'
    PROVE  ~blind
<1>1. ASSUME NEW known, Unless(known) PROVE ~blind
    BY <1>1 DEF Unless
<1>2. ASSUME NEW r \in Request, Start(r) PROVE ~blind
    <2>1. UNCHANGED blind
        BY <1>2 DEF Start, StartChange, StartRemoval, StartTransfer, StartAdminTransfer, StartInvite,
                    StartRevoke, StartAccept, StartTrash, StartSuspend, StartRestore, StartAdminRestore,
                    StartBulk, StartPurge, StartNightlyPurge, StartDeleteAccount, Decide
    <2> QED
        BY <2>1
<1>3. ASSUME NEW r \in Request, Step(r) \/ Fail(r) PROVE ~blind
    <2>1. UNCHANGED blind \/ \E known : Unless(known)
        BY <1>3 DEF Step, FindTarget, SaveRole, DeleteMember, FindNewOwner, Promote, Demote, SetOwner,
                    UpsertOwner, DemotePrevious, RevokeEarlier, CreateInvitation, Upsert,
                    SaveInvitation, SaveTrashed, SaveRestored, PurgeMembers, PurgeInvitations,
                    PurgeTimeline, DeleteMemberships, DeleteUser, Fail
    <2> QED
        BY <1>1, <2>1
<1>4. CASE (\E i \in Invitation : Expire(i)) \/ UNCHANGED vars
    BY <1>4 DEF Expire, vars
<1> QED
    BY <1>2, <1>3, <1>4 DEF Next

\* What is emptied stays so, and nobody but a purge empties.
LEMMA EmptiedStep ==
    ASSUME TypeOK, [Next]_vars, ~blind'
    PROVE  /\ Emptied => Emptied'
           /\ Emptied' => Emptied \/ \E r \in Request : PurgeMembers(r)
           /\ Swept' => Swept \/ \E r \in Request : PurgeInvitations(r)
           /\ timeline'.status = "active" => timeline.status = "active" \/ ~Emptied
<1>0. pc \in [Request -> Stages]
    BY DEF TypeOK
<1> DEFINE Late == {"purgeInvitations", "purgeTimeline"}
           Goal == /\ Emptied => Emptied'
                   /\ Emptied' => Emptied \/ \E r \in Request : PurgeMembers(r)
                   /\ Swept' => Swept \/ \E r \in Request : PurgeInvitations(r)
                   /\ timeline'.status = "active" => timeline.status = "active" \/ ~Emptied
<1>1. ASSUME NEW r \in Request, pc[r] \notin Late, NEW stage, stage \notin Late,
             pc' = [pc EXCEPT ![r] = stage],
             \/ timeline'.status = timeline.status
             \/ timeline'.status = "trashed" /\ timeline.status # "purged"
             \/ timeline'.status = "active" /\ timeline.status # "purged" /\ ~Others(r, Purges)
      PROVE  Goal
    BY <1>0, <1>1 DEF Emptied, Swept, Others, Purges
<1>2. ASSUME NEW r \in Request, Start(r) PROVE Goal
    <2>1. (\E stage \in Stages \ Late : \E k : Begin(r, stage, k)) /\ timeline' = timeline
        BY <1>2 DEF Start, StartChange, StartRemoval, StartTransfer, StartAdminTransfer, StartInvite,
                    StartRevoke, StartAccept, StartTrash, StartSuspend, StartRestore, StartAdminRestore,
                    StartBulk, StartPurge, StartNightlyPurge, StartDeleteAccount, Decide, Stages, Purges
    <2> QED
        BY <1>1, <2>1 DEF Begin
<1>3. ASSUME NEW r \in Request, Step(r) \/ Fail(r), pc[r] \notin Purges
      PROVE  \E stage \in Stages \ Purges : pc' = [pc EXCEPT ![r] = stage]
    <2>1. "idle" \in Stages \ Purges
        BY DEF Stages, Purges
    <2>2. ASSUME Step(r) PROVE (\E stage \in Stages \ Purges : Continue(r, stage)) \/ Answer(r)
        <3>1. CASE \/ FindTarget(r) \/ SaveRole(r) \/ DeleteMember(r) \/ FindNewOwner(r) \/ Promote(r)
                   \/ Demote(r) \/ SetOwner(r) \/ UpsertOwner(r) \/ DemotePrevious(r)
            BY <3>1 DEF FindTarget, SaveRole, DeleteMember, FindNewOwner, Promote, Demote, SetOwner,
                        UpsertOwner, DemotePrevious, Stages, Purges, Transfers
        <3>2. CASE \/ RevokeEarlier(r) \/ CreateInvitation(r) \/ Upsert(r) \/ SaveInvitation(r)
                   \/ SaveTrashed(r) \/ SaveRestored(r) \/ DeleteMemberships(r) \/ DeleteUser(r)
            BY <3>2 DEF RevokeEarlier, CreateInvitation, Upsert, SaveInvitation, SaveTrashed,
                        SaveRestored, DeleteMemberships, DeleteUser, Stages, Purges
        <3>3. CASE PurgeMembers(r) \/ PurgeInvitations(r) \/ PurgeTimeline(r)
            BY <1>3, <3>3 DEF PurgeMembers, PurgeInvitations, PurgeTimeline, Purges
        <3> QED
            BY <2>2, <3>1, <3>2, <3>3 DEF Step
    <2> QED
        BY <1>3, <2>1, <2>2 DEF Fail, Continue, Answer
<1>4. ASSUME NEW r \in Request, Step(r) \/ Fail(r), pc[r] \notin Purges PROVE Goal
    <2>1. CASE SetOwner(r)
        <3>1. timeline'.status = timeline.status
            BY <2>1 DEF SetOwner, TypeOK
        <3> QED
            BY <1>1, <1>3, <1>4, <3>1 DEF Purges
    <2>2. CASE SaveTrashed(r)
        <3>1. timeline'.status = timeline.status \/ (timeline'.status = "trashed" /\ timeline.status # "purged")
            BY <2>2 DEF SaveTrashed, TypeOK
        <3> QED
            BY <1>1, <1>3, <1>4, <3>1 DEF Purges
    <2>3. CASE SaveRestored(r)
        <3>1. timeline'.status = timeline.status \/ (timeline'.status = "active" /\ timeline.status # "purged")
            BY <2>3 DEF SaveRestored, TypeOK
        <3>2. ~Others(r, Purges)
            BY <2>3 DEF SaveRestored, Unless
        <3> QED
            BY <1>1, <1>3, <1>4, <3>1, <3>2 DEF Purges
    <2>4. CASE timeline' = timeline
        BY <1>1, <1>3, <1>4, <2>4 DEF Purges
    <2>5. \/ timeline' = timeline \/ SetOwner(r) \/ SaveTrashed(r) \/ SaveRestored(r)
        BY <1>4 DEF Step, FindTarget, SaveRole, DeleteMember, FindNewOwner, Promote, Demote,
                    UpsertOwner, DemotePrevious, RevokeEarlier, CreateInvitation, Upsert,
                    SaveInvitation, PurgeMembers, PurgeInvitations,
                    PurgeTimeline, DeleteMemberships, DeleteUser, Fail, Purges
    <2> QED
        BY <2>1, <2>2, <2>3, <2>4, <2>5
<1>5. ASSUME NEW r \in Request, PurgeMembers(r) PROVE Goal
    <2>1. /\ pc[r] = "purgeMembers" /\ pc' = [pc EXCEPT ![r] = "purgeInvitations"]
          /\ timeline' = timeline
        BY <1>5 DEF PurgeMembers, Continue
    <2> QED
        BY <1>0, <1>5, <2>1 DEF Emptied, Swept
<1>6. ASSUME NEW r \in Request, PurgeInvitations(r) PROVE Goal
    <2>1. /\ pc[r] = "purgeInvitations" /\ pc' = [pc EXCEPT ![r] = "purgeTimeline"]
          /\ timeline' = timeline
        BY <1>6 DEF PurgeInvitations, Continue
    <2> QED
        BY <1>0, <1>6, <2>1 DEF Emptied, Swept
<1>7. ASSUME NEW r \in Request, PurgeTimeline(r) PROVE Goal
    <2>1. pc[r] = "purgeTimeline" /\ timeline'.status = "purged"
        BY <1>7 DEF PurgeTimeline, TypeOK
    <2> QED
        BY <2>1 DEF Emptied, Swept
<1>8. ASSUME NEW r \in Request, pc[r] \in Purges, Step(r) \/ Fail(r)
      PROVE  PurgeMembers(r) \/ PurgeInvitations(r) \/ PurgeTimeline(r)
    <2>1. ASSUME Fail(r) PROVE FALSE
        BY <1>8, <2>1 DEF Fail, Unless, Halfway, Purges, Transfers
    <2>2. ASSUME Step(r) PROVE PurgeMembers(r) \/ PurgeInvitations(r) \/ PurgeTimeline(r)
        <3>1. CASE \/ FindTarget(r) \/ SaveRole(r) \/ DeleteMember(r) \/ FindNewOwner(r) \/ Promote(r)
                   \/ Demote(r) \/ SetOwner(r) \/ UpsertOwner(r) \/ DemotePrevious(r)
            BY <1>8, <3>1 DEF FindTarget, SaveRole, DeleteMember, FindNewOwner, Promote, Demote, SetOwner,
                        UpsertOwner, DemotePrevious, Purges
        <3>2. CASE \/ RevokeEarlier(r) \/ CreateInvitation(r) \/ Upsert(r) \/ SaveInvitation(r)
                   \/ SaveTrashed(r) \/ SaveRestored(r) \/ DeleteMemberships(r) \/ DeleteUser(r)
            BY <1>8, <3>2 DEF RevokeEarlier, CreateInvitation, Upsert, SaveInvitation, SaveTrashed,
                        SaveRestored, DeleteMemberships, DeleteUser, Purges
        <3> QED
            BY <2>2, <3>1, <3>2 DEF Step
    <2> QED
        BY <1>8, <2>1, <2>2
<1>9. ASSUME (\E i \in Invitation : Expire(i)) \/ UNCHANGED vars PROVE Goal
    <2>1. timeline' = timeline /\ pc' = pc
        BY <1>9 DEF Expire, vars
    <2> QED
        BY <2>1 DEF Emptied, Swept
<1> HIDE DEF Goal
<1>10. Goal
    BY <1>2, <1>4, <1>5, <1>6, <1>7, <1>8, <1>9 DEF Next
<1> QED
    BY <1>10 DEF Goal

\* Whatever a sighted handler writes, an owner is left, and has an account.
LEMMA RoleStep ==
    ASSUME TypeOK, KnowsInv, OwnersInv, ~blind, ~blind', NEW r \in Request,
           Start(r) \/ Step(r) \/ Fail(r), ~PurgeMembers(r)
    PROVE  /\ \A u \in User : role'[u] = "owner" => u \in account'
           /\ Emptied => \A u \in User : role'[u] = "none"
           /\ ~Emptied => \E u \in User : role'[u] = "owner"
<1> DEFINE Goal == /\ \A u \in User : role'[u] = "owner" => u \in account'
                   /\ Emptied => \A u \in User : role'[u] = "none"
                   /\ ~Emptied => \E u \in User : role'[u] = "owner"
<1>0. role \in [User -> AnyRole] /\ account \subseteq User /\ pc \in [Request -> Stages]
    BY DEF TypeOK, AnyRole
<1>1. /\ \A u \in User : role[u] = "owner" => u \in account
      /\ Emptied => \A u \in User : role[u] = "none"
      /\ ~Emptied => \E u \in User : role[u] = "owner"
    BY DEF OwnersInv, Owners
<1>2. ASSUME role' = role, account' = account PROVE Goal
    BY <1>1, <1>2
<1>3. ASSUME ~Emptied, account' = account, NEW v \in User, NEW x, x # "owner",
             role' = [role EXCEPT ![v] = x],
             role[v] # "owner" \/ \E w \in User \ {v} : role[w] = "owner"
      PROVE  Goal
    BY <1>0, <1>1, <1>3
<1>4. ASSUME ~Emptied, account' = account, NEW v \in account, role' = [role EXCEPT ![v] = "owner"]
      PROVE  Goal
    BY <1>0, <1>1, <1>4
<1>5. ASSUME account' = account, NEW us, \A u \in us \cap User : role[u] # "owner", Delete(r, us)
      PROVE  Goal
    BY <1>0, <1>1, <1>5 DEF Delete
<1>6. ASSUME NEW stage \in Stages \ {"purgeInvitations", "purgeTimeline"}, pc[r] = stage,
             timeline.status # "purged", ~Others(r, Purges)
      PROVE  ~Emptied
    BY <1>6 DEF Emptied, Others, Purges
<1>7. ASSUME StillMine(r), pc[r] \in {"promote", "upsertOwner"} PROVE ~Emptied /\ task[r].target \in account
    BY <1>7 DEF StillMine, Emptied, Others, Purges
<1>8. ASSUME NEW known, Unless(known) PROVE known
    BY <1>8 DEF Unless
<1>9. CASE Start(r)
    BY <1>2, <1>9 DEF Start, StartChange, StartRemoval, StartTransfer, StartAdminTransfer, StartInvite,
                StartRevoke, StartAccept, StartTrash, StartSuspend, StartRestore, StartAdminRestore,
                StartBulk, StartPurge, StartNightlyPurge, StartDeleteAccount, Decide
<1>10. CASE Fail(r)
    BY <1>2, <1>10 DEF Fail
<1>11. CASE Step(r)
    <2>1. CASE SaveRole(r)
        <3>1. /\ task[r].target \in User /\ loaded[r][task[r].target] # "owner"
              /\ Save(r, task[r].target, task[r].role) /\ KnowsRole(r, task[r].target)
              /\ account' = account
            BY <1>8, <2>1 DEF SaveRole, KnowsInv, Knows
        <3>2. task[r].role \in Given
            BY DEF TypeOK
        <3>3. CASE loaded[r][task[r].target] \in {"none", task[r].role}
            BY <1>2, <3>1, <3>3 DEF Save
        <3>4. CASE loaded[r][task[r].target] \notin {"none", task[r].role}
            <4>1. role' = [role EXCEPT ![task[r].target] = task[r].role]
                BY <3>1, <3>4 DEF Save
            <4>2. role[task[r].target] \notin {"none", "owner"}
                BY <3>1, <3>4 DEF KnowsRole, KnowsInv
            <4>3. ~Emptied
                BY <1>1, <3>1, <4>2
            <4> QED
                BY <1>3, <3>1, <3>2, <4>1, <4>2, <4>3 DEF Given
        <3> QED
            BY <3>3, <3>4
    <2>2. CASE DeleteMember(r)
        <3>1. /\ loaded[r][task[r].target] # "owner" /\ KnowsRole(r, task[r].target) /\ account' = account
              /\ Delete(r, {u \in User : u = task[r].target /\ loaded[r][u] # "none"})
            BY <1>8, <2>2 DEF DeleteMember, KnowsInv, Knows
        <3> QED
            BY <1>5, <3>1 DEF KnowsRole
    <2>3. CASE Promote(r)
        <3>1. account' = account /\ Save(r, task[r].target, "owner")
            BY <2>3 DEF Promote
        <3>2. CASE role' = role
            BY <1>2, <3>1, <3>2
        <3>3. CASE role' # role
            <4>1. loaded[r][task[r].target] # "none" /\ role' = [role EXCEPT ![task[r].target] = "owner"]
                BY <3>1, <3>3 DEF Save
            <4>2. StillMine(r) /\ pc[r] = "promote"
                BY <1>8, <2>3, <4>1 DEF Promote
            <4> QED
                BY <1>4, <1>7, <3>1, <4>1, <4>2
        <3> QED
            BY <3>2, <3>3
    <2>4. CASE Demote(r)
        <3>1. /\ account' = account /\ Save(r, task[r].actor, "admin")
              /\ task[r].actor # task[r].target /\ task[r].target \in User
            BY <2>4 DEF Demote, KnowsInv, Knows
        <3>2. CASE role' = role
            BY <1>2, <3>1, <3>2
        <3>3. CASE role' # role
            <4>1. loaded[r][task[r].actor] # "none" /\ role' = [role EXCEPT ![task[r].actor] = "admin"]
                BY <3>1, <3>3 DEF Save
            <4>2. role[task[r].target] = "owner"
                BY <1>8, <2>4, <4>1 DEF Demote
            <4>3. ~Emptied
                BY <1>1, <3>1, <4>2
            <4>4. task[r].actor \in User
                BY <1>0, <3>3, <4>1
            <4> QED
                BY <1>3, <3>1, <4>1, <4>2, <4>3, <4>4
        <3> QED
            BY <3>2, <3>3
    <2>5. CASE UpsertOwner(r)
        <3>1. /\ account' = account /\ role' = [role EXCEPT ![task[r].target] = "owner"]
              /\ StillMine(r) /\ pc[r] = "upsertOwner"
            BY <1>8, <2>5 DEF UpsertOwner
        <3> QED
            BY <1>4, <1>7, <3>1
    <2>6. CASE DemotePrevious(r)
        <3>1. /\ account' = account /\ role[task[r].target] = "owner"
              /\ task[r].owner # task[r].target /\ task[r].target \in User
            BY <1>8, <2>6 DEF DemotePrevious, KnowsInv, Knows
        <3>2. CASE role' = role
            BY <1>2, <3>1, <3>2
        <3>3. CASE role' # role
            <4>1. role' = [role EXCEPT ![task[r].owner] = "admin"]
                BY <2>6, <3>3 DEF DemotePrevious
            <4>2. task[r].owner \in User
                BY <1>0, <3>3, <4>1
            <4>3. ~Emptied
                BY <1>1, <3>1
            <4> QED
                BY <1>3, <3>1, <4>1, <4>2, <4>3
        <3> QED
            BY <3>2, <3>3
    <2>7. CASE Upsert(r)
        <3>1. /\ account' = account /\ role' = [role EXCEPT ![task[r].target] = task[r].role]
              /\ role[task[r].target] # "owner" /\ task[r].target \in account
              /\ timeline.status # "purged" /\ ~Others(r, Purges) /\ pc[r] = "upsert"
            BY <1>8, <2>7 DEF Upsert
        <3>2. task[r].role \in Given
            BY DEF TypeOK
        <3>3. ~Emptied
            BY <1>6, <3>1 DEF Stages
        <3> QED
            BY <1>0, <1>3, <3>1, <3>2, <3>3 DEF Given
    <2>8. CASE DeleteMemberships(r)
        <3>1. Delete(r, {task[r].target}) /\ role[task[r].target] # "owner" /\ account' = account
            BY <1>8, <2>8 DEF DeleteMemberships
        <3> QED
            BY <1>5, <3>1
    <2>9. CASE DeleteUser(r)
        <3>1. account' = account \ {task[r].target} /\ role[task[r].target] # "owner" /\ role' = role
            BY <1>8, <2>9 DEF DeleteUser
        <3> QED
            BY <1>1, <3>1
    <2>10. CASE \/ FindTarget(r) \/ FindNewOwner(r) \/ SetOwner(r) \/ RevokeEarlier(r) \/ CreateInvitation(r)
                \/ SaveInvitation(r) \/ SaveTrashed(r) \/ SaveRestored(r) \/ PurgeInvitations(r)
                \/ PurgeTimeline(r)
        BY <1>2, <2>10 DEF FindTarget, FindNewOwner, SetOwner, RevokeEarlier, CreateInvitation,
                           SaveInvitation, SaveTrashed, SaveRestored, PurgeInvitations, PurgeTimeline
    <2> QED
        BY <1>11, <2>1, <2>2, <2>3, <2>4, <2>5, <2>6, <2>7, <2>8, <2>9, <2>10 DEF Step
<1> QED
    BY <1>9, <1>10, <1>11

\* Once a purge has swept the invitations away, none comes back.
LEMMA SweptStep ==
    ASSUME TypeOK, KnowsInv, OwnersInv, ~blind, ~blind', [Next]_vars, Swept', NEW i \in Invitation
    PROVE  invitation'[i].status \in {"unsent", "gone"}
<1>0. invitation \in [Invitation -> Invitations] /\ pc \in [Request -> Stages]
    BY DEF TypeOK, Invitations
<1>1. ASSUME NEW r \in Request, PurgeInvitations(r) PROVE invitation'[i].status \in {"unsent", "gone"}
    BY <1>1 DEF PurgeInvitations
<1>2. ASSUME Swept PROVE invitation'[i].status \in {"unsent", "gone"}
    <2>1. \A j \in Invitation : invitation[j].status \in {"unsent", "gone"}
        BY <1>2 DEF OwnersInv
    <2>2. ASSUME invitation' = invitation PROVE invitation'[i].status \in {"unsent", "gone"}
        BY <2>1, <2>2
    <2>3. ASSUME NEW r \in Request, Start(r) \/ Step(r) \/ Fail(r)
          PROVE  invitation'[i].status \in {"unsent", "gone"}
        <3>1. CASE RevokeEarlier(r)
            BY <2>1, <3>1 DEF RevokeEarlier, Pending
        <3>2. CASE CreateInvitation(r)
            <4>1. timeline.status # "purged" /\ ~Others(r, Purges) /\ pc[r] = "createInvitation"
                BY <3>2 DEF CreateInvitation, Unless
            <4> QED
                BY <1>2, <4>1 DEF Swept, Others, Purges
        <3>3. CASE SaveInvitation(r)
            <4>1. invitation[task[r].invitation].status = "gone"
                BY <2>1, <3>3 DEF SaveInvitation, KnowsInv, Knows
            <4>2. invitation' = invitation
                BY <3>3, <4>1 DEF SaveInvitation
            <4> QED
                BY <2>2, <4>2
        <3>4. CASE PurgeInvitations(r)
            BY <1>1, <3>4
        <3>5. CASE Start(r) \/ Fail(r)
            <4>1. invitation' = invitation
                BY <3>5 DEF Start, StartChange, StartRemoval, StartTransfer, StartAdminTransfer, StartInvite,
                    StartRevoke, StartAccept, StartTrash, StartSuspend, StartRestore, StartAdminRestore,
                    StartBulk, StartPurge, StartNightlyPurge, StartDeleteAccount, Decide, Fail
            <4> QED
                BY <2>2, <4>1
        <3>6. CASE \/ FindTarget(r) \/ SaveRole(r) \/ DeleteMember(r) \/ FindNewOwner(r) \/ Promote(r)
                   \/ Demote(r) \/ SetOwner(r) \/ UpsertOwner(r) \/ DemotePrevious(r) \/ Upsert(r)
                   \/ SaveTrashed(r) \/ SaveRestored(r) \/ PurgeMembers(r) \/ PurgeTimeline(r)
                   \/ DeleteMemberships(r) \/ DeleteUser(r)
            <4>1. invitation' = invitation
                BY <3>6 DEF FindTarget, SaveRole, DeleteMember, FindNewOwner, Promote, Demote, SetOwner,
                        UpsertOwner, DemotePrevious, Upsert, SaveTrashed, SaveRestored, PurgeMembers,
                        PurgeTimeline, DeleteMemberships, DeleteUser
            <4> QED
                BY <2>2, <4>1
        <3> QED
            BY <2>3, <3>1, <3>2, <3>3, <3>4, <3>5, <3>6 DEF Step
    <2>4. ASSUME NEW j \in Invitation, Expire(j) PROVE invitation'[i].status \in {"unsent", "gone"}
        BY <1>0, <2>1, <2>4 DEF Expire
    <2>5. CASE UNCHANGED vars
        BY <2>2, <2>5 DEF vars
    <2> QED
        BY <2>3, <2>4, <2>5 DEF Next
<1> QED
    BY <1>1, <1>2, EmptiedStep

LEMMA OwnersStep == TypeOK /\ KnowsInv /\ OwnersInv /\ [Next]_vars => OwnersInv'
<1> SUFFICES ASSUME TypeOK, KnowsInv, OwnersInv, [Next]_vars, ~blind'
             PROVE  /\ \A u \in User : role'[u] = "owner" => u \in account'
                    /\ ~Emptied' => \E u \in User : role'[u] = "owner"
                    /\ Emptied' => timeline'.status # "active" /\ \A u \in User : role'[u] = "none"
                    /\ Swept' => \A i \in Invitation : invitation'[i].status \in {"unsent", "gone"}
    BY DEF OwnersInv, Owners
<1>1. ~blind
    BY Sight
<1>2. Swept' => \A i \in Invitation : invitation'[i].status \in {"unsent", "gone"}
    BY <1>1, SweptStep
<1>3. CASE \E r \in Request : PurgeMembers(r)
    <2>1. PICK r \in Request : PurgeMembers(r)
        BY <1>3
    <2>2. pc[r] = "purgeMembers" /\ pc' = [pc EXCEPT ![r] = "purgeInvitations"]
        BY <2>1 DEF PurgeMembers, Continue
    <2>3. timeline.status # "active" /\ timeline' = timeline
        BY <2>1 DEF PurgeMembers, Unless
    <2>4. \A u \in User : role'[u] = "none"
        BY <2>1 DEF PurgeMembers, Delete
    <2>5. Emptied'
        BY <2>2 DEF Emptied, TypeOK
    <2> QED
        BY <1>2, <2>3, <2>4, <2>5
<1>4. CASE \A r \in Request : ~PurgeMembers(r)
    <2>1. /\ \A u \in User : role'[u] = "owner" => u \in account'
          /\ Emptied => \A u \in User : role'[u] = "none"
          /\ ~Emptied => \E u \in User : role'[u] = "owner"
        <3>1. CASE \E r \in Request : Start(r) \/ Step(r) \/ Fail(r)
            BY <1>1, <1>4, <3>1, RoleStep
        <3>2. CASE (\E i \in Invitation : Expire(i)) \/ UNCHANGED vars
            <4>1. role' = role /\ account' = account
                BY <3>2 DEF Expire, vars
            <4> QED
                BY <1>1, <4>1 DEF OwnersInv, Owners
        <3> QED
            BY <3>1, <3>2 DEF Next
    <2>2. (Emptied => Emptied') /\ (Emptied' => Emptied)
        BY <1>4, EmptiedStep
    <2>3. Emptied => timeline'.status # "active"
        BY <1>1, EmptiedStep DEF OwnersInv
    <2> QED
        BY <1>2, <2>1, <2>2, <2>3
<1> QED
    BY <1>3, <1>4

-----------------------------------------------------------------------------
(* An invitation admits once                                               *)

\* An invitation that is being sent is nobody else's business yet.
ReservedInv ==
    \A r \in Request :
        pc[r] \in {"revokeEarlier", "createInvitation"} =>
            /\ task[r].invitation \in Invitation
            /\ invitation[task[r].invitation].status = "unsent"
            /\ \A q \in Request \ {r} : task[q].invitation # task[r].invitation

\* An invitation that admits nobody any more, and one that is about to become that.
Closed == {"accepted", "revoked", "gone"}
Settled(i) ==
    \/ invitation[i].status \in Closed
    \/ \E r \in Request : pc[r] = "saveAccepted" /\ task[r].invitation = i

\* Whatever has admitted somebody is settled.
AdmitInv ==
    ~blind /\ ~broken =>
        \A i \in Invitation : admissions[i] # 0 => admissions[i] = 1 /\ Settled(i)

\* The handlers that write invitations.
LEMMA InvitationWriters ==
    ASSUME [Next]_vars
    PROVE  \/ invitation' = invitation
           \/ \E r \in Request : \/ RevokeEarlier(r) \/ CreateInvitation(r) \/ SaveInvitation(r)
                                 \/ PurgeInvitations(r)
           \/ \E i \in Invitation : Expire(i)
<1>1. ASSUME NEW r \in Request, Start(r) \/ Fail(r) PROVE invitation' = invitation
    BY <1>1 DEF Start, StartChange, StartRemoval, StartTransfer, StartAdminTransfer, StartInvite,
                StartRevoke, StartAccept, StartTrash, StartSuspend, StartRestore, StartAdminRestore,
                StartBulk, StartPurge, StartNightlyPurge, StartDeleteAccount, Decide, Fail
<1>2. ASSUME NEW r \in Request, Step(r)
      PROVE  \/ invitation' = invitation
             \/ RevokeEarlier(r) \/ CreateInvitation(r) \/ SaveInvitation(r) \/ PurgeInvitations(r)
    BY <1>2 DEF Step, FindTarget, SaveRole, DeleteMember, FindNewOwner, Promote, Demote, SetOwner,
                UpsertOwner, DemotePrevious, Upsert, SaveTrashed, SaveRestored, PurgeMembers,
                PurgeTimeline, DeleteMemberships, DeleteUser
<1> QED
    BY <1>1, <1>2 DEF Next, vars

\* What each of them does to the status of one invitation.
LEMMA StatusStep ==
    ASSUME TypeOK, KnowsInv, [Next]_vars, NEW i \in Invitation
    PROVE  \/ invitation'[i].status = invitation[i].status
           \/ invitation[i].status # "unsent" /\ invitation'[i].status \in Closed
           \/ /\ invitation'[i].status = "pending"
              /\ \E r \in Request : CreateInvitation(r) /\ task[r].invitation = i
<1>0. invitation \in [Invitation -> Invitations]
    BY DEF TypeOK, Invitations
<1>1. ASSUME NEW x, NEW j \in Invitation PROVE [invitation[j] EXCEPT !.status = x].status = x
    BY <1>0 DEF Invitations
<1>2. CASE invitation' = invitation
    BY <1>2
<1>3. ASSUME NEW r \in Request, RevokeEarlier(r)
      PROVE  \/ invitation'[i] = invitation[i]
             \/ invitation[i].status = "pending" /\ invitation'[i].status = "revoked"
    BY <1>1, <1>3 DEF RevokeEarlier, Pending
<1>4. ASSUME NEW r \in Request, CreateInvitation(r)
      PROVE  \/ invitation'[i] = invitation[i]
             \/ invitation'[i].status = "pending" /\ task[r].invitation = i
    BY <1>0, <1>4 DEF CreateInvitation
<1>5. ASSUME NEW r \in Request, SaveInvitation(r)
      PROVE  \/ invitation'[i] = invitation[i]
             \/ invitation[i].status # "unsent" /\ invitation'[i].status \in {"accepted", "revoked"}
    <2>1. \/ invitation' = invitation
          \/ \E x \in {"accepted", "revoked"} :
                 invitation' = [invitation EXCEPT ![task[r].invitation] =
                                   [invitation[task[r].invitation] EXCEPT !.status = x]]
        BY <1>5 DEF SaveInvitation
    <2>2. invitation[task[r].invitation].status # "unsent" /\ task[r].invitation \in Invitation
        BY <1>5 DEF SaveInvitation, KnowsInv, Knows
    <2>3. ASSUME NEW x \in {"accepted", "revoked"},
                 invitation' = [invitation EXCEPT ![task[r].invitation] =
                                   [invitation[task[r].invitation] EXCEPT !.status = x]]
          PROVE  invitation'[i] = invitation[i] \/ (task[r].invitation = i /\ invitation'[i].status = x)
        <3>1. CASE task[r].invitation = i
            <4>1. invitation'[i] = [invitation[i] EXCEPT !.status = x]
                BY <1>0, <2>3, <3>1
            <4> QED
                BY <1>1, <3>1, <4>1
        <3>2. CASE task[r].invitation # i
            BY <1>0, <2>3, <3>2
        <3> QED
            BY <3>1, <3>2
    <2> QED
        BY <2>1, <2>2, <2>3
<1>6. ASSUME NEW r \in Request, PurgeInvitations(r)
      PROVE  \/ invitation'[i] = invitation[i]
             \/ invitation[i].status # "unsent" /\ invitation'[i].status = "gone"
    BY <1>6 DEF PurgeInvitations
<1>7. ASSUME NEW j \in Invitation, Expire(j)
      PROVE  \/ invitation'[i] = invitation[i]
             \/ invitation[i].status # "unsent" /\ invitation'[i].status = "gone"
    BY <1>0, <1>7 DEF Expire
<1> QED
    BY <1>2, <1>3, <1>4, <1>5, <1>6, <1>7, InvitationWriters DEF Closed

\* Which invitation a request is about after its next step.
LEMMA TaskStep ==
    ASSUME TypeOK, NEW q \in Request, Start(q) \/ Step(q) \/ Fail(q)
    PROVE  \/ task'[q].invitation = task[q].invitation
           \/ task'[q].invitation = Nobody
           \/ /\ task'[q].invitation \in Invitation
              /\ invitation[task'[q].invitation].status # "unsent"
           \/ /\ StartInvite(q) /\ pc'[q] = "revokeEarlier" /\ task'[q].invitation \in Invitation
              /\ invitation[task'[q].invitation].status = "unsent"
              /\ \A r \in Request : task[r].invitation # task'[q].invitation
<1>0. pc \in [Request -> Stages] /\ DOMAIN task = Request
    BY DEF TypeOK
<1>1. ASSUME NEW stage, NEW k, Begin(q, stage, k) PROVE task'[q] = k /\ pc'[q] = stage
    BY <1>0, <1>1 DEF Begin
<1>2. CASE Step(q) \/ Fail(q)
    <2>1. (\E stage : Continue(q, stage)) \/ Answer(q)
        BY <1>2 DEF Step, FindTarget, SaveRole, DeleteMember, FindNewOwner, Promote, Demote, SetOwner,
                    UpsertOwner, DemotePrevious, RevokeEarlier, CreateInvitation, Upsert,
                    SaveInvitation, SaveTrashed, SaveRestored, PurgeMembers, PurgeInvitations,
                    PurgeTimeline, DeleteMemberships, DeleteUser, Fail
    <2>2. CASE Answer(q)
        BY <1>0, <2>2 DEF Answer, NoTask
    <2>3. CASE \E stage : Continue(q, stage)
        BY <2>3 DEF Continue
    <2> QED
        BY <2>1, <2>2, <2>3
<1>3. CASE StartInvite(q)
    <2>1. PICK i \in Invitation, x \in Assignable :
             /\ invitation[i].status = "unsent" /\ \A r \in Request : task[r].invitation # i
             /\ Begin(q, "revokeEarlier", [NoTask EXCEPT !.invitation = i, !.role = x])
        BY <1>3 DEF StartInvite
    <2>2. pc'[q] = "revokeEarlier" /\ task'[q] = [NoTask EXCEPT !.invitation = i, !.role = x]
        BY <1>1, <2>1
    <2>3. task'[q].invitation = i
        BY <2>2 DEF NoTask
    <2> QED
        BY <1>3, <2>1, <2>2, <2>3
<1>4. CASE StartRevoke(q)
    <2>1. PICK i \in Invitation : /\ invitation[i].status \in {"pending", "accepted"}
                                  /\ Begin(q, "saveRevoked", [NoTask EXCEPT !.invitation = i])
        BY <1>4 DEF StartRevoke
    <2>2. task'[q] = [NoTask EXCEPT !.invitation = i]
        BY <1>1, <2>1
    <2>3. task'[q].invitation = i
        BY <2>2 DEF NoTask
    <2> QED
        BY <2>1, <2>3
<1>5. CASE StartAccept(q)
    <2>1. PICK i \in Invitation : /\ invitation[i].status = "pending"
                                  /\ Begin(q, "upsert", [NoTask EXCEPT !.invitation = i, !.target = Invitee[i],
                                                                       !.role = invitation[i].role])
        BY <1>5 DEF StartAccept, Pending
    <2>2. task'[q] = [NoTask EXCEPT !.invitation = i, !.target = Invitee[i], !.role = invitation[i].role]
        BY <1>1, <2>1
    <2>3. task'[q].invitation = i
        BY <2>2 DEF NoTask
    <2> QED
        BY <2>1, <2>3
<1>6. CASE StartChange(q)
    <2>1. PICK v, x : Begin(q, "findForChange", [NoTask EXCEPT !.target = v, !.role = x])
        BY <1>6 DEF StartChange
    <2>2. task'[q] = [NoTask EXCEPT !.target = v, !.role = x]
        BY <1>1, <2>1
    <2> QED
        BY <2>2 DEF NoTask
<1>7. CASE StartRemoval(q)
    <2>1. PICK v : Begin(q, "findForRemoval", [NoTask EXCEPT !.target = v])
        BY <1>7 DEF StartRemoval
    <2>2. task'[q] = [NoTask EXCEPT !.target = v]
        BY <1>1, <2>1
    <2> QED
        BY <2>2 DEF NoTask
<1>8. CASE StartTransfer(q)
    <2>1. PICK u, v : Begin(q, "findForTransfer",
                            [NoTask EXCEPT !.actor = u, !.target = v, !.owner = timeline.ownerId])
        BY <1>8 DEF StartTransfer
    <2>2. task'[q] = [NoTask EXCEPT !.actor = u, !.target = v, !.owner = timeline.ownerId]
        BY <1>1, <2>1
    <2> QED
        BY <2>2 DEF NoTask
<1>9. CASE StartAdminTransfer(q)
    <2>1. PICK v : Begin(q, "upsertOwner", [NoTask EXCEPT !.target = v, !.owner = timeline.ownerId])
        BY <1>9 DEF StartAdminTransfer
    <2>2. task'[q] = [NoTask EXCEPT !.target = v, !.owner = timeline.ownerId]
        BY <1>1, <2>1
    <2> QED
        BY <2>2 DEF NoTask
<1>10. CASE StartDeleteAccount(q)
    <2>1. PICK u : Begin(q, "deleteMemberships", [NoTask EXCEPT !.target = u])
        BY <1>10 DEF StartDeleteAccount
    <2>2. task'[q] = [NoTask EXCEPT !.target = u]
        BY <1>1, <2>1
    <2> QED
        BY <2>2 DEF NoTask
<1>11. CASE \/ StartTrash(q) \/ StartSuspend(q) \/ StartRestore(q) \/ StartAdminRestore(q)
            \/ StartBulk(q) \/ StartPurge(q) \/ StartNightlyPurge(q)
    <2>1. PICK stage : Begin(q, stage, NoTask)
        BY <1>11 DEF StartTrash, StartSuspend, StartRestore, StartAdminRestore, StartBulk, StartPurge,
                     StartNightlyPurge, Decide
    <2> QED
        BY <1>1, <2>1 DEF NoTask
<1> QED
    BY <1>2, <1>3, <1>4, <1>5, <1>6, <1>7, <1>8, <1>9, <1>10, <1>11 DEF Start

\* Nobody else reserves, revokes or accepts an invitation that is being sent.
LEMMA ReservedStep == TypeOK /\ KnowsInv /\ ReservedInv /\ [Next]_vars => ReservedInv'
<1> SUFFICES ASSUME TypeOK, KnowsInv, ReservedInv, [Next]_vars,
                    NEW r \in Request, pc'[r] \in {"revokeEarlier", "createInvitation"}
             PROVE  /\ task'[r].invitation \in Invitation
                    /\ invitation'[task'[r].invitation].status = "unsent"
                    /\ \A q \in Request \ {r} : task'[q].invitation # task'[r].invitation
    BY DEF ReservedInv
<1> DEFINE i == task'[r].invitation
<1>0. pc \in [Request -> Stages] /\ DOMAIN task = Request
    BY DEF TypeOK
<1>1. CASE StartInvite(r)
    <2>1. /\ i \in Invitation /\ invitation[i].status = "unsent"
          /\ \A q \in Request : task[q].invitation # i
        <3>1. PICK j \in Invitation, x \in Assignable :
                 /\ invitation[j].status = "unsent" /\ \A q \in Request : task[q].invitation # j
                 /\ Begin(r, "revokeEarlier", [NoTask EXCEPT !.invitation = j, !.role = x])
            BY <1>1 DEF StartInvite
        <3>2. task'[r] = [NoTask EXCEPT !.invitation = j, !.role = x]
            BY <1>0, <3>1 DEF Begin
        <3>3. i = j
            BY <3>2 DEF NoTask
        <3> QED
            BY <3>1, <3>3
    <2>2. invitation' = invitation
        BY <1>1 DEF StartInvite
    <2>3. \A q \in Request \ {r} : task'[q] = task[q]
        BY <1>1, OthersWait DEF Start
    <2> QED
        BY <2>1, <2>2, <2>3
<1>2. CASE RevokeEarlier(r)
    <2>1. pc[r] = "revokeEarlier" /\ task' = task
        BY <1>2 DEF RevokeEarlier, Continue
    <2>2. /\ i \in Invitation /\ invitation[i].status = "unsent"
          /\ \A q \in Request \ {r} : task'[q].invitation # i
        BY <2>1 DEF ReservedInv
    <2>3. invitation'[i].status = "unsent"
        BY <1>2, <2>2 DEF RevokeEarlier, Pending
    <2> QED
        BY <2>2, <2>3
<1>3. CASE (Start(r) /\ ~StartInvite(r)) \/ (Step(r) /\ ~RevokeEarlier(r)) \/ Fail(r)
    <2>1. ASSUME NEW stage, pc' = [pc EXCEPT ![r] = stage] PROVE stage \in {"revokeEarlier", "createInvitation"}
        BY <1>0, <2>1
    <2>2. CASE Start(r) /\ ~StartInvite(r)
        BY <2>1, <2>2 DEF Start, StartChange, StartRemoval, StartTransfer, StartAdminTransfer,
                    StartRevoke, StartAccept, StartTrash, StartSuspend, StartRestore, StartAdminRestore,
                    StartBulk, StartPurge, StartNightlyPurge, StartDeleteAccount, Decide, Begin
    <2>3. CASE Step(r) /\ ~RevokeEarlier(r)
        <3>1. CASE FindTarget(r)
            <4>1. \E stage \in {"idle", "saveRole", "deleteMember"} : pc' = [pc EXCEPT ![r] = stage]
                BY <3>1 DEF FindTarget, Answer, Continue
            <4> QED
                BY <2>1, <4>1
        <3>2. CASE Step(r) /\ ~RevokeEarlier(r) /\ ~FindTarget(r)
            <4>1. \E stage \in Stages \ {"revokeEarlier", "createInvitation"} :
                     pc' = [pc EXCEPT ![r] = stage]
                BY <3>2 DEF Step, SaveRole, DeleteMember, FindNewOwner, Promote, Demote,
                    SetOwner, UpsertOwner, DemotePrevious, CreateInvitation, Upsert,
                    SaveInvitation, SaveTrashed, SaveRestored, PurgeMembers, PurgeInvitations,
                    PurgeTimeline, DeleteMemberships, DeleteUser, Answer, Continue, Stages,
                    Transfers, Purges
            <4> QED
                BY <2>1, <4>1
        <3> QED
            BY <2>3, <3>1, <3>2
    <2>4. CASE Fail(r)
        BY <2>1, <2>4 DEF Fail, Answer
    <2> QED
        BY <1>3, <2>2, <2>3, <2>4
<1>4. ASSUME pc'[r] = pc[r], task'[r] = task[r],
             \A q \in Request \ {r} : task'[q].invitation # i,
             \A q \in Request \ {r} : CreateInvitation(q) => task[q].invitation # i,
             ~CreateInvitation(r)
      PROVE  /\ i \in Invitation
             /\ invitation'[i].status = "unsent"
             /\ \A q \in Request \ {r} : task'[q].invitation # i
    <2>1. i \in Invitation /\ invitation[i].status = "unsent"
        BY <1>4 DEF ReservedInv
    <2>2. ASSUME NEW q \in Request, CreateInvitation(q), task[q].invitation = i PROVE FALSE
        BY <1>4, <2>2
    <2> HIDE DEF i
    <2>3. invitation'[i].status = "unsent"
        BY <2>1, <2>2, StatusStep
    <2> QED
        BY <1>4, <2>1, <2>3
<1>5. ASSUME NEW q \in Request \ {r}, Start(q) \/ Step(q) \/ Fail(q)
      PROVE  /\ i \in Invitation
             /\ invitation'[i].status = "unsent"
             /\ \A s \in Request \ {r} : task'[s].invitation # i
    <2>1. pc'[r] = pc[r] /\ task'[r] = task[r] /\ \A s \in Request \ {q} : task'[s] = task[s]
        BY <1>5, OthersWait
    <2>2. /\ i \in Invitation /\ invitation[i].status = "unsent"
          /\ \A s \in Request \ {r} : task[s].invitation # i
        BY <2>1 DEF ReservedInv
    <2>3. task'[q].invitation # i
        <3>1. i # Nobody
            BY <2>2, ConstantsAssumption DEF Nobody
        <3>2. task[r].invitation = i
            BY <2>1
        <3> QED
            BY <1>5, <2>2, <3>1, <3>2, TaskStep
    <2>4. \A s \in Request \ {r} : task'[s].invitation # i
        BY <2>1, <2>2, <2>3
    <2>5. ~CreateInvitation(r)
        BY <1>0, <2>1, <1>5 DEF CreateInvitation, Answer
    <2> QED
        BY <1>4, <2>1, <2>2, <2>4, <2>5
<1>6. CASE (\E j \in Invitation : Expire(j)) \/ UNCHANGED vars
    <2>1. pc' = pc /\ task' = task
        BY <1>6 DEF Expire, vars
    <2>2. \A s \in Request \ {r} : task'[s].invitation # i
        BY <2>1 DEF ReservedInv
    <2>3. \A q \in Request : ~CreateInvitation(q)
        BY <1>0, <2>1 DEF CreateInvitation, Answer
    <2> QED
        BY <1>4, <2>1, <2>2, <2>3
<1> QED
    BY <1>1, <1>2, <1>3, <1>5, <1>6 DEF Next

\* What is cut in half stays so.
LEMMA Whole ==
    ASSUME TypeOK, [Next]_vars, ~broken'
    PROVE  ~broken
<1>1. ASSUME NEW r \in Request, Start(r) \/ Step(r) PROVE broken' = broken \/ broken'
    <2>1. CASE Start(r)
        BY <2>1 DEF Start, StartChange, StartRemoval, StartTransfer, StartAdminTransfer, StartInvite,
                    StartRevoke, StartAccept, StartTrash, StartSuspend, StartRestore, StartAdminRestore,
                    StartBulk, StartPurge, StartNightlyPurge, StartDeleteAccount, Decide, ghosts
    <2>2. CASE Demote(r)
        BY <2>2 DEF Demote
    <2>3. CASE Step(r) /\ ~Demote(r)
        BY <2>3 DEF Step, FindTarget, SaveRole, DeleteMember, FindNewOwner, Promote, SetOwner,
                    UpsertOwner, DemotePrevious, RevokeEarlier, CreateInvitation, Upsert,
                    SaveInvitation, SaveTrashed, SaveRestored, PurgeMembers, PurgeInvitations,
                    PurgeTimeline, DeleteMemberships, DeleteUser, ghosts
    <2> QED
        BY <1>1, <2>1, <2>2, <2>3
<1>2. ASSUME NEW r \in Request, Fail(r) PROVE ~broken
    BY <1>2 DEF Fail
<1>3. CASE (\E i \in Invitation : Expire(i)) \/ UNCHANGED vars
    BY <1>3 DEF Expire, vars, ghosts
<1> QED
    BY <1>1, <1>2, <1>3 DEF Next

\* An invitation that was settled stays so, unless its acceptance is cut in half.
LEMMA SettledStep ==
    ASSUME TypeOK, KnowsInv, ReservedInv, [Next]_vars, ~broken', NEW i \in Invitation, Settled(i)
    PROVE  Settled(i)'
<1>0. /\ pc \in [Request -> Stages] /\ DOMAIN task = Request
      /\ invitation \in [Invitation -> Invitations]
    BY DEF TypeOK, Invitations
<1>1. invitation[i].status # "unsent"
    BY DEF Settled, Closed, KnowsInv, Knows
<1>2. ASSUME invitation[i].status \in Closed PROVE invitation'[i].status \in Closed
    <2>1. ASSUME NEW r \in Request, CreateInvitation(r), task[r].invitation = i PROVE FALSE
        BY <1>1, <2>1 DEF CreateInvitation, ReservedInv
    <2> QED
        BY <1>1, <1>2, <2>1, StatusStep
<1>3. ASSUME NEW r \in Request, pc[r] = "saveAccepted", task[r].invitation = i
      PROVE  (pc'[r] = "saveAccepted" /\ task'[r].invitation = i) \/ invitation'[i].status \in Closed
    <2>1. CASE \E q \in Request \ {r} : Start(q) \/ Step(q) \/ Fail(q)
        BY <1>3, <2>1, OthersWait
    <2>2. CASE Start(r)
        BY <1>3, <2>2 DEF Start, StartChange, StartRemoval, StartTransfer, StartAdminTransfer, StartInvite,
                    StartRevoke, StartAccept, StartTrash, StartSuspend, StartRestore, StartAdminRestore,
                    StartBulk, StartPurge, StartNightlyPurge, StartDeleteAccount, Decide, Begin
    <2>3. CASE SaveInvitation(r)
        <3>1. CASE invitation[i].status = "gone"
            BY <1>3, <2>3, <3>1 DEF SaveInvitation, Closed
        <3>2. CASE invitation[i].status # "gone"
            <4>1. invitation' = [invitation EXCEPT ![i] = [invitation[i] EXCEPT !.status = "accepted"]]
                BY <1>3, <2>3, <3>2 DEF SaveInvitation
            <4>2. [invitation[i] EXCEPT !.status = "accepted"].status = "accepted"
                BY <1>0 DEF Invitations
            <4> QED
                BY <1>0, <4>1, <4>2 DEF Closed
        <3> QED
            BY <3>1, <3>2
    <2>4. CASE Step(r) /\ ~SaveInvitation(r)
        BY <1>3, <2>4 DEF Step, FindTarget, SaveRole, DeleteMember, FindNewOwner, Promote, Demote,
                    SetOwner, UpsertOwner, DemotePrevious, RevokeEarlier, CreateInvitation, Upsert,
                    SaveTrashed, SaveRestored, PurgeMembers, PurgeInvitations,
                    PurgeTimeline, DeleteMemberships, DeleteUser
    <2>5. CASE Fail(r)
        BY <1>3, <2>5 DEF Fail
    <2>6. CASE (\E j \in Invitation : Expire(j)) \/ UNCHANGED vars
        BY <1>3, <2>6 DEF Expire, vars
    <2> QED
        BY <2>1, <2>2, <2>3, <2>4, <2>5, <2>6 DEF Next
<1> QED
    BY <1>2, <1>3 DEF Settled

\* A sighted acceptance finds an invitation that is not settled, and so has admitted nobody.
LEMMA AdmitStep ==
    TypeOK /\ KnowsInv /\ ReservedInv /\ AdmitInv /\ [Next]_vars => AdmitInv'
<1> SUFFICES ASSUME TypeOK, KnowsInv, ReservedInv, AdmitInv, [Next]_vars, ~blind', ~broken',
                    NEW i \in Invitation, admissions'[i] # 0
             PROVE  admissions'[i] = 1 /\ Settled(i)'
    BY DEF AdmitInv
<1>0. /\ pc \in [Request -> Stages] /\ DOMAIN task = Request
      /\ admissions \in [Invitation -> 0..2]
    BY DEF TypeOK
<1>1. admissions[i] # 0 => admissions[i] = 1 /\ Settled(i)
    BY Sight, Whole DEF AdmitInv
<1>2. CASE admissions'[i] = admissions[i]
    BY <1>1, <1>2, SettledStep
<1>3. ASSUME NEW r \in Request, Upsert(r), admissions'[i] # admissions[i]
      PROVE  admissions'[i] = 1 /\ Settled(i)'
    <2>1. task[r].invitation = i
        BY <1>0, <1>3 DEF Upsert
    <2>2. Pending(i) /\ \A q \in Request : pc[q] = "saveAccepted" => task[q].invitation # i
        BY <1>3, <2>1 DEF Upsert, Unless
    <2>3. admissions[i] = 0
        BY <1>1, <2>2 DEF Settled, Closed, Pending
    <2>4. admissions'[i] = 1
        <3>1. admissions' = [admissions EXCEPT ![i] =
                                IF role[task[r].target] = "none" /\ admissions[i] < 2
                                THEN admissions[i] + 1 ELSE admissions[i]]
            BY <1>3, <2>1 DEF Upsert
        <3> QED
            BY <1>0, <1>3, <2>3, <3>1
    <2>5. pc'[r] = "saveAccepted" /\ task'[r].invitation = i
        BY <1>0, <1>3, <2>1 DEF Upsert, Continue
    <2> QED
        BY <2>4, <2>5 DEF Settled
<1>4. admissions' = admissions \/ \E r \in Request : Upsert(r)
    <2>1. ASSUME NEW r \in Request, Start(r) \/ Fail(r) PROVE admissions' = admissions
        BY <2>1 DEF Start, StartChange, StartRemoval, StartTransfer, StartAdminTransfer, StartInvite,
                    StartRevoke, StartAccept, StartTrash, StartSuspend, StartRestore, StartAdminRestore,
                    StartBulk, StartPurge, StartNightlyPurge, StartDeleteAccount, Decide, Fail, ghosts
    <2>2. ASSUME NEW r \in Request, Step(r) PROVE admissions' = admissions \/ Upsert(r)
        BY <2>2 DEF Step, FindTarget, SaveRole, DeleteMember, FindNewOwner, Promote, Demote, SetOwner,
                    UpsertOwner, DemotePrevious, RevokeEarlier, CreateInvitation,
                    SaveInvitation, SaveTrashed, SaveRestored, PurgeMembers, PurgeInvitations,
                    PurgeTimeline, DeleteMemberships, DeleteUser, ghosts
    <2> QED
        BY <2>1, <2>2 DEF Next, Expire, vars, ghosts
<1> QED
    BY <1>2, <1>3, <1>4

-----------------------------------------------------------------------------
(* One owner                                                               *)

\* Whoever transfers the timeline away has loaded a membership that is the owner's.
ActorKnows(r) ==
    pc[r] \in {"findForTransfer", "promote", "demote"} =>
        task[r].actor \in User /\ loaded[r][task[r].actor] \in {"none", "owner"}
ActorInv == \A r \in Request : ActorKnows(r)

\* Who may own while request r transfers: the new owner, and the old one until it is demoted.
Heirs(r) == IF pc[r] \in {"demote", "demotePrevious"} THEN {task[r].owner, task[r].target}
            ELSE {task[r].target}

\* Transfers are under way one at a time, from the owner ownerId names to the heir.
TransferInv ==
    ~blind /\ ~broken =>
        /\ \A r \in Request : pc[r] \in Transfers =>
              /\ task[r].owner = timeline.ownerId
              /\ \A q \in Request \ {r} : pc[q] \notin Transfers
              /\ pc[r] = "demote" => task[r].actor = task[r].owner
              /\ ~Emptied => Owners \subseteq Heirs(r)
        /\ ~Emptied /\ (\A r \in Request : pc[r] \notin Transfers) => Owners = {timeline.ownerId}

\* Nobody but the owner has the rank of one.
LEMMA OwnersRank == ASSUME NEW x \in AnyRole, x # "none", RoleAtLeast(x, "owner") PROVE x = "owner"
<1>1. Roles = <<"viewer", "editor", "admin", "owner">> /\ DOMAIN Roles = 1..4
    BY DEF Roles
<1>2. Roles[1] = "viewer" /\ Roles[2] = "editor" /\ Roles[3] = "admin" /\ Roles[4] = "owner"
    BY DEF Roles
<1>3. ASSUME NEW n \in 1..4, NEW y, Roles[n] = y PROVE (CHOOSE m \in DOMAIN Roles : Roles[m] = y) = n
    <2>1. \A m \in 1..4 : Roles[m] = y => m = n
        <3>1. n \in {1, 2, 3, 4} /\ 1..4 = {1, 2, 3, 4}
            OBVIOUS
        <3> QED
            BY <1>2, <1>3, <3>1
    <2> QED
        BY <1>1, <1>3, <2>1
<1>4. Rank("owner") = 4 /\ Rank("viewer") = 1 /\ Rank("editor") = 2 /\ Rank("admin") = 3
    BY <1>2, <1>3 DEF Rank
<1> QED
    BY <1>4 DEF RoleAtLeast, AnyRole, Given

LEMMA ActorStep == TypeOK /\ KnowsInv /\ ActorInv /\ [Next]_vars => ActorInv'
<1> SUFFICES ASSUME TypeOK, KnowsInv, ActorInv, [Next]_vars, NEW r \in Request PROVE ActorKnows(r)'
    BY DEF ActorInv
<1>0. /\ pc \in [Request -> Stages] /\ DOMAIN task = Request /\ DOMAIN loaded = Request
      /\ \A q \in Request : DOMAIN loaded[q] = User
      /\ role \in [User -> AnyRole]
    BY DEF TypeOK, AnyRole
<1>1. ActorKnows(r)
    BY DEF ActorInv
<1>2. ASSUME /\ pc'[r] = pc[r] /\ task'[r] = task[r]
             /\ \A u \in User : loaded'[r][u] = loaded[r][u] \/ loaded'[r][u] = "none"
      PROVE  ActorKnows(r)'
    BY <1>1, <1>2 DEF ActorKnows
<1>3. ASSUME NEW stage \in Stages \ {"findForTransfer", "promote", "demote"}, pc'[r] = stage
      PROVE  ActorKnows(r)'
    BY <1>3 DEF ActorKnows
<1>4. CASE StartTransfer(r)
    <2>1. PICK u \in User, v \in User :
             /\ Permitted(u, "owner") /\ Load(r, u)
             /\ Begin(r, "findForTransfer",
                      [NoTask EXCEPT !.actor = u, !.target = v, !.owner = timeline.ownerId])
        BY <1>4 DEF StartTransfer
    <2>2. task'[r] = [NoTask EXCEPT !.actor = u, !.target = v, !.owner = timeline.ownerId]
        BY <1>0, <2>1 DEF Begin
    <2>3. task'[r].actor = u
        BY <2>2 DEF NoTask
    <2>4. role[u] = "owner"
        BY <1>0, <2>1, OwnersRank DEF Permitted
    <2>5. loaded'[r][u] = "owner"
        BY <1>0, <2>1, <2>4 DEF Load
    <2> QED
        BY <2>3, <2>5 DEF ActorKnows
<1>5. CASE FindNewOwner(r)
    <2>1. CASE Load(r, task[r].target) /\ Continue(r, "promote")
        <3>1. /\ task[r].actor # task[r].target /\ pc[r] = "findForTransfer"
            BY <1>5 DEF FindNewOwner, KnowsInv, Knows
        <3>2. loaded'[r][task[r].actor] = loaded[r][task[r].actor] /\ task'[r] = task[r]
            BY <1>0, <1>1, <2>1, <3>1 DEF Load, Continue, ActorKnows
        <3> QED
            BY <1>1, <3>1, <3>2 DEF ActorKnows
    <2>2. CASE Answer(r)
        BY <1>0, <1>3, <2>2 DEF Answer, Stages
    <2> QED
        BY <1>5, <2>1, <2>2 DEF FindNewOwner
<1>6. CASE Promote(r)
    <2>1. CASE Continue(r, "demote") /\ UNCHANGED loaded
        BY <1>0, <1>1, <1>6, <2>1 DEF Promote, Continue, ActorKnows
    <2>2. CASE Answer(r)
        BY <1>0, <1>3, <2>2 DEF Answer, Stages
    <2> QED
        BY <1>6, <2>1, <2>2 DEF Promote
<1>7. ASSUME (Start(r) /\ ~StartTransfer(r)) \/ (Step(r) /\ ~FindNewOwner(r) /\ ~Promote(r)) \/ Fail(r)
      PROVE  ActorKnows(r)'
    <2>1. ASSUME NEW stage \in Stages \ {"findForTransfer", "promote", "demote"},
                 pc' = [pc EXCEPT ![r] = stage]
          PROVE  ActorKnows(r)'
        BY <1>0, <1>3, <2>1
    <2>2. CASE Start(r) /\ ~StartTransfer(r)
        <3>1. \E stage \in Stages \ {"findForTransfer", "promote", "demote"} :
                 pc' = [pc EXCEPT ![r] = stage]
            BY <2>2 DEF Start, StartChange, StartRemoval, StartAdminTransfer, StartInvite,
                    StartRevoke, StartAccept, StartTrash, StartSuspend, StartRestore, StartAdminRestore,
                    StartBulk, StartPurge, StartNightlyPurge, StartDeleteAccount, Decide, Begin,
                    Stages, Transfers, Purges
        <3> QED
            BY <2>1, <3>1
    <2>3. CASE FindTarget(r)
        <3>1. \E stage \in Stages \ {"findForTransfer", "promote", "demote"} :
                 pc' = [pc EXCEPT ![r] = stage]
            BY <2>3 DEF FindTarget, Answer, Continue, Stages
        <3> QED
            BY <2>1, <3>1
    <2>4. CASE Step(r) /\ ~FindNewOwner(r) /\ ~Promote(r) /\ ~FindTarget(r)
        <3>1. \E stage \in Stages \ {"findForTransfer", "promote", "demote"} :
                 pc' = [pc EXCEPT ![r] = stage]
            BY <2>4 DEF Step, SaveRole, DeleteMember, Demote,
                    SetOwner, UpsertOwner, DemotePrevious, RevokeEarlier, CreateInvitation, Upsert,
                    SaveInvitation, SaveTrashed, SaveRestored, PurgeMembers, PurgeInvitations,
                    PurgeTimeline, DeleteMemberships, DeleteUser, Answer, Continue, Stages,
                    Transfers, Purges
        <3> QED
            BY <2>1, <3>1
    <2>5. CASE Fail(r)
        <3>1. pc' = [pc EXCEPT ![r] = "idle"]
            BY <2>5 DEF Fail, Answer
        <3> QED
            BY <2>1, <3>1 DEF Stages
    <2> QED
        BY <1>7, <2>2, <2>3, <2>4, <2>5
<1>8. CASE \E q \in Request \ {r} : Start(q) \/ Step(q) \/ Fail(q)
    BY <1>2, <1>8, OthersWait
<1>9. CASE (\E i \in Invitation : Expire(i)) \/ UNCHANGED vars
    BY <1>2, <1>9 DEF Expire, vars
<1> QED
    BY <1>4, <1>5, <1>6, <1>7, <1>8, <1>9 DEF Next

\* The writes that hand the owner's role over.
Hands(r) == Demote(r) \/ UpsertOwner(r) \/ DemotePrevious(r) \/ (Promote(r) /\ pc'[r] = "demote")

\* No other sighted handler makes an owner, or unmakes one, unless it purges.
LEMMA OwnersKept ==
    ASSUME TypeOK, KnowsInv, ~blind', NEW r \in Request, Start(r) \/ Step(r) \/ Fail(r),
           ~Hands(r), ~PurgeMembers(r)
    PROVE  Owners' = Owners
<1>0. role \in [User -> AnyRole] /\ pc \in [Request -> Stages]
    BY DEF TypeOK, AnyRole
<1>1. ASSUME role' = role PROVE Owners' = Owners
    BY <1>1 DEF Owners
<1>2. ASSUME NEW v \in User, NEW x, x # "owner", role[v] # "owner", role' = [role EXCEPT ![v] = x]
      PROVE  Owners' = Owners
    BY <1>0, <1>2 DEF Owners
<1>3. ASSUME NEW us, \A u \in us \cap User : role[u] # "owner", Delete(r, us) PROVE Owners' = Owners
    BY <1>0, <1>3 DEF Delete, Owners
<1>4. ASSUME NEW known, Unless(known) PROVE known
    BY <1>4 DEF Unless
<1>5. CASE Start(r) \/ Fail(r)
    <2>1. role' = role
        BY <1>5 DEF Start, StartChange, StartRemoval, StartTransfer, StartAdminTransfer, StartInvite,
                StartRevoke, StartAccept, StartTrash, StartSuspend, StartRestore, StartAdminRestore,
                StartBulk, StartPurge, StartNightlyPurge, StartDeleteAccount, Decide, Fail
    <2> QED
        BY <1>1, <2>1
<1>6. CASE SaveRole(r)
    <2>1. /\ task[r].target \in User /\ loaded[r][task[r].target] # "owner"
          /\ Save(r, task[r].target, task[r].role) /\ KnowsRole(r, task[r].target)
        BY <1>4, <1>6 DEF SaveRole, KnowsInv, Knows
    <2>2. task[r].role # "owner"
        BY DEF TypeOK, Given
    <2>3. CASE loaded[r][task[r].target] \in {"none", task[r].role}
        BY <1>1, <2>1, <2>3 DEF Save
    <2>4. CASE loaded[r][task[r].target] \notin {"none", task[r].role}
        <3>1. role' = [role EXCEPT ![task[r].target] = task[r].role]
            BY <2>1, <2>4 DEF Save
        <3>2. role[task[r].target] # "owner"
            BY <2>1, <2>4 DEF KnowsRole
        <3> QED
            BY <1>2, <2>1, <2>2, <3>1, <3>2
    <2> QED
        BY <2>3, <2>4
<1>7. CASE DeleteMember(r)
    <2>1. /\ loaded[r][task[r].target] # "owner" /\ KnowsRole(r, task[r].target)
          /\ Delete(r, {u \in User : u = task[r].target /\ loaded[r][u] # "none"})
        BY <1>4, <1>7 DEF DeleteMember, KnowsInv, Knows
    <2> QED
        BY <1>3, <2>1 DEF KnowsRole
<1>8. CASE Promote(r)
    <2>1. pc'[r] = "demote" \/ loaded[r][task[r].target] = "none"
        BY <1>0, <1>8 DEF Promote, Continue
    <2>2. loaded[r][task[r].target] = "none" /\ Save(r, task[r].target, "owner")
        BY <1>8, <2>1 DEF Promote, Hands
    <2> QED
        BY <1>1, <2>2 DEF Save
<1>9. CASE Upsert(r)
    <2>1. role' = [role EXCEPT ![task[r].target] = task[r].role] /\ task[r].target \in User
        BY <1>9 DEF Upsert, KnowsInv, Knows
    <2>2. role[task[r].target] # "owner"
        BY <1>4, <1>9 DEF Upsert
    <2>3. task[r].role # "owner"
        BY DEF TypeOK, Given
    <2> QED
        BY <1>2, <2>1, <2>2, <2>3
<1>10. CASE DeleteMemberships(r)
    <2>1. Delete(r, {task[r].target}) /\ role[task[r].target] # "owner"
        BY <1>4, <1>10 DEF DeleteMemberships
    <2> QED
        BY <1>3, <2>1
<1>11. CASE \/ FindTarget(r) \/ FindNewOwner(r) \/ SetOwner(r) \/ RevokeEarlier(r) \/ CreateInvitation(r)
            \/ SaveInvitation(r) \/ SaveTrashed(r) \/ SaveRestored(r) \/ PurgeInvitations(r)
            \/ PurgeTimeline(r) \/ DeleteUser(r)
    <2>1. role' = role
        BY <1>11 DEF FindTarget, FindNewOwner, SetOwner, RevokeEarlier, CreateInvitation,
                     SaveInvitation, SaveTrashed, SaveRestored, PurgeInvitations, PurgeTimeline, DeleteUser
    <2> QED
        BY <1>1, <2>1
<1> QED
    BY <1>5, <1>6, <1>7, <1>8, <1>9, <1>10, <1>11 DEF Step, Hands

\* A request that hands nothing over and sets no owner is no transfer, or fails as one.
LEMMA OthersTransferNot ==
    ASSUME TypeOK, NEW r \in Request, Start(r) \/ Step(r) \/ Fail(r), ~broken',
           ~Hands(r), ~SetOwner(r)
    PROVE  /\ pc[r] \notin Transfers /\ pc'[r] \notin Transfers
           /\ timeline'.ownerId = timeline.ownerId
<1>0. pc \in [Request -> Stages] /\ DOMAIN pc = Request
    BY DEF TypeOK
<1>1. ASSUME NEW stage, stage \notin Transfers, pc' = [pc EXCEPT ![r] = stage]
      PROVE  pc'[r] \notin Transfers
    BY <1>0, <1>1
<1>2. CASE Start(r)
    <2>1. (\E stage \in Stages \ Transfers : pc' = [pc EXCEPT ![r] = stage]) /\ pc[r] = "idle"
        BY <1>2 DEF Start, StartChange, StartRemoval, StartTransfer, StartAdminTransfer, StartInvite,
                StartRevoke, StartAccept, StartTrash, StartSuspend, StartRestore, StartAdminRestore,
                StartBulk, StartPurge, StartNightlyPurge, StartDeleteAccount, Decide, Begin,
                Stages, Transfers, Purges
    <2>2. timeline' = timeline
        BY <1>2 DEF Start, StartChange, StartRemoval, StartTransfer, StartAdminTransfer, StartInvite,
                StartRevoke, StartAccept, StartTrash, StartSuspend, StartRestore, StartAdminRestore,
                StartBulk, StartPurge, StartNightlyPurge, StartDeleteAccount, Decide
    <2> QED
        BY <1>1, <2>1, <2>2 DEF Transfers
<1>3. CASE Fail(r)
    <2>1. pc[r] \notin Transfers /\ pc' = [pc EXCEPT ![r] = "idle"] /\ timeline' = timeline
        BY <1>3 DEF Fail, Answer
    <2> QED
        BY <1>1, <2>1 DEF Transfers
<1>4. CASE Promote(r)
    <2>1. pc[r] = "promote" /\ pc' = [pc EXCEPT ![r] = "idle"] /\ timeline' = timeline
        BY <1>0, <1>4 DEF Promote, Answer, Continue, Hands
    <2> QED
        BY <1>1, <2>1 DEF Transfers
<1>5. CASE FindTarget(r) \/ FindNewOwner(r)
    <2>1. /\ \E stage \in {"idle", "saveRole", "deleteMember", "promote"} : pc' = [pc EXCEPT ![r] = stage]
          /\ pc[r] \in {"findForChange", "findForRemoval", "findForTransfer"} /\ timeline' = timeline
        BY <1>5 DEF FindTarget, FindNewOwner, Answer, Continue
    <2> QED
        BY <1>1, <2>1 DEF Transfers
<1>6. CASE SaveTrashed(r) \/ SaveRestored(r) \/ PurgeTimeline(r)
    <2>1. pc[r] \in {"saveTrashed", "saveRestored", "purgeTimeline"} /\ pc' = [pc EXCEPT ![r] = "idle"]
        BY <1>6 DEF SaveTrashed, SaveRestored, PurgeTimeline, Answer
    <2>2. timeline'.ownerId = timeline.ownerId
        BY <1>6 DEF SaveTrashed, SaveRestored, PurgeTimeline, TypeOK
    <2> QED
        BY <1>1, <2>1, <2>2 DEF Transfers
<1>7. CASE \/ SaveRole(r) \/ DeleteMember(r) \/ RevokeEarlier(r) \/ CreateInvitation(r) \/ Upsert(r)
           \/ SaveInvitation(r) \/ PurgeMembers(r) \/ PurgeInvitations(r) \/ DeleteMemberships(r)
           \/ DeleteUser(r)
    <2>1. /\ \E stage \in Stages \ Transfers : pc' = [pc EXCEPT ![r] = stage]
          /\ pc[r] \notin Transfers /\ timeline' = timeline
        BY <1>7 DEF SaveRole, DeleteMember, RevokeEarlier, CreateInvitation, Upsert, SaveInvitation,
                    PurgeMembers, PurgeInvitations, DeleteMemberships, DeleteUser, Answer, Continue,
                    Stages, Transfers, Purges
    <2> QED
        BY <1>1, <2>1
<1> QED
    BY <1>2, <1>3, <1>4, <1>5, <1>6, <1>7 DEF Step, Hands

\* A transfer begins when no other is under way, and ends with ownerId naming the heir.
LEMMA TransferStep ==
    TypeOK /\ KnowsInv /\ OwnersInv /\ ActorInv /\ TransferInv /\ [Next]_vars => TransferInv'
<1> SUFFICES ASSUME TypeOK, KnowsInv, OwnersInv, ActorInv, TransferInv, [Next]_vars, ~blind', ~broken'
             PROVE  /\ \A r \in Request : pc'[r] \in Transfers =>
                          /\ task'[r].owner = timeline'.ownerId
                          /\ \A q \in Request \ {r} : pc'[q] \notin Transfers
                          /\ pc'[r] = "demote" => task'[r].actor = task'[r].owner
                          /\ ~Emptied' => Owners' \subseteq Heirs(r)'
                    /\ ~Emptied' /\ (\A r \in Request : pc'[r] \notin Transfers) =>
                          Owners' = {timeline'.ownerId}
    BY DEF TransferInv
<1> DEFINE Under(r) == pc'[r] \in Transfers =>
                          /\ task'[r].owner = timeline'.ownerId
                          /\ \A q \in Request \ {r} : pc'[q] \notin Transfers
                          /\ pc'[r] = "demote" => task'[r].actor = task'[r].owner
                          /\ ~Emptied' => Owners' \subseteq Heirs(r)'
           Over == ~Emptied' /\ (\A r \in Request : pc'[r] \notin Transfers) =>
                          Owners' = {timeline'.ownerId}
<1>0. /\ pc \in [Request -> Stages] /\ DOMAIN task = Request /\ DOMAIN loaded = Request
      /\ role \in [User -> AnyRole] /\ \A r \in Request : DOMAIN loaded[r] = User
    BY DEF TypeOK, AnyRole
<1>1. /\ \A r \in Request : pc[r] \in Transfers =>
            /\ task[r].owner = timeline.ownerId
            /\ \A q \in Request \ {r} : pc[q] \notin Transfers
            /\ pc[r] = "demote" => task[r].actor = task[r].owner
            /\ ~Emptied => Owners \subseteq Heirs(r)
      /\ ~Emptied /\ (\A r \in Request : pc[r] \notin Transfers) => Owners = {timeline.ownerId}
    BY Sight, Whole DEF TransferInv
<1>2. Emptied => Emptied'
    BY EmptiedStep
<1>3. ASSUME NEW known, Unless(known) PROVE known
    BY <1>3 DEF Unless
<1>4. ASSUME NEW q \in Request, Start(q) \/ Step(q) \/ Fail(q)
      PROVE  \A r \in Request \ {q} : pc'[r] = pc[r] /\ task'[r] = task[r]
    BY <1>4, OthersWait
<1>5. ASSUME NEW q \in Request, Start(q) \/ Step(q) \/ Fail(q), ~Hands(q), ~SetOwner(q)
      PROVE  Over /\ \A r \in Request : Under(r)
    <2>1. pc[q] \notin Transfers /\ pc'[q] \notin Transfers /\ timeline'.ownerId = timeline.ownerId
        BY <1>5, OthersTransferNot
    <2>2. ~Emptied' => Owners' = Owners
        <3>1. CASE PurgeMembers(q)
            BY <1>0, <3>1 DEF PurgeMembers, Continue, Emptied
        <3> QED
            BY <1>5, <3>1, OwnersKept
    <2>3. Over
        BY <1>1, <1>2, <1>4, <1>5, <2>1, <2>2
    <2>4. ASSUME NEW r \in Request, pc'[r] \in Transfers PROVE Under(r)
        <3>1. r # q /\ pc'[r] = pc[r] /\ task'[r] = task[r]
            BY <1>4, <1>5, <2>1, <2>4
        <3>2. \A s \in Request \ {r} : pc'[s] \notin Transfers
            BY <1>1, <1>4, <1>5, <2>1, <2>4, <3>1
        <3>3. Heirs(r)' = Heirs(r)
            BY <3>1 DEF Heirs
        <3> QED
            BY <1>1, <1>2, <2>1, <2>2, <2>4, <3>1, <3>2, <3>3
    <2> QED
        BY <2>3, <2>4
<1>6. ASSUME NEW q \in Request, StillMine(q), pc[q] \in {"promote", "upsertOwner"}
      PROVE  /\ Owners = {timeline.ownerId} /\ task[q].owner = timeline.ownerId /\ ~Emptied
             /\ \A r \in Request : pc[r] \notin Transfers
    <2>1. /\ task[q].owner = timeline.ownerId /\ timeline.status # "purged"
          /\ \A r \in Request \ {q} : pc[r] \notin Transfers \cup Purges
        BY <1>6 DEF StillMine, Others
    <2>2. \A r \in Request : pc[r] \notin Transfers /\ ~Emptied
        BY <1>6, <2>1 DEF Emptied, Transfers, Purges
    <2> QED
        BY <1>1, <1>6, <2>1, <2>2
<1>7. ASSUME NEW q \in Request, Step(q), pc'[q] \in Transfers,
             \A r \in Request \ {q} : pc[r] \notin Transfers, Under(q)
      PROVE  Over /\ \A r \in Request : Under(r)
    BY <1>4, <1>7
<1>8. ASSUME NEW q \in Request, Promote(q), pc'[q] = "demote" PROVE Over /\ \A r \in Request : Under(r)
    <2>1. role[task[q].actor] = "owner" /\ StillMine(q) /\ pc[q] = "promote"
        BY <1>0, <1>3, <1>8 DEF Promote, Answer
    <2>2. task'[q] = task[q] /\ timeline' = timeline
        BY <1>0, <1>8 DEF Promote, Answer, Continue
    <2>3. task[q].actor = timeline.ownerId
        BY <1>6, <2>1 DEF Owners, ActorInv, ActorKnows
    <2>4. role' = role \/ role' = [role EXCEPT ![task[q].target] = "owner"]
        BY <1>8 DEF Promote, Save
    <2>5. Owners' \subseteq Owners \cup {task[q].target}
        BY <1>0, <2>4 DEF Owners
    <2>6. Heirs(q)' = {task[q].owner, task[q].target}
        BY <1>8, <2>2 DEF Heirs
    <2>7. Under(q) /\ \A r \in Request \ {q} : pc[r] \notin Transfers
        <3>1. \A r \in Request \ {q} : pc[r] \notin Transfers /\ pc'[r] = pc[r]
            BY <1>4, <1>6, <1>8, <2>1 DEF Step
        <3>2. Owners' \subseteq Heirs(q)'
            BY <1>6, <2>1, <2>5, <2>6
        <3> QED
            BY <1>6, <2>1, <2>2, <2>3, <3>1, <3>2
    <2> QED
        BY <1>7, <1>8, <2>7 DEF Step, Transfers
<1>9. ASSUME NEW q \in Request, UpsertOwner(q) PROVE Over /\ \A r \in Request : Under(r)
    <2>1. StillMine(q) /\ pc[q] = "upsertOwner"
        BY <1>3, <1>9 DEF UpsertOwner
    <2>2. task'[q] = task[q] /\ timeline' = timeline /\ pc'[q] = "demotePrevious"
        BY <1>0, <1>9 DEF UpsertOwner, Continue
    <2>3. Owners' \subseteq Owners \cup {task[q].target}
        BY <1>0, <1>9 DEF UpsertOwner, Owners
    <2>4. Heirs(q)' = {task[q].owner, task[q].target}
        BY <2>2 DEF Heirs
    <2>5. Under(q) /\ \A r \in Request \ {q} : pc[r] \notin Transfers
        <3>1. \A r \in Request \ {q} : pc[r] \notin Transfers /\ pc'[r] = pc[r]
            BY <1>4, <1>6, <1>9, <2>1 DEF Step
        <3>2. Owners' \subseteq Heirs(q)'
            BY <1>6, <2>1, <2>3, <2>4
        <3> QED
            BY <1>6, <2>1, <2>2, <3>1, <3>2
    <2> QED
        BY <1>7, <1>9, <2>2, <2>5 DEF Step, Transfers
<1>10. ASSUME NEW q \in Request, Demote(q) \/ DemotePrevious(q) PROVE Over /\ \A r \in Request : Under(r)
    <2>1. /\ pc[q] \in {"demote", "demotePrevious"} /\ pc[q] \in Transfers
          /\ pc'[q] \in {"setOwner", "saveOwner"} /\ task'[q] = task[q] /\ timeline' = timeline
        BY <1>0, <1>10 DEF Demote, DemotePrevious, Continue, Transfers
    <2>2. /\ task[q].owner = timeline.ownerId
          /\ \A r \in Request \ {q} : pc[r] \notin Transfers
          /\ pc[q] = "demote" => task[q].actor = task[q].owner
          /\ ~Emptied => Owners \subseteq {task[q].owner, task[q].target}
        BY <1>1, <2>1 DEF Heirs
    <2>3. role'[task[q].owner] # "owner" /\ Owners' \subseteq Owners
        <3>1. CASE Demote(q)
            <4>1. /\ loaded[q][task[q].actor] = "owner" /\ task[q].actor \in User
                  /\ Save(q, task[q].actor, "admin")
                BY <3>1 DEF Demote, ActorInv, ActorKnows
            <4>2. role' = [role EXCEPT ![task[q].actor] = "admin"]
                BY <4>1 DEF Save
            <4>3. pc[q] = "demote"
                BY <3>1 DEF Demote
            <4> QED
                BY <1>0, <2>2, <4>1, <4>2, <4>3 DEF Owners
        <3>2. CASE DemotePrevious(q)
            <4>1. task[q].owner \in User
                BY <2>2 DEF TypeOK
            <4>2. \/ role' = role /\ role[task[q].owner] = "none"
                  \/ role' = [role EXCEPT ![task[q].owner] = "admin"]
                BY <3>2 DEF DemotePrevious
            <4> QED
                BY <1>0, <4>1, <4>2 DEF Owners
        <3> QED
            BY <1>10, <3>1, <3>2
    <2>4. ~Emptied' => Owners' \subseteq {task[q].target}
        BY <1>2, <2>2, <2>3 DEF Owners
    <2>5. Heirs(q)' = {task[q].target}
        BY <2>1 DEF Heirs
    <2>6. \A r \in Request \ {q} : pc'[r] = pc[r]
        BY <1>4, <1>10 DEF Step
    <2>7. Under(q)
        BY <2>1, <2>2, <2>4, <2>5, <2>6
    <2> QED
        BY <1>7, <1>10, <2>1, <2>2, <2>7 DEF Step, Transfers
<1>11. ASSUME NEW q \in Request, SetOwner(q) PROVE Over /\ \A r \in Request : Under(r)
    <2>1. pc[q] \in {"setOwner", "saveOwner"} /\ pc[q] \in Transfers /\ pc'[q] = "idle" /\ role' = role
        BY <1>0, <1>11 DEF SetOwner, Answer, Transfers
    <2>2. \A r \in Request : pc'[r] \notin Transfers
        BY <1>1, <1>4, <1>11, <2>1 DEF Step, Transfers
    <2>3. ASSUME ~Emptied' PROVE Owners' = {timeline'.ownerId}
        <3>1. Owners \subseteq {task[q].target} /\ task[q].owner = timeline.ownerId
            BY <1>1, <1>2, <2>1, <2>3 DEF Heirs
        <3>2. role[task[q].target] = "owner" /\ task[q].target \in User
            BY <1>3, <1>11 DEF SetOwner, KnowsInv, Knows
        <3>3. Owners' = {task[q].target}
            BY <2>1, <3>1, <3>2 DEF Owners
        <3>4. timeline.status # "purged"
            BY <1>2, <2>3 DEF Emptied
        <3>5. timeline'.ownerId = task[q].target
            BY <1>11, <3>1, <3>4 DEF SetOwner, TypeOK
        <3> QED
            BY <3>3, <3>5
    <2> QED
        BY <2>2, <2>3
<1>12. CASE (\E i \in Invitation : Expire(i)) \/ UNCHANGED vars
    <2>1. pc' = pc /\ task' = task /\ timeline' = timeline /\ role' = role
        BY <1>12 DEF Expire, vars
    <2>2. Owners' = Owners /\ (Emptied' <=> Emptied) /\ \A r \in Request : Heirs(r)' = Heirs(r)
        BY <2>1 DEF Owners, Emptied, Heirs
    <2> QED
        BY <1>1, <2>1, <2>2
<1>13. ASSUME NEW q \in Request, Start(q) \/ Step(q) \/ Fail(q) PROVE Over /\ \A r \in Request : Under(r)
    <2> HIDE DEF Over, Under
    <2> QED
        BY <1>5, <1>8, <1>9, <1>10, <1>11, <1>13 DEF Hands
<1> QED
    BY <1>12, <1>13 DEF Next

-----------------------------------------------------------------------------
(* Theorems                                                                *)

IInv ==
    /\ TypeOK
    /\ KnowsInv
    /\ OwnersInv
    /\ ReservedInv /\ AdmitInv
    /\ ActorInv /\ TransferInv

LEMMA MembershipInit == Init => IInv
<1> SUFFICES ASSUME Init PROVE IInv
    OBVIOUS
<1>1. /\ role = [u \in User |-> IF u = Founder THEN "owner" ELSE "none"]
      /\ timeline = [status |-> "active", ownerId |-> Founder]
      /\ invitation = [i \in Invitation |-> [status |-> "unsent", role |-> "none"]]
      /\ account = User
      /\ pc = [r \in Request |-> "idle"]
      /\ task = [r \in Request |-> NoTask]
      /\ loaded = [r \in Request |-> [u \in User |-> "none"]]
    BY DEF Init
<1>2. /\ admissions = [i \in Invitation |-> 0] /\ failures = 0 /\ broken = FALSE /\ blind = FALSE
    BY DEF Init
<1>3. Founder \in User /\ MaxFailures \in Nat
    BY ConstantsAssumption
<1>4. TypeOK
    <2>1. role \in [User -> Given \cup {"owner"}]
        BY <1>1 DEF Given
    <2>2. timeline \in [status : {"active", "trashed", "purged"}, ownerId : User]
        BY <1>1, <1>3
    <2>3. invitation \in [Invitation -> [status : {"unsent", "pending", "accepted", "revoked", "gone"},
                                         role : Given]]
        BY <1>1 DEF Given
    <2>4. account \subseteq User /\ pc \in [Request -> Stages]
        BY <1>1 DEF Stages
    <2>5. task \in [Request -> Tasks]
        BY <1>1 DEF NoTask, Tasks, Given
    <2>6. loaded \in [Request -> [User -> Given \cup {"owner"}]]
        BY <1>1 DEF Given
    <2>7. admissions \in [Invitation -> 0..2] /\ failures \in 0..MaxFailures
        BY <1>2, <1>3
    <2>8. broken \in BOOLEAN /\ blind \in BOOLEAN
        BY <1>2
    <2> QED
        BY <2>1, <2>2, <2>3, <2>4, <2>5, <2>6, <2>7, <2>8 DEF TypeOK, Tasks
<1>5. KnowsInv
    BY <1>1 DEF KnowsInv, Knows
<1>6. OwnersInv
    <2>1. Owners = {Founder}
        BY <1>1, <1>3 DEF Owners
    <2>2. ~Emptied /\ ~Swept
        BY <1>1 DEF Emptied, Swept
    <2> QED
        BY <1>1, <1>3, <2>1, <2>2 DEF OwnersInv
<1>7. ReservedInv /\ AdmitInv
    BY <1>1, <1>2 DEF ReservedInv, AdmitInv
<1>8. ActorInv
    BY <1>1 DEF ActorInv, ActorKnows
<1>9. TransferInv
    <2>1. Owners = {timeline.ownerId}
        BY <1>1, <1>3 DEF Owners
    <2> QED
        BY <1>1, <2>1 DEF TransferInv, Transfers
<1> QED
    BY <1>4, <1>5, <1>6, <1>7, <1>8, <1>9 DEF IInv

\* The inductive invariant: requests know what they write (KnowsInv); until a purge whoever
\* owns has an account, while a purge under way leaves nothing (OwnersInv); what admitted
\* somebody is settled (AdmitInv); and one transfer at a time is on its way (TransferInv).
THEOREM Inductive == Spec => []IInv
<1>1. IInv /\ [Next]_vars => IInv'
    BY MembershipTypeStep, KnowsStep, OwnersStep, ReservedStep, AdmitStep, ActorStep, TransferStep
    DEF IInv
<1> QED
    BY <1>1, MembershipInit, PTL DEF Spec

\* Every handler of timelines.js and invitations.js writes documents of their types; no
\* change of role and no invitation ever hands out the owner's role.
THEOREM TypeCorrect == Spec => []TypeOK
<1>1. IInv => TypeOK
    BY DEF IInv
<1> QED
    BY <1>1, Inductive, PTL

\* A live timeline has an owner with an account after every write of a transfer, a change
\* of role, a removal, an acceptance, a purge or the deletion of an account, unless a
\* write was blind.
THEOREM Owned == Spec => []NeverOwnerless
<1>1. IInv => NeverOwnerless
    BY DEF IInv, OwnersInv, NeverOwnerless
<1> QED
    BY <1>1, Inductive, PTL

\* permanentlyDeleteTimeline deletes memberships and invitations before the timeline, so
\* that nothing is left unless a handler that found the timeline alive writes later.
THEOREM LeavesNothing == Spec => []PurgeLeavesNothing
<1>1. IInv => PurgeLeavesNothing
    BY DEF IInv, OwnersInv, PurgeLeavesNothing, Emptied, Swept
<1> QED
    BY <1>1, Inductive, PTL

\* transfer-ownership of timelines.js and of admin.js writes the two roles and ownerId one
\* after the other; once no transfer is under way they name the same and only owner, for
\* any number of requests, unless a transfer was cut in half or overtaken.
THEOREM OwnedByOne == Spec => []OneOwner
<1>1. IInv => OneOwner
    <2> SUFFICES ASSUME IInv, timeline.status = "active", ~blind, ~broken,
                        \A r \in Request : pc[r] \notin Transfers
                 PROVE  Owners = {timeline.ownerId}
        BY DEF OneOwner
    <2>1. ~Emptied
        BY DEF IInv, OwnersInv
    <2> QED
        BY <2>1 DEF IInv, TransferInv
<1> QED
    BY <1>1, Inductive, PTL

\* POST /invitations/:token/accept: no revocation, expiry, removal of the member or later
\* acceptance lets an invitation make somebody a member a second time, unless two
\* acceptances overlap or one is cut in half.
THEOREM AdmittedOnce == Spec => []AdmitsOnce
<1>1. IInv => AdmitsOnce
    <2> SUFFICES ASSUME IInv, ~blind, ~broken, NEW i \in Invitation PROVE admissions[i] <= 1
        BY DEF AdmitsOnce
    <2>1. admissions[i] # 0 => admissions[i] = 1
        BY DEF IInv, AdmitInv
    <2> QED
        BY <2>1
<1> QED
    BY <1>1, Inductive, PTL
=============================================================================
