------------------------------ MODULE RolePolicy ------------------------------
(***************************************************************************)
(* Who may change whose roles: packages/auth/src/org-roles, and the        *)
(* composition of its rules in member-role-management.  A list of roles is *)
(* the set of its members: normalizeOrgRoleIds trims, deduplicates and     *)
(* sorts, and refuses an empty one.                                        *)
(***************************************************************************)
EXTENDS Naturals

Roles == {"owner", "admin", "member"}

Rank == [owner |-> 30, admin |-> 20, member |-> 10]

\* memberAssignable, invitationAssignable and bulkAssignable agree.
Assignable == {"admin", "member"}

IsOwner(S) == "owner" \in S

\* The roles with member:update and invitation:create.
MayManageMembers(S) == S \cap {"owner", "admin"} # {}

\* Fault variant: an equal rank is enough.
Matches(S, T) == \E r \in S : \A t \in T : Rank[r] >= Rank[t]

\* The highest rank in S is above the highest in T.
Outranks(S, T) == \E r \in S : \A t \in T : Rank[r] > Rank[t]

\* Fault variants of evaluateMemberManagement: no hierarchy; owners only are
\* protected.
ManagesAnyone(self, actorRoles, targetRoles) == TRUE
ManagesNonOwners(self, actorRoles, targetRoles) == self \/ ~IsOwner(targetRoles)

\* evaluateMemberManagement, of an actor that has the permission.
Manages(self, actorRoles, targetRoles) ==
    self \/ (~IsOwner(targetRoles) /\ Outranks(actorRoles, targetRoles))

\* evaluateRoleAssignment
MayAssign(actorRoles, assigned) == ~IsOwner(assigned) /\ Outranks(actorRoles, assigned)

\* evaluateRoleAssignmentDelta: only what is new is judged.
MayIntroduce(actorRoles, current, next) ==
    /\ IsOwner(next) => IsOwner(current)
    /\ next \ current # {} => MayAssign(actorRoles, next \ current)

\* Fault variant: who edits their own roles may drop any.
RetainsAnything(current, next) == TRUE

\* evaluateSelfRoleRetention: a role of the highest rank is kept.
RetainsHighest(current, next) ==
    \E r \in current \cap next : \A q \in current : Rank[r] >= Rank[q]

\* evaluateOwnershipTransfer
MayTransfer(self, actorRoles, targetRoles) ==
    IsOwner(actorRoles) /\ ~self /\ ~IsOwner(targetRoles)

\* The role set a change asks for: replaceMemberRoles keeps ownership
\* (mergeOwnershipRoles), mutateMemberRoles adds or removes.
Changed(op, current, wanted) ==
    CASE op = "replace" -> (current \cap {"owner"}) \cup wanted
      [] op = "add"     -> current \cup wanted
      [] op = "remove"  -> current \ wanted

\* All checks between reading the target and writing it.
MayChange(self, actorRoles, current, next) ==
    /\ next # {}
    /\ Manages(self, actorRoles, current)
    /\ MayIntroduce(actorRoles, current, next)
    /\ self => RetainsHighest(current, next)

\* Fault variant: a former owner is left without a role.
DropsOwner(S) == S \ {"owner"}

\* The roles a former owner is left with.
StepsDown(S) == IF S \ {"owner"} # {} THEN S \ {"owner"} ELSE {"admin"}
===============================================================================
