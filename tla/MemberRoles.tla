------------------------------ MODULE MemberRoles ------------------------------
(***************************************************************************)
(* Member roles of one organization: member-role-management in             *)
(* packages/auth, called by the server actions of the dashboard.           *)
(*                                                                         *)
(* A call is one request.  It reads its actor once, reads each target and  *)
(* writes it later through the auth library, in separate statements and    *)
(* without a lock: whatever else happens may happen in between.  Only the  *)
(* transfer of ownership is a transaction.                                 *)
(***************************************************************************)
EXTENDS RolePolicy, FiniteSets

CONSTANTS
    Members,          \* member rows, of present and of future members
    Calls,            \* requests that may be under way at a time
    Foundings,        \* the roles there may be at the start; {} for who is no member yet
    MaxTargets,       \* how many members one bulk change may list
    Lanes,            \* how many of them it works on at a time
    MaxCalls          \* bound: requests in all

HasOneOwner(held) == \E o \in Members : \A m \in Members : IsOwner(held[m]) <=> m = o

ASSUME FoundingAssumption ==
    \A held \in Foundings : held \in [Members -> SUBSET Roles] /\ HasOneOwner(held)
ASSUME BoundAssumption  == {MaxTargets, Lanes, MaxCalls} \subseteq Nat

VARIABLES
    row,        \* of each member row: not there yet, there, deleted
    roles,      \* Member.role; {} without a row
    invited,    \* role sets of the invitations that are out
    pc, op,     \* of each call: where it is, what it does
    actor, authority, permitted,  \* who does it, with which roles and permission
    wanted, todo,                 \* the roles asked for, targets not yet read
    found,      \* the roles a target was read with
    plan,       \* the roles decided on for a target, or for the new owner
    calls       \* requests so far

members  == <<row, roles>>
request  == <<op, actor, authority, permitted, wanted>>
progress == <<pc, request, todo, found, plan>>
vars     == <<members, invited, progress, calls>>

Nothing == [m \in Members |-> {}]
Changes == {"replace", "add", "remove"}

Init ==
    /\ roles \in Foundings
    /\ row = [m \in Members |-> IF roles[m] = {} THEN "none" ELSE "there"]
    /\ invited = {}
    /\ pc = [p \in Calls |-> "idle"]
    /\ op = [p \in Calls |-> "none"]
    /\ actor = [p \in Calls |-> CHOOSE m \in Members : TRUE]
    /\ authority = [p \in Calls |-> {}]
    /\ permitted = [p \in Calls |-> FALSE]
    /\ wanted = [p \in Calls |-> {}]
    /\ todo = [p \in Calls |-> {}]
    /\ found = [p \in Calls |-> Nothing]
    /\ plan = [p \in Calls |-> Nothing]
    /\ calls = 0

Goto(p, step) == pc' = [pc EXCEPT ![p] = step]

\* The call returns, throws or dies with its server.
Return(p) ==
    /\ Goto(p, "idle")
    /\ op' = [op EXCEPT ![p] = "none"]
    /\ actor' = [actor EXCEPT ![p] = CHOOSE m \in Members : TRUE]
    /\ authority' = [authority EXCEPT ![p] = {}]
    /\ permitted' = [permitted EXCEPT ![p] = FALSE]
    /\ wanted' = [wanted EXCEPT ![p] = {}]
    /\ todo' = [todo EXCEPT ![p] = {}]
    /\ found' = [found EXCEPT ![p] = Nothing]
    /\ plan' = [plan EXCEPT ![p] = Nothing]

-------------------------------------------------------------------------------
(***************************************************************************)
(* replaceMemberRoles, mutateMemberRoles, inviteMemberWithRoles.           *)
(***************************************************************************)

\* loadActorContext reads the roles of the actor ...
Begin(p, o, a, S, W) ==
    /\ row[a] = "there"
    /\ calls' = calls + 1
    /\ Goto(p, "permission")
    /\ op' = [op EXCEPT ![p] = o]
    /\ actor' = [actor EXCEPT ![p] = a]
    /\ authority' = [authority EXCEPT ![p] = roles[a]]
    /\ wanted' = [wanted EXCEPT ![p] = W]
    /\ todo' = [todo EXCEPT ![p] = S]
    /\ UNCHANGED <<members, invited, permitted, found, plan>>

BeginChange(p, o, a, S, W) ==
    /\ Cardinality(S) \in 1 .. (IF o = "replace" THEN 1 ELSE MaxTargets)
    /\ Begin(p, o, a, S, W)

BeginInvite(p, a, W) == Begin(p, "invite", a, {}, W)

\* ... and the library, in a read of its own, its permission.
CheckPermission(p) ==
    /\ pc[p] = "permission"
    /\ permitted' = [permitted EXCEPT ![p] = MayManageMembers(roles[actor[p]])]
    /\ Goto(p, IF op[p] = "invite" THEN "invite" ELSE "change")
    /\ UNCHANGED <<members, invited, op, actor, authority, wanted, todo, found, plan, calls>>

\* A target is read, and whether and how it is to change is decided.
Decide(p, m) ==
    /\ pc[p] = "change"
    /\ m \in todo[p]
    /\ Cardinality({t \in Members : plan[p][t] # {}}) < Lanes
    /\ todo' = [todo EXCEPT ![p] = @ \ {m}]
    /\ LET next == Changed(op[p], roles[m], wanted[p])
           granted == /\ row[m] = "there" /\ permitted[p]
                      /\ MayChange(m = actor[p], authority[p], roles[m], next)
                      /\ next # roles[m]
       IN IF granted
          THEN /\ found' = [found EXCEPT ![p][m] = roles[m]]
               /\ plan' = [plan EXCEPT ![p][m] = next]
          ELSE UNCHANGED <<found, plan>>
    /\ UNCHANGED <<members, invited, pc, request, calls>>

\* updateMemberRole: the library writes what it is given, or refuses.
Write(p, m) ==
    /\ pc[p] = "change"
    /\ plan[p][m] # {}
    /\ found' = [found EXCEPT ![p][m] = {}]
    /\ plan' = [plan EXCEPT ![p][m] = {}]
    /\ \/ row[m] = "there" /\ roles' = [roles EXCEPT ![m] = plan[p][m]]
       \/ UNCHANGED roles
    /\ UNCHANGED <<row, invited, pc, request, todo, calls>>

EndChange(p) ==
    /\ pc[p] = "change"
    /\ todo[p] = {} /\ plan[p] = Nothing
    /\ Return(p)
    /\ UNCHANGED <<members, invited, calls>>

\* createInvitation, which the library may refuse.
Invite(p) ==
    /\ pc[p] = "invite"
    /\ \/ /\ permitted[p] /\ MayAssign(authority[p], wanted[p])
          /\ invited' = invited \cup {wanted[p]}
       \/ UNCHANGED invited
    /\ Return(p)
    /\ UNCHANGED <<members, calls>>

-------------------------------------------------------------------------------
(***************************************************************************)
(* transferOrganizationOwnership: what it reads is the snapshot of its     *)
(* transaction, and it commits only if the two rows it writes are still as *)
(* they were.                                                              *)
(***************************************************************************)
BeginTransfer(p, a, t) ==
    /\ row[a] = "there" /\ row[t] = "there"
    /\ MayTransfer(a = t, roles[a], roles[t])
    /\ \A m \in Members \ {a} : ~IsOwner(roles[m])
    /\ calls' = calls + 1
    /\ Goto(p, "transfer")
    /\ actor' = [actor EXCEPT ![p] = a]
    /\ authority' = [authority EXCEPT ![p] = roles[a]]
    /\ plan' = [plan EXCEPT ![p][t] = roles[t] \cup {"owner"}]
    /\ UNCHANGED <<members, invited, op, permitted, wanted, todo, found>>

\* Fault variant: the rows are written whatever has become of them.
CommitBlindly(p, t) ==
    /\ pc[p] = "transfer"
    /\ plan[p][t] # {}
    /\ row[actor[p]] = "there" /\ row[t] = "there"
    /\ roles' = [roles EXCEPT ![actor[p]] = StepsDown(authority[p]), ![t] = plan[p][t]]
    /\ Return(p)
    /\ UNCHANGED <<row, invited, calls>>

CommitTransfer(p, t) ==
    /\ pc[p] = "transfer"
    /\ plan[p][t] # {}
    /\ roles[actor[p]] = authority[p]
    /\ row[t] = "there" /\ roles[t] = plan[p][t] \ {"owner"}
    /\ roles' = [roles EXCEPT ![actor[p]] = StepsDown(authority[p]), ![t] = plan[p][t]]
    /\ Return(p)
    /\ UNCHANGED <<row, invited, calls>>

-------------------------------------------------------------------------------
\* A transaction is rolled back, or a call dies half-way.
Abort(p) ==
    /\ pc[p] # "idle"
    /\ Return(p)
    /\ UNCHANGED <<members, invited, calls>>

\* An invitation is accepted; another one like it may be out.
Join(m, S) ==
    /\ row[m] = "none" /\ S \in invited
    /\ row' = [row EXCEPT ![m] = "there"]
    /\ roles' = [roles EXCEPT ![m] = S]
    /\ invited' \in {invited, invited \ {S}}
    /\ UNCHANGED <<progress, calls>>

\* A member leaves or is removed.  The library does not let the owner go.
Depart(m) ==
    /\ row[m] = "there" /\ ~IsOwner(roles[m])
    /\ row' = [row EXCEPT ![m] = "deleted"]
    /\ roles' = [roles EXCEPT ![m] = {}]
    /\ UNCHANGED <<invited, progress, calls>>

-------------------------------------------------------------------------------
RoleSets == (SUBSET Assignable) \ {{}}

Request(p) ==
    /\ pc[p] = "idle" /\ calls < MaxCalls
    /\ \E a \in Members :
          \/ \E o \in Changes : \E S \in SUBSET Members : \E W \in RoleSets :
                BeginChange(p, o, a, S, W)
          \/ \E W \in RoleSets : BeginInvite(p, a, W)
          \/ \E t \in Members : BeginTransfer(p, a, t)

Work(p) ==
    \/ CheckPermission(p)
    \/ \E m \in Members : Decide(p, m) \/ Write(p, m) \/ CommitTransfer(p, m)
    \/ EndChange(p) \/ Invite(p)

Next ==
    \/ \E p \in Calls : Request(p) \/ Work(p) \/ Abort(p)
    \/ \E m \in Members : Depart(m) \/ \E S \in RoleSets : Join(m, S)

Spec == Init /\ [][Next]_vars

-------------------------------------------------------------------------------
\* A row has at least one role and nobody else has any.
TypeOK ==
    /\ row \in [Members -> {"none", "there", "deleted"}]
    /\ roles \in [Members -> SUBSET Roles]
    /\ \A m \in Members : row[m] = "there" <=> roles[m] # {}
    /\ invited \subseteq RoleSets
    /\ pc \in [Calls -> {"idle", "permission", "change", "invite", "transfer"}]
    /\ op \in [Calls -> Changes \cup {"invite", "none"}]
    /\ actor \in [Calls -> Members]
    /\ authority \in [Calls -> SUBSET Roles]
    /\ permitted \in [Calls -> BOOLEAN]
    /\ wanted \in [Calls -> SUBSET Assignable]
    /\ todo \in [Calls -> SUBSET Members]
    /\ found \in [Calls -> [Members -> SUBSET Roles]]
    /\ plan \in [Calls -> [Members -> SUBSET Roles]]
    /\ calls \in Nat

\* The call p writes the roles of m.
Wrote(p, m) == plan[p][m] # {} /\ plan'[p][m] = {} /\ roles' # roles /\ pc[p] = "change"

\* The member m has become the owner, or has ceased to be, since p has read it.
OwnershipMoved(p, m) == IsOwner(found[p][m]) # IsOwner(roles[m])

\* "a concurrent transfer attempt cannot interleave and leave the organization
\* with zero or multiple owners" (transferOrganizationOwnership).  The one owner is
\* lost only to a change that writes back the roles of a member whose ownership has
\* moved since it was read: not to transfers that overlap each other, to departures,
\* to invitations, or to a change that overlaps a transfer in any other way.
UniqueOwner ==
    [][HasOneOwner(roles) =>
          \/ HasOneOwner(roles')
          \/ \E p \in Calls : \E m \in Members : Wrote(p, m) /\ OwnershipMoved(p, m)]_vars

\* A change touches the roles of the owner only for the owner, and leaves ownership
\* where it is, also when its actor has lost or gained ownership since the request
\* began.  Excepted is a target whose ownership has moved since it was read.
OwnerIsUntouchable ==
    [][\A p \in Calls : \A m \in Members :
          Wrote(p, m) /\ ~OwnershipMoved(p, m) =>
             /\ IsOwner(roles'[m]) <=> IsOwner(roles[m])
             /\ IsOwner(roles[m]) => actor[p] = m]_vars

\* Nobody lowers their own rank, although the roles that are written were decided
\* on before others changed them; excepted is who became the owner, or ceased to
\* be, in between.
NobodyDemotesThemselves ==
    [][\A p \in Calls :
          Wrote(p, actor[p]) /\ ~OwnershipMoved(p, actor[p]) =>
             ~Outranks(roles[actor[p]], roles'[actor[p]])]_vars

\* Who changes another member leaves it below the rank the change was made with,
\* whatever the member was before and whoever else has changed it meanwhile.
OthersStayBelow ==
    [][\A p \in Calls : \A m \in Members :
          Wrote(p, m) /\ m # actor[p] => Outranks(authority[p], roles'[m])]_vars

\* The admin role comes from an owner: by a change or an invitation of who was the
\* owner when the request began, or by stepping down.  Only a change of one's own
\* roles can bring back an admin role that was taken away after the change had read
\* it.
AdminFromOwner ==
    [][/\ \A m \in Members : "admin" \in roles'[m] \ roles[m] =>
             \/ IsOwner(roles[m])
             \/ row[m] = "none" /\ roles'[m] \in invited
             \/ \E p \in Calls :
                   /\ Wrote(p, m)
                   /\ \/ IsOwner(authority[p])
                      \/ actor[p] = m /\ "admin" \in found[p][m]
       /\ \A S \in invited' \ invited : "admin" \in S =>
             \E p \in Calls : pc[p] = "invite" /\ IsOwner(authority[p])]_vars
===============================================================================
