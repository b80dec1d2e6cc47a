--------------------------- MODULE MemberRolesProofs ---------------------------
(***************************************************************************)
(* Proofs about MemberRoles, for every organization, any number of calls   *)
(* at a time and every bound.                                              *)
(*                                                                         *)
(* The lemmas of the first part say what the checks of RolePolicy amount   *)
(* to when they are taken together.  RolesInv carries them from the moment *)
(* a change is decided on to the moment it is written: whatever overlaps,  *)
(* what is written owns the organization if the target did when it was     *)
(* read.                                                                   *)
(***************************************************************************)
EXTENDS MemberRoles, TLAPS

LEMMA RankValues == Rank["owner"] = 30 /\ Rank["admin"] = 20 /\ Rank["member"] = 10
BY DEF Rank

\* What outranks two role sets outranks both together.
LEMMA OutranksUnion ==
    ASSUME NEW A \in SUBSET Roles, NEW S \in SUBSET Roles, NEW T \in SUBSET Roles,
           Outranks(A, S), Outranks(A, T)
    PROVE  Outranks(A, S \cup T)
<1>1. PICK r \in A : \A t \in S : Rank[r] > Rank[t]
  BY DEF Outranks
<1>2. PICK q \in A : \A t \in T : Rank[q] > Rank[t]
  BY DEF Outranks
<1>3. \A x \in Roles : Rank[x] \in Nat
  BY RankValues DEF Roles
<1>4. CASE Rank[r] >= Rank[q]
  <2>1. \A t \in S \cup T : Rank[r] > Rank[t]
    BY <1>1, <1>2, <1>3, <1>4
  <2> QED
    BY <2>1 DEF Outranks
<1>5. CASE ~(Rank[r] >= Rank[q])
  <2>1. \A t \in S \cup T : Rank[q] > Rank[t]
    BY <1>1, <1>2, <1>3, <1>5
  <2> QED
    BY <2>1 DEF Outranks
<1> QED
  BY <1>4, <1>5

\* Only an owner outranks an admin.
LEMMA AboveAdmin ==
    ASSUME NEW A \in SUBSET Roles, NEW S \in SUBSET Roles,
           "admin" \in S, Outranks(A, S)
    PROVE  IsOwner(A)
<1>1. PICK r \in A : Rank[r] > Rank["admin"]
  BY DEF Outranks
<1> QED
  BY <1>1, RankValues DEF Roles, IsOwner

\* Nobody outranks an owner, and only an owner outranks whom may manage members.
LEMMA StandingIsNotOutranked ==
    ASSUME NEW A \in SUBSET Roles, NEW S \in SUBSET Roles, Outranks(A, S)
    PROVE  ~IsOwner(S) /\ (MayManageMembers(S) => IsOwner(A))
<1>1. PICK r \in A : \A t \in S : Rank[r] > Rank[t]
  BY DEF Outranks
<1>2. Rank[r] <= 30 /\ (r # "owner" => Rank[r] <= 20)
  BY RankValues DEF Roles
<1> QED
  BY <1>1, <1>2, RankValues DEF Roles, IsOwner, MayManageMembers

\* A change of another member leaves it below the actor and no owner.
LEMMA OthersEndBelow ==
    ASSUME NEW A \in SUBSET Roles, NEW C \in SUBSET Roles, NEW N \in SUBSET Roles,
           MayChange(FALSE, A, C, N)
    PROVE  ~IsOwner(N) /\ Outranks(A, N)
<1>1. ~IsOwner(C) /\ Outranks(A, C) /\ ~IsOwner(N)
  BY DEF MayChange, Manages, MayIntroduce
<1>2. CASE N \subseteq C
  BY <1>1, <1>2 DEF Outranks
<1>3. CASE ~(N \subseteq C)
  <2>1. Outranks(A, N \ C)
    BY <1>3 DEF MayChange, MayIntroduce, MayAssign
  <2>2. Outranks(A, C \cup (N \ C))
    BY <1>1, <2>1, OutranksUnion
  <2> QED
    BY <1>1, <2>2 DEF Outranks
<1> QED
  BY <1>2, <1>3

\* A change of one's own roles that changes anything leaves a role that manages
\* members.
LEMMA SelfKeepsStanding ==
    ASSUME NEW A \in SUBSET Roles, NEW C \in SUBSET Roles, NEW N \in SUBSET Roles,
           MayChange(TRUE, A, C, N), N # C
    PROVE  MayManageMembers(N)
<1>1. PICK r \in C \cap N : \A q \in C : Rank[r] >= Rank[q]
  BY DEF MayChange, RetainsHighest
<1>2. CASE r # "member"
  BY <1>1, <1>2 DEF MayManageMembers, Roles
<1>3. CASE r = "member"
  <2>0. "owner" \notin C /\ "admin" \notin C
    BY <1>1, <1>3, RankValues
  <2>1. C = {"member"}
    BY <1>1, <1>3, <2>0 DEF Roles
  <2> QED
    BY <1>1, <1>3, <2>1 DEF Roles, MayManageMembers
<1> QED
  BY <1>2, <1>3

\* The admin role is new only by an actor that owns the organization.
LEMMA AdminIsGiven ==
    ASSUME NEW A \in SUBSET Roles, NEW C \in SUBSET Roles, NEW N \in SUBSET Roles,
           NEW self \in BOOLEAN, MayChange(self, A, C, N), "admin" \in N
    PROVE  "admin" \in C \/ IsOwner(A)
<1> SUFFICES ASSUME "admin" \notin C PROVE IsOwner(A)
  OBVIOUS
<1>1. "admin" \in N \ C /\ Outranks(A, N \ C)
  BY DEF MayChange, MayIntroduce, MayAssign
<1> QED
  BY <1>1, AboveAdmin

\* No change of roles gives or takes ownership.
LEMMA OwnershipIsKept ==
    ASSUME NEW o \in Changes, NEW C \in SUBSET Roles, NEW W \in SUBSET Assignable
    PROVE  /\ Changed(o, C, W) \in SUBSET Roles
           /\ IsOwner(Changed(o, C, W)) <=> IsOwner(C)
BY DEF Changes, Changed, Roles, Assignable, IsOwner

LEMMA SteppingDown ==
    ASSUME NEW S \in SUBSET Roles
    PROVE  StepsDown(S) \in SUBSET Roles /\ StepsDown(S) # {} /\ ~IsOwner(StepsDown(S))
BY DEF StepsDown, Roles, IsOwner

-------------------------------------------------------------------------------
(***************************************************************************)
(* The invariants.                                                         *)
(***************************************************************************)

\* A transfer is from an owner to a new owner.
TransferOK ==
    \A p \in Calls : pc[p] = "transfer" =>
        /\ IsOwner(authority[p])
        /\ \A t \in Members : plan[p][t] # {} => IsOwner(plan[p][t])

\* Only a change or a transfer has decided on anything; a change is one of the
\* three, and every request asks for roles.
PlansOK ==
    \A p \in Calls :
        /\ pc[p] \notin {"change", "transfer"} => \A m \in Members : plan[p][m] = {}
        /\ pc[p] = "permission" => op[p] \in Changes \cup {"invite"}
        /\ pc[p] = "change" => op[p] \in Changes
        /\ pc[p] \in {"permission", "invite"} => wanted[p] \in RoleSets

\* What the checks of a change have established of what it is going to write.
Decided(p, m) ==
    /\ IsOwner(plan[p][m]) <=> IsOwner(found[p][m])
    /\ m # actor[p] => ~IsOwner(plan[p][m]) /\ Outranks(authority[p], plan[p][m])
    /\ m = actor[p] => MayManageMembers(plan[p][m])
    /\ "admin" \in plan[p][m] =>
           IsOwner(authority[p]) \/ (actor[p] = m /\ "admin" \in found[p][m])

ChangeOK ==
    \A p \in Calls : pc[p] = "change" =>
        \A m \in Members : plan[p][m] # {} => Decided(p, m)

RolesInv == TypeOK /\ TransferOK /\ PlansOK /\ ChangeOK

\* Before the first call nothing is planned.
THEOREM RolesInit == Init => RolesInv
<1> SUFFICES ASSUME Init PROVE RolesInv
  OBVIOUS
<1>1. roles \in [Members -> SUBSET Roles] /\ Members # {}
  BY FoundingAssumption DEF Init, HasOneOwner
<1>2. (CHOOSE m \in Members : TRUE) \in Members
  BY <1>1
<1>3. Nothing \in [Members -> SUBSET Roles] /\ \A m \in Members : Nothing[m] = {}
  BY DEF Nothing
<1>4. TypeOK
  <2>1. row \in [Members -> {"none", "there", "deleted"}]
    BY DEF Init
  <2>2. \A m \in Members : row[m] = "there" <=> roles[m] # {}
    BY DEF Init
  <2>3. /\ invited \subseteq RoleSets /\ calls \in Nat
        /\ pc \in [Calls -> {"idle", "permission", "change", "invite", "transfer"}]
        /\ op \in [Calls -> Changes \cup {"invite", "none"}]
        /\ authority \in [Calls -> SUBSET Roles] /\ permitted \in [Calls -> BOOLEAN]
        /\ wanted \in [Calls -> SUBSET Assignable] /\ todo \in [Calls -> SUBSET Members]
    BY DEF Init
  <2>4. actor \in [Calls -> Members]
    BY <1>2 DEF Init
  <2>5. found \in [Calls -> [Members -> SUBSET Roles]] /\ plan \in [Calls -> [Members -> SUBSET Roles]]
    BY <1>3 DEF Init
  <2> QED
    BY <1>1, <2>1, <2>2, <2>3, <2>4, <2>5 DEF TypeOK
<1>5. \A p \in Calls : pc[p] = "idle" /\ \A m \in Members : plan[p][m] = {}
  BY <1>3 DEF Init
<1> QED
  BY <1>4, <1>5 DEF RolesInv, TransferOK, PlansOK, ChangeOK

\* A call that is over is as it was at first, and the others are as they were.
LEMMA ReturnedCall ==
    ASSUME TypeOK, NEW p \in Calls, Return(p)
    PROVE  /\ pc' \in [Calls -> {"idle", "permission", "change", "invite", "transfer"}]
           /\ op' \in [Calls -> Changes \cup {"invite", "none"}]
           /\ actor' \in [Calls -> Members]
           /\ authority' \in [Calls -> SUBSET Roles]
           /\ permitted' \in [Calls -> BOOLEAN]
           /\ wanted' \in [Calls -> SUBSET Assignable]
           /\ todo' \in [Calls -> SUBSET Members]
           /\ found' \in [Calls -> [Members -> SUBSET Roles]]
           /\ plan' \in [Calls -> [Members -> SUBSET Roles]]
           /\ pc'[p] = "idle" /\ \A m \in Members : plan'[p][m] = {}
           /\ \A q \in Calls \ {p} :
                 /\ pc'[q] = pc[q] /\ actor'[q] = actor[q] /\ authority'[q] = authority[q]
                 /\ found'[q] = found[q] /\ plan'[q] = plan[q] /\ op'[q] = op[q]
                 /\ wanted'[q] = wanted[q]
<1>1. actor[p] \in Members
  BY DEF TypeOK
<1>2. (CHOOSE m \in Members : TRUE) \in Members
  BY <1>1
<1>3. Nothing \in [Members -> SUBSET Roles] /\ \A m \in Members : Nothing[m] = {}
  BY DEF Nothing
<1>4. actor' \in [Calls -> Members]
  BY <1>2 DEF Return, TypeOK
<1>5. found' \in [Calls -> [Members -> SUBSET Roles]] /\ plan' \in [Calls -> [Members -> SUBSET Roles]]
  BY <1>3 DEF Return, TypeOK
<1>6. plan'[p] = Nothing
  BY DEF Return, TypeOK
<1>7. /\ pc' \in [Calls -> {"idle", "permission", "change", "invite", "transfer"}]
      /\ op' \in [Calls -> Changes \cup {"invite", "none"}]
      /\ authority' \in [Calls -> SUBSET Roles]
      /\ permitted' \in [Calls -> BOOLEAN]
      /\ wanted' \in [Calls -> SUBSET Assignable]
      /\ todo' \in [Calls -> SUBSET Members]
      /\ pc'[p] = "idle"
  BY DEF Return, Goto, TypeOK
<1>8. \A q \in Calls \ {p} :
          /\ pc'[q] = pc[q] /\ actor'[q] = actor[q] /\ authority'[q] = authority[q]
          /\ found'[q] = found[q] /\ plan'[q] = plan[q] /\ op'[q] = op[q]
                 /\ wanted'[q] = wanted[q]
  BY DEF Return, Goto, TypeOK
<1> QED
  BY <1>3, <1>4, <1>5, <1>6, <1>7, <1>8

LEMMA ReturnKeepsPlans ==
    ASSUME RolesInv, NEW p \in Calls, Return(p)
    PROVE  TransferOK' /\ PlansOK' /\ ChangeOK'
<1>1. /\ pc'[p] = "idle" /\ \A m \in Members : plan'[p][m] = {}
      /\ \A q \in Calls \ {p} :
            /\ pc'[q] = pc[q] /\ actor'[q] = actor[q] /\ authority'[q] = authority[q]
            /\ found'[q] = found[q] /\ plan'[q] = plan[q] /\ op'[q] = op[q]
                 /\ wanted'[q] = wanted[q]
  BY ReturnedCall DEF RolesInv
<1>2. TransferOK'
  BY <1>1 DEF RolesInv, TransferOK
<1>3. PlansOK'
  BY <1>1 DEF RolesInv, PlansOK
<1>4. ChangeOK'
  <2> SUFFICES ASSUME NEW q \in Calls, pc'[q] = "change",
                      NEW m \in Members, plan'[q][m] # {}
               PROVE  Decided(q, m)'
    BY DEF ChangeOK
  <2>1. q # p
    BY <1>1
  <2>2. Decided(q, m)
    BY <1>1, <2>1 DEF RolesInv, ChangeOK
  <2> QED
    BY <1>1, <2>1, <2>2 DEF Decided
<1> QED
  BY <1>2, <1>3, <1>4

LEMMA RolesAfterBegin ==
    ASSUME RolesInv, NEW p \in Calls, NEW o \in Changes \cup {"invite"},
           NEW a \in Members, NEW S \in SUBSET Members, NEW W \in RoleSets,
           pc[p] = "idle", Begin(p, o, a, S, W)
    PROVE  RolesInv'
<1> USE DEF RolesInv
<1>1. W \in SUBSET Assignable
  BY DEF RoleSets
<1>2. TypeOK'
  BY <1>1 DEF Begin, Goto, TypeOK, members
<1>3. /\ pc'[p] = "permission" /\ UNCHANGED <<plan, found>>
      /\ \A m \in Members : plan[p][m] = {}
      /\ \A q \in Calls \ {p} :
            /\ pc'[q] = pc[q] /\ actor'[q] = actor[q] /\ authority'[q] = authority[q]
            /\ op'[q] = op[q] /\ wanted'[q] = wanted[q]
      /\ op'[p] = o /\ wanted'[p] = W
  BY DEF Begin, Goto, TypeOK, PlansOK
<1>4. TransferOK'
  BY <1>3 DEF TransferOK
<1>5. PlansOK'
  BY <1>3 DEF PlansOK
<1>6. ChangeOK'
  <2> SUFFICES ASSUME NEW q \in Calls, pc'[q] = "change",
                      NEW m \in Members, plan'[q][m] # {}
               PROVE  Decided(q, m)'
    BY DEF ChangeOK
  <2>1. q # p /\ Decided(q, m)
    BY <1>3 DEF ChangeOK
  <2> QED
    BY <1>3, <2>1 DEF Decided
<1> QED
  BY <1>2, <1>4, <1>5, <1>6

LEMMA RolesAfterPermission ==
    ASSUME RolesInv, NEW p \in Calls, CheckPermission(p)
    PROVE  RolesInv'
<1> USE DEF RolesInv
<1>1. MayManageMembers(roles[actor[p]]) \in BOOLEAN
  BY DEF MayManageMembers
<1>2. TypeOK'
  BY <1>1 DEF CheckPermission, Goto, TypeOK, members
<1>3. /\ pc'[p] \in {"invite", "change"}
      /\ pc'[p] = "change" => op[p] \in Changes
      /\ wanted[p] \in RoleSets
      /\ UNCHANGED <<plan, found, actor, authority, op, wanted>>
      /\ \A m \in Members : plan[p][m] = {}
      /\ \A q \in Calls \ {p} : pc'[q] = pc[q]
  BY DEF CheckPermission, Goto, TypeOK, PlansOK
<1>4. TransferOK'
  BY <1>3 DEF TransferOK
<1>5. PlansOK'
  BY <1>3 DEF PlansOK
<1>6. ChangeOK'
  BY <1>3 DEF ChangeOK, Decided
<1> QED
  BY <1>2, <1>4, <1>5, <1>6

\* The decision on a target, if there is one.
LEMMA DecisionTaken ==
    ASSUME RolesInv, NEW p \in Calls, NEW m \in Members, Decide(p, m)
    PROVE  \/ UNCHANGED <<found, plan>>
           \/ \E next \in SUBSET Roles :
                 /\ MayChange(m = actor[p], authority[p], roles[m], next)
                 /\ next # roles[m] /\ row[m] = "there"
                 /\ IsOwner(next) <=> IsOwner(roles[m])
                 /\ found' = [found EXCEPT ![p][m] = roles[m]]
                 /\ plan' = [plan EXCEPT ![p][m] = next]
<1> DEFINE next == Changed(op[p], roles[m], wanted[p])
<1>1. next \in SUBSET Roles /\ (IsOwner(next) <=> IsOwner(roles[m]))
  BY OwnershipIsKept DEF RolesInv, TypeOK, PlansOK, Decide
<1> QED
  BY <1>1 DEF Decide

LEMMA RolesAfterDecide ==
    ASSUME RolesInv, NEW p \in Calls, NEW m \in Members, Decide(p, m)
    PROVE  RolesInv'
<1> USE DEF RolesInv
<1>1. /\ pc[p] = "change"
      /\ UNCHANGED <<row, roles, invited, pc, op, actor, authority, permitted, wanted, calls>>
      /\ todo' \in [Calls -> SUBSET Members]
  BY DEF Decide, members, request, TypeOK
<1>2. CASE UNCHANGED <<found, plan>>
  BY <1>1, <1>2 DEF TypeOK, TransferOK, PlansOK, ChangeOK, Decided
<1>3. CASE ~UNCHANGED <<found, plan>>
  <2>1. PICK next \in SUBSET Roles :
           /\ MayChange(m = actor[p], authority[p], roles[m], next)
           /\ next # roles[m]
           /\ IsOwner(next) <=> IsOwner(roles[m])
           /\ found' = [found EXCEPT ![p][m] = roles[m]]
           /\ plan' = [plan EXCEPT ![p][m] = next]
    BY <1>3, DecisionTaken
  <2>2. authority[p] \in SUBSET Roles /\ roles[m] \in SUBSET Roles
    BY DEF TypeOK
  <2>3. /\ found' \in [Calls -> [Members -> SUBSET Roles]]
        /\ plan' \in [Calls -> [Members -> SUBSET Roles]]
        /\ plan'[p][m] = next /\ found'[p][m] = roles[m]
    BY <2>1, <2>2 DEF TypeOK
  <2>4. \A q \in Calls : \A t \in Members :
           q # p \/ t # m => plan'[q][t] = plan[q][t] /\ found'[q][t] = found[q][t]
    BY <2>1 DEF TypeOK
  <2>5. TypeOK'
    BY <1>1, <2>3 DEF TypeOK
  <2>6. TransferOK' /\ PlansOK'
    BY <1>1, <2>4 DEF TransferOK, PlansOK
  <2>7. Decided(p, m)'
    <3>1. m # actor[p] => ~IsOwner(next) /\ Outranks(authority[p], next)
      <4> HAVE m # actor[p]
      <4>1. MayChange(FALSE, authority[p], roles[m], next)
        BY <2>1
      <4> QED
        BY <2>2, <4>1, OthersEndBelow
    <3>2. m = actor[p] => MayManageMembers(next)
      <4> HAVE m = actor[p]
      <4>1. MayChange(TRUE, authority[p], roles[m], next)
        BY <2>1
      <4> QED
        BY <2>1, <2>2, <4>1, SelfKeepsStanding
    <3>3. "admin" \in next =>
             IsOwner(authority[p]) \/ (actor[p] = m /\ "admin" \in roles[m])
      <4> HAVE "admin" \in next
      <4>1. CASE m = actor[p]
        <5>1. "admin" \in roles[m] \/ IsOwner(authority[p])
          BY <2>1, <2>2, AdminIsGiven
        <5> QED
          BY <4>1, <5>1
      <4>2. CASE m # actor[p]
        BY <2>2, <3>1, <4>2, AboveAdmin
      <4> QED
        BY <4>1, <4>2
    <3> QED
      BY <1>1, <2>1, <2>3, <3>1, <3>2, <3>3 DEF Decided
  <2>8. ChangeOK'
    <3> SUFFICES ASSUME NEW q \in Calls, pc'[q] = "change",
                        NEW t \in Members, plan'[q][t] # {}
                 PROVE  Decided(q, t)'
      BY DEF ChangeOK
    <3>1. CASE q = p /\ t = m
      BY <2>7, <3>1
    <3>2. CASE q # p \/ t # m
      <4>1. Decided(q, t)
        BY <1>1, <2>4, <3>2 DEF ChangeOK
      <4> QED
        BY <1>1, <2>4, <3>2, <4>1 DEF Decided
    <3> QED
      BY <3>1, <3>2
  <2> QED
    BY <2>5, <2>6, <2>8
<1> QED
  BY <1>2, <1>3

LEMMA RolesAfterWrite ==
    ASSUME RolesInv, NEW p \in Calls, NEW m \in Members, Write(p, m)
    PROVE  RolesInv'
<1> USE DEF RolesInv
<1>1. /\ pc[p] = "change" /\ plan[p][m] # {}
      /\ UNCHANGED <<row, invited, pc, op, actor, authority, permitted, wanted, todo, calls>>
      /\ found' \in [Calls -> [Members -> SUBSET Roles]]
      /\ plan' \in [Calls -> [Members -> SUBSET Roles]]
      /\ plan'[p][m] = {}
  BY DEF Write, request, TypeOK
<1>2. \A q \in Calls : \A t \in Members :
         q # p \/ t # m => plan'[q][t] = plan[q][t] /\ found'[q][t] = found[q][t]
  BY DEF Write, TypeOK
<1>3. /\ roles' \in [Members -> SUBSET Roles]
      /\ \A t \in Members : row[t] = "there" <=> roles'[t] # {}
  <2>1. CASE UNCHANGED roles
    BY <2>1 DEF TypeOK
  <2>2. CASE row[m] = "there" /\ roles' = [roles EXCEPT ![m] = plan[p][m]]
    BY <1>1, <2>2 DEF TypeOK
  <2> QED
    BY <2>1, <2>2 DEF Write
<1>4. TypeOK'
  BY <1>1, <1>3 DEF TypeOK
<1>7. \A q \in Calls : q # p => \A t \in Members : plan'[q][t] = plan[q][t]
  BY <1>2
<1>5. TransferOK' /\ PlansOK'
  <2>1. TransferOK'
    BY <1>1, <1>7 DEF TransferOK
  <2>2. PlansOK'
    BY <1>1, <1>7 DEF PlansOK
  <2> QED
    BY <2>1, <2>2
<1>6. ChangeOK'
  <2> SUFFICES ASSUME NEW q \in Calls, pc'[q] = "change",
                      NEW t \in Members, plan'[q][t] # {}
               PROVE  Decided(q, t)'
    BY DEF ChangeOK
  <2>1. q # p \/ t # m
    BY <1>1
  <2>2. Decided(q, t)
    BY <1>1, <1>2, <2>1 DEF ChangeOK
  <2> QED
    BY <1>1, <1>2, <2>1, <2>2 DEF Decided
<1> QED
  BY <1>4, <1>5, <1>6

LEMMA RolesAfterReturn ==
    ASSUME RolesInv, NEW p \in Calls, Return(p), UNCHANGED <<row, calls>>,
           invited' \subseteq RoleSets, roles' \in [Members -> SUBSET Roles],
           \A m \in Members : row[m] = "there" <=> roles'[m] # {}
    PROVE  RolesInv'
<1>1. TypeOK'
  BY ReturnedCall DEF RolesInv, TypeOK
<1> QED
  BY <1>1, ReturnKeepsPlans DEF RolesInv

LEMMA RolesAfterEnd ==
    ASSUME RolesInv, NEW p \in Calls, EndChange(p) \/ Invite(p) \/ Abort(p)
    PROVE  RolesInv'
<1>1. Return(p) /\ UNCHANGED <<row, roles, calls>>
  BY DEF EndChange, Invite, Abort, members
<1>2. invited' \subseteq RoleSets
  <2>1. CASE UNCHANGED invited
    BY <2>1 DEF RolesInv, TypeOK
  <2>2. CASE invited' = invited \cup {wanted[p]} /\ pc[p] = "invite"
    <3>1. wanted[p] \in RoleSets
      BY <2>2 DEF RolesInv, PlansOK
    <3> QED
      BY <2>2, <3>1 DEF RolesInv, TypeOK
  <2> QED
    BY <2>1, <2>2 DEF EndChange, Invite, Abort
<1> QED
  BY <1>1, <1>2, RolesAfterReturn DEF RolesInv, TypeOK

LEMMA RolesAfterBeginTransfer ==
    ASSUME RolesInv, NEW p \in Calls, NEW a \in Members, NEW t \in Members,
           pc[p] = "idle", BeginTransfer(p, a, t)
    PROVE  RolesInv'
<1> USE DEF RolesInv
<1>1. roles[t] \cup {"owner"} \in SUBSET Roles
  BY DEF TypeOK, Roles
<1>2. TypeOK'
  BY <1>1 DEF BeginTransfer, Goto, TypeOK, members
<1>3. /\ pc'[p] = "transfer" /\ IsOwner(authority'[p])
      /\ \A m \in Members : plan[p][m] = {}
      /\ \A m \in Members : plan'[p][m] = IF m = t THEN roles[t] \cup {"owner"} ELSE plan[p][m]
      /\ UNCHANGED <<found, op, wanted>>
      /\ \A q \in Calls \ {p} :
            /\ pc'[q] = pc[q] /\ actor'[q] = actor[q] /\ authority'[q] = authority[q]
            /\ plan'[q] = plan[q]
  BY DEF BeginTransfer, Goto, TypeOK, PlansOK, MayTransfer
<1>4. TransferOK'
  BY <1>3 DEF TransferOK, IsOwner
<1>5. PlansOK'
  BY <1>3 DEF PlansOK
<1>6. ChangeOK'
  <2> SUFFICES ASSUME NEW q \in Calls, pc'[q] = "change",
                      NEW m \in Members, plan'[q][m] # {}
               PROVE  Decided(q, m)'
    BY DEF ChangeOK
  <2>1. q # p
    BY <1>3
  <2>2. Decided(q, m)
    BY <1>3, <2>1 DEF ChangeOK
  <2> QED
    BY <1>3, <2>1, <2>2 DEF Decided
<1> QED
  BY <1>2, <1>4, <1>5, <1>6

\* What a transfer does to the roles.
LEMMA Transferred ==
    ASSUME RolesInv, NEW p \in Calls, NEW t \in Members, CommitTransfer(p, t)
    PROVE  /\ actor[p] \in Members /\ actor[p] # t
           /\ IsOwner(roles[actor[p]]) /\ row[actor[p]] = "there" /\ row[t] = "there"
           /\ roles' \in [Members -> SUBSET Roles]
           /\ roles'[actor[p]] = StepsDown(roles[actor[p]])
           /\ roles'[t] = roles[t] \cup {"owner"}
           /\ \A m \in Members \ {actor[p], t} : roles'[m] = roles[m]
<1>1. /\ IsOwner(authority[p]) /\ roles[actor[p]] = authority[p]
      /\ IsOwner(plan[p][t]) /\ row[t] = "there" /\ roles[t] = plan[p][t] \ {"owner"}
      /\ roles' = [roles EXCEPT ![actor[p]] = StepsDown(authority[p]), ![t] = plan[p][t]]
  BY DEF RolesInv, TransferOK, CommitTransfer
<1>2. actor[p] \in Members /\ actor[p] # t /\ roles[actor[p]] # {}
  BY <1>1 DEF RolesInv, TypeOK, IsOwner
<1>3. row[actor[p]] = "there"
  BY <1>2 DEF RolesInv, TypeOK
<1>9. authority[p] \in SUBSET Roles /\ plan[p][t] \in SUBSET Roles
  BY DEF RolesInv, TypeOK
<1>4. StepsDown(authority[p]) \in SUBSET Roles
  BY <1>9, SteppingDown
<1>5. plan[p][t] = roles[t] \cup {"owner"}
  BY <1>1 DEF IsOwner
<1>6. roles' \in [Members -> SUBSET Roles]
  BY <1>1, <1>2, <1>4, <1>9 DEF RolesInv, TypeOK
<1>7. \A m \in Members : roles'[m] = IF m = t THEN plan[p][t]
                                   ELSE IF m = actor[p] THEN StepsDown(authority[p])
                                   ELSE roles[m]
  BY <1>1, <1>2 DEF RolesInv, TypeOK
<1> QED
  BY <1>1, <1>2, <1>3, <1>5, <1>6, <1>7

LEMMA RolesAfterCommit ==
    ASSUME RolesInv, NEW p \in Calls, NEW t \in Members, CommitTransfer(p, t)
    PROVE  RolesInv'
<1>1. Return(p) /\ UNCHANGED <<row, invited, calls>>
  BY DEF CommitTransfer
<1>2. roles[actor[p]] \in SUBSET Roles
  BY Transferred DEF RolesInv, TypeOK
<1>3. StepsDown(roles[actor[p]]) # {}
  BY <1>2, SteppingDown
<1>4. /\ roles'[t] # {} /\ roles'[actor[p]] # {}
      /\ row[t] = "there" /\ row[actor[p]] = "there"
      /\ \A m \in Members \ {actor[p], t} : roles'[m] = roles[m]
  BY <1>3, Transferred
<1>5. \A m \in Members : row[m] = "there" <=> roles'[m] # {}
  BY <1>4 DEF RolesInv, TypeOK
<1> QED
  BY <1>1, <1>5, Transferred, RolesAfterReturn DEF RolesInv, TypeOK

LEMMA RolesAfterMembership ==
    ASSUME RolesInv, NEW m \in Members,
           Depart(m) \/ \E S \in RoleSets : Join(m, S)
    PROVE  RolesInv'
<1> USE DEF RolesInv
<1>1. UNCHANGED <<pc, op, actor, authority, permitted, wanted, todo, found, plan, calls>>
  BY DEF Depart, Join, progress, request
<1>2. TransferOK' /\ PlansOK' /\ ChangeOK'
  BY <1>1 DEF TransferOK, PlansOK, ChangeOK, Decided
<1>3. TypeOK'
  <2>1. CASE Depart(m)
    <3>1. row' \in [Members -> {"none", "there", "deleted"}] /\ roles' \in [Members -> SUBSET Roles]
      BY <2>1 DEF Depart, TypeOK
    <3>2. \A t \in Members : row'[t] = "there" <=> roles'[t] # {}
      BY <2>1 DEF Depart, TypeOK
    <3> QED
      BY <1>1, <2>1, <3>1, <3>2 DEF Depart, TypeOK
  <2>2. ASSUME NEW S \in RoleSets, Join(m, S)
        PROVE  TypeOK'
    <3>1. S \in SUBSET Roles /\ S # {}
      BY DEF RoleSets, Assignable, Roles
    <3>2. row' \in [Members -> {"none", "there", "deleted"}] /\ roles' \in [Members -> SUBSET Roles]
      BY <2>2, <3>1 DEF Join, TypeOK
    <3>3. \A t \in Members : row'[t] = "there" <=> roles'[t] # {}
      BY <2>2, <3>1 DEF Join, TypeOK
    <3>4. invited' \subseteq RoleSets
      BY <2>2 DEF Join, TypeOK
    <3> QED
      BY <1>1, <3>2, <3>3, <3>4 DEF TypeOK
  <2> QED
    BY <2>1, <2>2
<1> QED
  BY <1>2, <1>3

\* Every step keeps the types and what the checks of each planned write have shown.
THEOREM RolesStep == RolesInv /\ [Next]_vars => RolesInv'
<1> SUFFICES ASSUME RolesInv, [Next]_vars PROVE RolesInv'
  OBVIOUS
<1>1. ASSUME NEW p \in Calls, Request(p) PROVE RolesInv'
  <2>0. pc[p] = "idle"
    BY <1>1 DEF Request
  <2>1. PICK a \in Members :
           \/ \E o \in Changes : \E S \in SUBSET Members : \E W \in RoleSets :
                 BeginChange(p, o, a, S, W)
           \/ \E W \in RoleSets : BeginInvite(p, a, W)
           \/ \E t \in Members : BeginTransfer(p, a, t)
    BY <1>1 DEF Request
  <2>2. ASSUME NEW o \in Changes, NEW S \in SUBSET Members, NEW W \in RoleSets,
               BeginChange(p, o, a, S, W)
        PROVE  RolesInv'
    BY <2>0, <2>2, RolesAfterBegin DEF BeginChange
  <2>3. ASSUME NEW W \in RoleSets, BeginInvite(p, a, W) PROVE RolesInv'
    BY <2>0, <2>3, RolesAfterBegin DEF BeginInvite
  <2>4. ASSUME NEW t \in Members, BeginTransfer(p, a, t) PROVE RolesInv'
    BY <2>0, <2>4, RolesAfterBeginTransfer
  <2> QED
    BY <2>1, <2>2, <2>3, <2>4
<1>2. ASSUME NEW p \in Calls, Work(p) PROVE RolesInv'
  BY <1>2, RolesAfterPermission, RolesAfterDecide, RolesAfterWrite, RolesAfterCommit,
     RolesAfterEnd DEF Work
<1>3. ASSUME NEW p \in Calls, Abort(p) PROVE RolesInv'
  BY <1>3, RolesAfterEnd
<1>4. ASSUME NEW m \in Members, Depart(m) \/ \E S \in RoleSets : Join(m, S)
      PROVE  RolesInv'
  BY <1>4, RolesAfterMembership
<1>5. CASE UNCHANGED vars
  BY <1>5 DEF vars, members, progress, request, RolesInv, TypeOK, TransferOK, PlansOK,
              ChangeOK, Decided
<1> QED
  BY <1>1, <1>2, <1>3, <1>4, <1>5 DEF Next

\* Member rows and requests keep their types, and a row always has a role.
THEOREM RolesTypeCorrect == Spec => []TypeOK
<1>1. RolesInv => TypeOK
  BY DEF RolesInv
<1> QED
  BY <1>1, RolesInit, RolesStep, PTL DEF Spec

\* A planned write has passed the checks of the call, in every reachable state.
THEOREM RolesInvariant == Spec => []RolesInv
BY RolesInit, RolesStep, PTL DEF Spec

-------------------------------------------------------------------------------
(***************************************************************************)
(* What a write may do.                                                    *)
(***************************************************************************)

\* The steps that change roles.
LEMMA RolesChangeBy ==
    ASSUME Next, roles' # roles
    PROVE  \/ \E p \in Calls : \E m \in Members : Write(p, m) \/ CommitTransfer(p, m)
           \/ \E m \in Members : Depart(m) \/ \E S \in RoleSets : Join(m, S)
<1>1. ASSUME NEW p \in Calls, Request(p) PROVE FALSE
  BY <1>1 DEF Request, BeginChange, BeginInvite, Begin, BeginTransfer, members
<1>2. ASSUME NEW p \in Calls, CheckPermission(p) \/ EndChange(p) \/ Invite(p) \/ Abort(p)
      PROVE  FALSE
  BY <1>2 DEF CheckPermission, EndChange, Invite, Abort, members
<1>3. ASSUME NEW p \in Calls, NEW m \in Members, Decide(p, m) PROVE FALSE
  BY <1>3 DEF Decide, members
<1> QED
  BY <1>1, <1>2, <1>3 DEF Next, Work

\* A call that writes a member does so in a step of its own.
LEMMA WroteIsWrite ==
    ASSUME RolesInv, Next, NEW p \in Calls, NEW m \in Members, Wrote(p, m)
    PROVE  /\ Write(p, m) /\ Decided(p, m) /\ plan[p][m] # {}
           /\ roles'[m] = plan[p][m]
<1>1. plan[p][m] # {} /\ plan'[p][m] = {} /\ roles' # roles /\ pc[p] = "change"
  BY DEF Wrote
<1>2. ASSUME NEW t \in Members, Depart(t) \/ \E S \in RoleSets : Join(t, S) PROVE FALSE
  BY <1>1, <1>2 DEF Depart, Join, progress
<1>3. ASSUME NEW q \in Calls, NEW t \in Members, CommitTransfer(q, t) PROVE FALSE
  <2>1. q # p /\ Return(q)
    BY <1>1, <1>3 DEF CommitTransfer
  <2>2. plan'[p] = plan[p]
    BY <2>1, ReturnedCall DEF RolesInv
  <2> QED
    BY <1>1, <2>2
<1>4. ASSUME NEW q \in Calls, NEW t \in Members, Write(q, t) PROVE q = p /\ t = m
  BY <1>1, <1>4 DEF Write, RolesInv, TypeOK
<1>5. Write(p, m)
  BY <1>1, <1>2, <1>3, <1>4, RolesChangeBy
<1>6. roles'[m] = plan[p][m]
  BY <1>1, <1>5 DEF Write, RolesInv, TypeOK
<1> QED
  BY <1>1, <1>5, <1>6 DEF RolesInv, ChangeOK

\* Whatever overlaps: who changes another member leaves it below the rank the
\* change was made with.
THEOREM OthersBelow == Spec => OthersStayBelow
<1>1. RolesInv /\ Next =>
        \A p \in Calls : \A m \in Members :
           Wrote(p, m) /\ m # actor[p] => Outranks(authority[p], roles'[m])
  <2> SUFFICES ASSUME RolesInv, Next, NEW p \in Calls, NEW m \in Members,
                      Wrote(p, m), m # actor[p]
               PROVE  Outranks(authority[p], roles'[m])
    OBVIOUS
  <2> QED
    BY WroteIsWrite DEF Decided
<1>2. RolesInv /\ [Next]_vars =>
        [\A p \in Calls : \A m \in Members :
            Wrote(p, m) /\ m # actor[p] => Outranks(authority[p], roles'[m])]_vars
  BY <1>1
<1> QED
  BY <1>2, RolesInvariant, PTL DEF Spec, OthersStayBelow

\* A write of roles leaves ownership where it is, unless it has moved since the
\* target was read.
LEMMA WriteKeepsOwnership ==
    ASSUME RolesInv, Next, NEW p \in Calls, NEW m \in Members,
           Wrote(p, m), ~OwnershipMoved(p, m)
    PROVE  /\ IsOwner(plan[p][m]) <=> IsOwner(roles[m])
           /\ \A t \in Members : IsOwner(roles'[t]) <=> IsOwner(roles[t])
<1>1. Write(p, m) /\ Decided(p, m) /\ roles'[m] = plan[p][m]
  BY WroteIsWrite
<1>2. IsOwner(plan[p][m]) <=> IsOwner(roles[m])
  BY <1>1 DEF Decided, OwnershipMoved
<1>3. \A t \in Members \ {m} : roles'[t] = roles[t]
  BY <1>1 DEF Write, RolesInv, TypeOK
<1> QED
  BY <1>1, <1>2, <1>3

\* A transfer hands over the one ownership there is.
LEMMA TransferKeepsOneOwner ==
    ASSUME RolesInv, HasOneOwner(roles),
           NEW p \in Calls, NEW t \in Members, CommitTransfer(p, t)
    PROVE  HasOneOwner(roles')
<1>1. /\ actor[p] \in Members /\ actor[p] # t /\ IsOwner(roles[actor[p]])
      /\ roles'[actor[p]] = StepsDown(roles[actor[p]])
      /\ roles'[t] = roles[t] \cup {"owner"}
      /\ \A m \in Members \ {actor[p], t} : roles'[m] = roles[m]
  BY Transferred
<1>2. \A m \in Members : IsOwner(roles[m]) <=> m = actor[p]
  BY <1>1 DEF HasOneOwner
<1>3. ~IsOwner(roles'[actor[p]])
  <2>1. roles[actor[p]] \in SUBSET Roles
    BY <1>1 DEF RolesInv, TypeOK
  <2> QED
    BY <1>1, <2>1, SteppingDown
<1>4. IsOwner(roles'[t])
  BY <1>1 DEF IsOwner
<1>5. \A m \in Members \ {actor[p], t} : ~IsOwner(roles'[m])
  BY <1>1, <1>2
<1> QED
  BY <1>3, <1>4, <1>5 DEF HasOneOwner

\* Who joins is no owner, and who departs has not been one.
LEMMA MembershipKeepsOwnership ==
    ASSUME RolesInv, NEW m \in Members, Depart(m) \/ \E S \in RoleSets : Join(m, S)
    PROVE  \A t \in Members : IsOwner(roles'[t]) <=> IsOwner(roles[t])
<1>1. CASE Depart(m)
  <2>1. /\ ~IsOwner(roles[m]) /\ roles'[m] = {}
        /\ \A t \in Members \ {m} : roles'[t] = roles[t]
    BY <1>1 DEF Depart, RolesInv, TypeOK
  <2> QED
    BY <2>1 DEF IsOwner
<1>2. ASSUME NEW S \in RoleSets, Join(m, S)
      PROVE  \A t \in Members : IsOwner(roles'[t]) <=> IsOwner(roles[t])
  <2>1. /\ roles[m] = {} /\ roles'[m] = S /\ "owner" \notin S
        /\ \A t \in Members \ {m} : roles'[t] = roles[t]
    BY <1>2 DEF Join, RolesInv, TypeOK, RoleSets, Assignable
  <2> QED
    BY <2>1 DEF IsOwner
<1> QED
  BY <1>1, <1>2

\* The one owner is lost only to a write over a member whose ownership has moved
\* since it was read: transfers that overlap each other never lose it.
THEOREM OnlyOneOwner == Spec => UniqueOwner
<1>1. ASSUME RolesInv, Next, HasOneOwner(roles),
             ~\E p \in Calls : \E m \in Members : Wrote(p, m) /\ OwnershipMoved(p, m)
      PROVE  HasOneOwner(roles')
  <2>1. CASE roles' = roles
    BY <1>1, <2>1
  <2>2. ASSUME roles' # roles, NEW p \in Calls, NEW m \in Members, Write(p, m)
        PROVE  HasOneOwner(roles')
    <3>1. Wrote(p, m)
      BY <1>1, <2>2 DEF Wrote, Write, RolesInv, TypeOK
    <3>2. \A t \in Members : IsOwner(roles'[t]) <=> IsOwner(roles[t])
      BY <1>1, <3>1, WriteKeepsOwnership
    <3> QED
      BY <1>1, <3>2 DEF HasOneOwner
  <2>3. ASSUME NEW p \in Calls, NEW m \in Members, CommitTransfer(p, m)
        PROVE  HasOneOwner(roles')
    BY <1>1, <2>3, TransferKeepsOneOwner
  <2>4. ASSUME NEW m \in Members, Depart(m) \/ \E S \in RoleSets : Join(m, S)
        PROVE  HasOneOwner(roles')
    <3>1. \A t \in Members : IsOwner(roles'[t]) <=> IsOwner(roles[t])
      BY <1>1, <2>4, MembershipKeepsOwnership
    <3> QED
      BY <1>1, <3>1 DEF HasOneOwner
  <2> QED
    BY <1>1, <2>1, <2>2, <2>3, <2>4, RolesChangeBy
<1>2. RolesInv /\ [Next]_vars =>
        [HasOneOwner(roles) =>
            \/ HasOneOwner(roles')
            \/ \E p \in Calls : \E m \in Members : Wrote(p, m) /\ OwnershipMoved(p, m)]_vars
  BY <1>1
<1> QED
  BY <1>2, RolesInvariant, PTL DEF Spec, UniqueOwner

\* Only the owner changes the owner's roles, and no change of roles moves ownership,
\* however stale the authority it is made with; excepted is a target whose ownership
\* has moved since it was read.
THEOREM OwnerUntouched == Spec => OwnerIsUntouchable
<1>1. ASSUME RolesInv, Next, NEW p \in Calls, NEW m \in Members,
             Wrote(p, m), ~OwnershipMoved(p, m)
      PROVE  /\ IsOwner(roles'[m]) <=> IsOwner(roles[m])
             /\ IsOwner(roles[m]) => actor[p] = m
  <2>1. Decided(p, m)
    BY <1>1, WroteIsWrite
  <2>2. IsOwner(plan[p][m]) <=> IsOwner(roles[m])
    BY <1>1, WriteKeepsOwnership
  <2>3. IsOwner(roles'[m]) <=> IsOwner(roles[m])
    BY <1>1, WriteKeepsOwnership
  <2> QED
    BY <2>1, <2>2, <2>3 DEF Decided
<1>2. RolesInv /\ [Next]_vars =>
        [\A p \in Calls : \A m \in Members :
            Wrote(p, m) /\ ~OwnershipMoved(p, m) =>
               /\ IsOwner(roles'[m]) <=> IsOwner(roles[m])
               /\ IsOwner(roles[m]) => actor[p] = m]_vars
  BY <1>1
<1> QED
  BY <1>2, RolesInvariant, PTL DEF Spec, OwnerIsUntouchable

\* Nobody lowers their own rank, unless they became the owner, or ceased to be,
\* between the read and the write.
THEOREM NoSelfDemotion == Spec => NobodyDemotesThemselves
<1>1. ASSUME RolesInv, Next, NEW p \in Calls,
             Wrote(p, actor[p]), ~OwnershipMoved(p, actor[p])
      PROVE  ~Outranks(roles[actor[p]], roles'[actor[p]])
  <2> SUFFICES ASSUME Outranks(roles[actor[p]], roles'[actor[p]]) PROVE FALSE
    OBVIOUS
  <2>1. actor[p] \in Members
    BY <1>1 DEF RolesInv, TypeOK
  <2>2. Decided(p, actor[p]) /\ roles'[actor[p]] = plan[p][actor[p]]
    BY <1>1, <2>1, WroteIsWrite
  <2>3. MayManageMembers(plan[p][actor[p]])
    BY <2>2 DEF Decided
  <2>4. IsOwner(plan[p][actor[p]]) <=> IsOwner(roles[actor[p]])
    BY <1>1, <2>1, WriteKeepsOwnership
  <2>5. roles[actor[p]] \in SUBSET Roles /\ plan[p][actor[p]] \in SUBSET Roles
    BY <1>1, <2>1 DEF RolesInv, TypeOK
  <2>6. ~IsOwner(plan[p][actor[p]]) /\ IsOwner(roles[actor[p]])
    BY <2>2, <2>3, <2>5, StandingIsNotOutranked
  <2> QED
    BY <2>4, <2>6
<1>2. RolesInv /\ [Next]_vars =>
        [\A p \in Calls :
            Wrote(p, actor[p]) /\ ~OwnershipMoved(p, actor[p]) =>
               ~Outranks(roles[actor[p]], roles'[actor[p]])]_vars
  BY <1>1
<1> QED
  BY <1>2, RolesInvariant, PTL DEF Spec, NobodyDemotesThemselves

\* A step that gives a member the admin role.
AdminGiven(m) ==
    \/ IsOwner(roles[m])
    \/ row[m] = "none" /\ roles'[m] \in invited
    \/ \E p \in Calls :
          /\ Wrote(p, m)
          /\ \/ IsOwner(authority[p])
             \/ actor[p] = m /\ "admin" \in found[p][m]

\* The admin role comes from who was the owner when the request began, from stepping
\* down or from an invitation, except that a change of one's own roles can restore it.
THEOREM AdminsAreTheOwners == Spec => AdminFromOwner
<1>1. ASSUME RolesInv, Next, NEW m \in Members, "admin" \in roles'[m] \ roles[m]
      PROVE  AdminGiven(m)
  <2>1. ASSUME NEW p \in Calls, NEW t \in Members, Write(p, t)
        PROVE  AdminGiven(m)
    <3>1. t = m /\ roles'[m] = plan[p][m] /\ pc[p] = "change" /\ plan[p][m] # {}
          /\ plan'[p][m] = {} /\ roles' # roles
      BY <1>1, <2>1 DEF Write, RolesInv, TypeOK
    <3>2. Wrote(p, m)
      BY <3>1 DEF Wrote
    <3>3. IsOwner(authority[p]) \/ (actor[p] = m /\ "admin" \in found[p][m])
      BY <1>1, <3>1 DEF RolesInv, ChangeOK, Decided
    <3> QED
      BY <3>2, <3>3 DEF AdminGiven
  <2>2. ASSUME NEW p \in Calls, NEW t \in Members, CommitTransfer(p, t)
        PROVE  AdminGiven(m)
    <3>1. /\ IsOwner(roles[actor[p]]) /\ roles'[t] = roles[t] \cup {"owner"}
          /\ \A s \in Members \ {actor[p], t} : roles'[s] = roles[s]
      BY <1>1, <2>2, Transferred
    <3>2. m = actor[p]
      BY <1>1, <3>1
    <3> QED
      BY <3>1, <3>2 DEF AdminGiven
  <2>3. ASSUME NEW t \in Members, Depart(t) PROVE AdminGiven(m)
    BY <1>1, <2>3 DEF Depart, RolesInv, TypeOK
  <2>4. ASSUME NEW t \in Members, NEW S \in RoleSets, Join(t, S) PROVE AdminGiven(m)
    <3>1. t = m /\ row[m] = "none" /\ roles'[m] = S /\ S \in invited
      BY <1>1, <2>4 DEF Join, RolesInv, TypeOK
    <3> QED
      BY <3>1 DEF AdminGiven
  <2> QED
    BY <1>1, <2>1, <2>2, <2>3, <2>4, RolesChangeBy
<1>2. ASSUME RolesInv, Next, NEW S \in invited' \ invited, "admin" \in S
      PROVE  \E p \in Calls : pc[p] = "invite" /\ IsOwner(authority[p])
  <2>1. PICK p \in Calls : Invite(p)
    <3>1. ASSUME NEW p \in Calls, Request(p) PROVE FALSE
      BY <1>2, <3>1 DEF Request, BeginChange, BeginInvite, Begin, BeginTransfer
    <3>2. ASSUME NEW p \in Calls, CheckPermission(p) \/ EndChange(p) \/ Abort(p) PROVE FALSE
      BY <1>2, <3>2 DEF CheckPermission, EndChange, Abort
    <3>3. ASSUME NEW p \in Calls, NEW m \in Members,
                 Decide(p, m) \/ Write(p, m) \/ CommitTransfer(p, m)
          PROVE  FALSE
      BY <1>2, <3>3 DEF Decide, Write, CommitTransfer
    <3>4. ASSUME NEW m \in Members, Depart(m) PROVE FALSE
      BY <1>2, <3>4 DEF Depart
    <3>5. ASSUME NEW m \in Members, NEW W \in RoleSets, Join(m, W) PROVE FALSE
      BY <1>2, <3>5 DEF Join
    <3> QED
      BY <1>2, <3>1, <3>2, <3>3, <3>4, <3>5 DEF Next, Work
  <2>2. S = wanted[p] /\ pc[p] = "invite" /\ Outranks(authority[p], wanted[p])
    BY <1>2, <2>1 DEF Invite, MayAssign
  <2>3. authority[p] \in SUBSET Roles /\ wanted[p] \in SUBSET Roles
    BY <1>2 DEF RolesInv, TypeOK, Assignable, Roles
  <2>4. IsOwner(authority[p])
    BY <1>2, <2>2, <2>3, AboveAdmin
  <2> QED
    BY <2>2, <2>4
<1>3. RolesInv /\ [Next]_vars =>
        [/\ \A m \in Members : "admin" \in roles'[m] \ roles[m] => AdminGiven(m)
         /\ \A S \in invited' \ invited : "admin" \in S =>
               \E p \in Calls : pc[p] = "invite" /\ IsOwner(authority[p])]_vars
  BY <1>1, <1>2
<1>4. RolesInv /\ [Next]_vars =>
        [/\ \A m \in Members : "admin" \in roles'[m] \ roles[m] =>
               \/ IsOwner(roles[m])
               \/ row[m] = "none" /\ roles'[m] \in invited
               \/ \E p \in Calls :
                     /\ Wrote(p, m)
                     /\ \/ IsOwner(authority[p])
                        \/ actor[p] = m /\ "admin" \in found[p][m]
         /\ \A S \in invited' \ invited : "admin" \in S =>
               \E p \in Calls : pc[p] = "invite" /\ IsOwner(authority[p])]_vars
  BY <1>3 DEF AdminGiven
<1> QED
  BY <1>4, RolesInvariant, PTL DEF Spec, AdminFromOwner

===============================================================================
