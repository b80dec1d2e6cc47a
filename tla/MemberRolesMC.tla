---------------------------- MODULE MemberRolesMC ----------------------------
(***************************************************************************)
(* Instances of MemberRoles for TLC.                                       *)
(***************************************************************************)
EXTENDS MemberRoles, TLC

CONSTANTS ann, ben, cid, p1, p2

FoundedByAnn ==
    {[m \in {ann, ben, cid} |->
        CASE m = ann -> {"owner"} [] m = ben -> {"admin", "member"} [] m = cid -> S] :
     S \in {{}, {"admin"}, {"member"}}}

CallSymmetry == Permutations({p1, p2})
===============================================================================
