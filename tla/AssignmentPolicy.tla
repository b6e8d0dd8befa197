-------------------------- MODULE AssignmentPolicy --------------------------
(***************************************************************************)
(* Who may give a task to whom: the rules of policy/assignment.py over the *)
(* profiles of the assignment directory (policy/profiles.py).              *)
(*                                                                         *)
(* A profile is [listed, dept, manager, active].  An edge is               *)
(* [from, to, both], and a side of it is [id, dept], where Anyone and      *)
(* AnyDept stand for a key that is absent.  The rules of a policy are      *)
(* [deny, edges, ceo, same, cross], its lists being sets, since a list is  *)
(* only asked whether one of its edges applies.                            *)
(***************************************************************************)

CONSTANTS Anyone,   \* a side that names no person, a profile that names no manager
          AnyDept,  \* a side that names no department
          CeoDept   \* ceo_department_codes, one of them

\* get_profile: the entry exists, its department is a department, and it is
\* active; otherwise ProfileNotFound.
Listed(profile, p) == profile[p].listed /\ profile[p].active

\* _matches: an empty side matches nobody.
Matches(side, profile, p) ==
    /\ side.id # Anyone \/ side.dept # AnyDept
    /\ side.id \in {Anyone, p}
    /\ side.dept \in {AnyDept, profile[p].dept}

\* _edge_applies, from requester to assignee.
EdgeApplies(edge, profile, r, a) ==
    \/ Matches(edge.from, profile, r) /\ Matches(edge.to, profile, a)
    \/ edge.both /\ Matches(edge.from, profile, a) /\ Matches(edge.to, profile, r)

\* _ceo_may_assign_direct_report.
CeoMayAssignDirectReport(rules, profile, r, a) ==
    rules.ceo /\ profile[r].dept = CeoDept /\ profile[a].manager = r

\* can_assign: a deny edge goes before everything that allows.
CanAssign(rules, profile, r, a) ==
    /\ ~\E edge \in rules.deny : EdgeApplies(edge, profile, r, a)
    /\ \/ CeoMayAssignDirectReport(rules, profile, r, a)
       \/ profile[r].dept = profile[a].dept /\ rules.same
       \/ \E edge \in rules.edges : EdgeApplies(edge, profile, r, a)
       \/ profile[r].dept # profile[a].dept /\ rules.cross

\* assert_can_assign.
MayAssign(rules, profile, r, a) ==
    Listed(profile, r) /\ Listed(profile, a) /\ CanAssign(rules, profile, r, a)

\* assert_assignee_department_matches: the directory is authoritative.
DepartmentMatches(profile, a, dept) == Listed(profile, a) /\ profile[a].dept = dept
=============================================================================
