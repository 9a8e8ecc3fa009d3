------------------------------- MODULE TeamTree -------------------------------
(***************************************************************************)
(* The team of a member: fb_users.parent_id, its soft-delete flag and the  *)
(* agent level that limits how deep a team is shown.                       *)
(*                                                                         *)
(* ChangeTeamParentByUsername is four statements without a transaction:    *)
(* it finds the member and the new parent, looks for the parent among the  *)
(* member's descendants, and updates.  The other operations are one        *)
(* statement each.                                                         *)
(***************************************************************************)
EXTENDS Integers, FiniteSets

CONSTANTS
    Member,         \* rows of fb_users
    NoMember,       \* parent_id NULL
    Registered,     \* the parent each member registered under
    Admin,          \* requests that change a parent and may run together
    Editor,         \* members the edit form is used on
    Deletable,      \* members that are deleted and restored
    Agent           \* members whose agent level is changed

teamMemberMaxDepth == 5
Parents == Member \cup {NoMember}

ASSUME RegisteredUnderMembers ==
    /\ IsFiniteSet(Member)
    /\ NoMember \notin Member
    /\ Registered \in [Member -> Parents]
    /\ Editor \subseteq Member /\ Deletable \subseteq Member /\ Agent \subseteq Member

VARIABLES
    parent,         \* Member -> parent_id
    gone,           \* Member -> flag = 1
    agentLevel,     \* Member -> agent_level
    req,            \* Admin -> the change it is making
    overtaken       \* history: requests whose tree has changed since they checked it

vars == <<parent, gone, agentLevel, req, overtaken>>

Idle == [pc |-> "idle", user |-> NoMember, to |-> NoMember]
Request == [pc : {"idle", "found", "checked"}, user : Parents, to : Parents]

-----------------------------------------------------------------------------
(* Reading the tree *)

\* NormalizeTeamAgentLevel
NormalizeTeamAgentLevel(raw) == IF raw <= 3 THEN 3 ELSE IF raw >= 5 THEN 5 ELSE 4

\* teamTreeCTESQL: the rows of level k below root.  A deleted member is not
\* shown and hides the members below it.
Level(root) ==
    LET L[k \in Nat] ==
            IF k = 0 THEN {root}
            ELSE LET above == L[k - 1] IN {m \in Member : ~gone[m] /\ parent[m] \in above}
    IN  L

\* Mutant: the recursion stops one level late.
TeamTreeDeeper(root, maxDepth) ==
    LET depth == IF maxDepth < 1 THEN 3
                 ELSE IF maxDepth > teamMemberMaxDepth THEN teamMemberMaxDepth ELSE maxDepth
    IN  UNION {Level(root)[k] \X {k} : k \in 1..(depth + 1)}

TeamTree(root, maxDepth) ==
    LET depth == IF maxDepth < 1 THEN 3
                 ELSE IF maxDepth > teamMemberMaxDepth THEN teamMemberMaxDepth ELSE maxDepth
    IN  UNION {Level(root)[k] \X {k} : k \in 1..depth}

\* Mutant: the check looks as deep as the member's own agent level shows.
IsUserInSubtreeShown(root, target) ==
    \E k \in 1..teamMemberMaxDepth :
        <<target, k>> \in TeamTree(root, NormalizeTeamAgentLevel(agentLevel[root]))

\* Mutant: the arguments swapped.
IsUserInSubtreeSwapped(root, target) ==
    \E k \in 1..teamMemberMaxDepth : <<root, k>> \in TeamTree(target, teamMemberMaxDepth)

\* isUserInSubtree
IsUserInSubtree(root, target) ==
    \E k \in 1..teamMemberMaxDepth : <<target, k>> \in TeamTree(root, teamMemberMaxDepth)

\* GetTeamStatsByUserID: five left joins, each with the column before it, and
\* the distinct members of each column ...
Joined(S) == {m \in Member : parent[m] \in S /\ ~gone[m]}
TeamStats(root) ==
    LET l2 == Joined({root})
        l3 == Joined(l2)
        l4 == Joined(l3)
        l5 == Joined(l4)
        l6 == Joined(l5)
    IN  <<Cardinality(l2), Cardinality(l3), Cardinality(l4), Cardinality(l5), Cardinality(l6)>>

\* ... and ApplyTeamStatsAgentLevelCap clears what the root may not see.
CappedStats(root) ==
    [k \in 1..5 |-> IF k > NormalizeTeamAgentLevel(agentLevel[root]) THEN 0
                    ELSE TeamStats(root)[k]]

-----------------------------------------------------------------------------
(* ChangeTeamParentByUsername *)

\* The member and the new parent, found by id and by user name.
FindParent(a, u, p) ==
    /\ req[a].pc = "idle"
    /\ ~gone[u] /\ ~gone[p]
    /\ p # u
    /\ req' = [req EXCEPT ![a] = [pc |-> "found", user |-> u, to |-> p]]
    /\ UNCHANGED <<parent, gone, agentLevel>>

\* isUserInSubtree
CheckParent(a) ==
    /\ req[a].pc = "found"
    /\ req' = [req EXCEPT ![a] =
                 IF IsUserInSubtree(@.user, @.to) THEN Idle ELSE [@ EXCEPT !.pc = "checked"]]
    /\ UNCHANGED <<parent, gone, agentLevel>>

\* Mutant: UPDATE ... WHERE id = ? alone.
SetParentAnyway(a) ==
    /\ req[a].pc = "checked"
    /\ parent' = [parent EXCEPT ![req[a].user] = req[a].to]
    /\ req' = [req EXCEPT ![a] = Idle]
    /\ UNCHANGED <<gone, agentLevel>>

\* UPDATE ... WHERE id = ? AND flag = 0
SetParent(a) ==
    LET u == req[a].user
    IN  /\ req[a].pc = "checked"
        /\ parent' = IF gone[u] THEN parent ELSE [parent EXCEPT ![u] = req[a].to]
        /\ req' = [req EXCEPT ![a] = Idle]
        /\ UNCHANGED <<gone, agentLevel>>

-----------------------------------------------------------------------------
(* The other writers of fb_users *)

\* UpdateUser writes the parent the form holds; the foreign key only asks that
\* the row exists.
UpdateUser(u, p) ==
    /\ ~gone[u]
    /\ parent' = [parent EXCEPT ![u] = p]
    /\ UNCHANGED <<gone, agentLevel, req>>

SoftDeleteUsers(X) ==
    /\ X # {}
    /\ gone' = [m \in Member |-> gone[m] \/ m \in X]
    /\ UNCHANGED <<parent, agentLevel, req>>

RestoreUsers(X) ==
    /\ \E m \in X : gone[m]
    /\ gone' = [m \in Member |-> gone[m] /\ m \notin X]
    /\ UNCHANGED <<parent, agentLevel, req>>

\* Mutant: any level is taken.
UpdateTeamAgentLevelAny(u, n) ==
    /\ ~gone[u]
    /\ agentLevel' = [agentLevel EXCEPT ![u] = n]
    /\ UNCHANGED <<parent, gone, req>>

\* UpdateTeamAgentLevel, asked for any level.
UpdateTeamAgentLevel(u, n) ==
    /\ n \in {3, 4, 5}
    /\ ~gone[u]
    /\ agentLevel' = [agentLevel EXCEPT ![u] = n]
    /\ UNCHANGED <<parent, gone, req>>

-----------------------------------------------------------------------------
Init ==
    /\ parent = Registered
    /\ gone = [m \in Member |-> FALSE]
    /\ agentLevel = [m \in Member |-> 3]
    /\ req = [a \in Admin |-> Idle]
    /\ overtaken = {}

Statement ==
    \/ \E a \in Admin :
        \/ \E u, p \in Member : FindParent(a, u, p)
        \/ CheckParent(a)
        \/ SetParent(a)
    \/ \E u \in Editor, p \in Parents : UpdateUser(u, p)
    \/ \E X \in SUBSET Deletable : SoftDeleteUsers(X) \/ RestoreUsers(X)
    \/ \E u \in Agent, n \in 2..6 : UpdateTeamAgentLevel(u, n)

\* The history: no code keeps it.
Overtake == overtaken' = {a \in Admin :
    /\ req[a].pc = "checked" /\ req'[a].pc = "checked"
    /\ a \in overtaken \/ <<parent, gone>>' # <<parent, gone>>}

Next == Statement /\ Overtake

Spec == Init /\ [][Next]_vars

-----------------------------------------------------------------------------
(* Properties *)

\* Every variable keeps its type.
TypeOK ==
    /\ parent \in [Member -> Parents]
    /\ gone \in [Member -> BOOLEAN]
    /\ agentLevel \in [Member -> 3..5]
    /\ req \in [Admin -> Request]
    /\ overtaken \subseteq Admin

\* No member is, directly or not, its own parent: biz-api.md says that making
\* a descendant the parent is forbidden so that there is no cycle.  In other
\* words every set of members has one whose parent lies outside it.
Acyclic == \A S \in (SUBSET Member) \ {{}} : \E m \in S : parent[m] \notin S

\* Climbs(c, k): c goes from member to parent, k times.
Climbs(c, k) ==
    /\ c \in [0..k -> Member]
    /\ \A i \in 0..(k - 1) : parent[c[i]] = c[i + 1]

\* Down(u, D): D holds u and everybody below, at any depth, deleted or not.
Down(u, D) == u \in D /\ \A m \in Member : parent[m] \in D => m \in D

\* t is in the team of u, but the check cannot see it there: t or a member on
\* the way is deleted, or u comes after six different members of the way.
Overlooked(u, t) ==
    /\ \A D \in SUBSET Member : Down(u, D) => t \in D
    /\ \/ \E k \in 1..5 : \E c \in [0..k -> Member] :
            Climbs(c, k) /\ c[0] = t /\ c[k] = u /\ \E i \in 0..(k - 1) : gone[c[i]]
       \/ \E c \in [0..6 -> Member] :
            /\ Climbs(c, 6) /\ c[0] = t
            /\ \A i, j \in 0..6 : i # j => c[i] # c[j]
            /\ \A i \in 0..5 : c[i] # u

\* Requests, deletions and the edit form overlap as they like, and a cycle is
\* only ever closed in three ways: by the edit form; by a change whose check
\* was overtaken and would now refuse it; or by one whose check overlooks the
\* new parent.
CycleCauses == [][Acyclic /\ ~Acyclic' =>
    \/ \E u \in Editor, p \in Parents : UpdateUser(u, p)
    \/ \E a \in Admin :
        /\ SetParent(a)
        /\ \/ a \in overtaken /\ IsUserInSubtree(req[a].user, req[a].to)
           \/ Overlooked(req[a].user, req[a].to)]_vars

\* The statistics page and the list of descendants, two queries written apart,
\* count the same members on every level the root may see.
StatsMatchTree == \A root \in Member : \A k \in 1..5 :
    CappedStats(root)[k] =
        Cardinality({row \in TeamTree(root, NormalizeTeamAgentLevel(agentLevel[root])) : row[2] = k})

\* A member deleted while its change is in flight keeps the parent it had, so
\* that a restore brings back the team as it was.
DeletedUntouched == [][\A m \in Member :
    gone[m] => parent'[m] = parent[m] /\ agentLevel'[m] = agentLevel[m]]_vars
=============================================================================
