---------------------------- MODULE TeamTree_proofs ----------------------------
(* Theorems about TeamTree for any number of members and requests. *)
EXTENDS TeamTree, FiniteSetTheorems, TLAPS

-----------------------------------------------------------------------------
(* Types *)

LEMMA TypeInit == Init => TypeOK
  <1> SUFFICES ASSUME Init PROVE TypeOK
    OBVIOUS
  <1>1. Idle \in Request
    BY DEF Idle, Request, Parents
  <1> QED
    BY <1>1, RegisteredUnderMembers DEF Init, TypeOK

\* The parts of TypeOK that the code's variables have.
TypedRows ==
    /\ parent \in [Member -> Parents]
    /\ gone \in [Member -> BOOLEAN]
    /\ agentLevel \in [Member -> 3..5]
    /\ req \in [Admin -> Request]

LEMMA TypeNext == TypeOK /\ [Next]_vars => TypeOK'
  <1> SUFFICES ASSUME TypeOK, [Next]_vars PROVE TypeOK'
    OBVIOUS
  <1> USE DEF TypeOK, TypedRows
  <1>1. ASSUME NEW a \in Admin, NEW u \in Member, NEW p \in Member, FindParent(a, u, p)
        PROVE  TypedRows'
    <2>1. [pc |-> "found", user |-> u, to |-> p] \in Request
      BY DEF Request, Parents
    <2> QED
      BY <1>1, <2>1 DEF FindParent
  <1>2. ASSUME NEW a \in Admin, CheckParent(a) PROVE TypedRows'
    <2>1. Idle \in Request /\ [req[a] EXCEPT !.pc = "checked"] \in Request
      BY DEF Idle, Request, Parents
    <2>2. req' \in [Admin -> Request]
      BY <1>2, <2>1 DEF CheckParent
    <2> QED
      BY <1>2, <2>2 DEF CheckParent
  <1>3. ASSUME NEW a \in Admin, SetParent(a) PROVE TypedRows'
    <2>1. Idle \in Request /\ req[a].to \in Parents
      BY DEF Idle, Request, Parents
    <2> QED
      BY <1>3, <2>1 DEF SetParent
  <1>4. ASSUME NEW u \in Editor, NEW p \in Parents, UpdateUser(u, p) PROVE TypedRows'
    BY <1>4 DEF UpdateUser
  <1>5. ASSUME NEW X \in SUBSET Deletable, SoftDeleteUsers(X) \/ RestoreUsers(X)
        PROVE  TypedRows'
    BY <1>5 DEF SoftDeleteUsers, RestoreUsers
  <1>6. ASSUME NEW u \in Agent, NEW n \in 2..6, UpdateTeamAgentLevel(u, n) PROVE TypedRows'
    <2>1. n \in 3..5
      BY <1>6 DEF UpdateTeamAgentLevel
    <2>2. agentLevel' \in [Member -> 3..5]
      BY <1>6, <2>1 DEF UpdateTeamAgentLevel
    <2> QED
      BY <1>6, <2>2 DEF UpdateTeamAgentLevel
  <1>7. CASE UNCHANGED vars
    BY <1>7 DEF vars
  <1>8. CASE Next
    <2>1. TypedRows'
      BY <1>1, <1>2, <1>3, <1>4, <1>5, <1>6, <1>8 DEF Next, Statement
    <2>2. overtaken' \subseteq Admin
      BY <1>8 DEF Next, Overtake
    <2> QED
      BY <2>1, <2>2
  <1> QED
    BY <1>7, <1>8

\* parent_id, flag and agent_level keep their types; no call stores an agent
\* level other than 3, 4 or 5.
THEOREM TypeCorrect == Spec => []TypeOK
  BY TypeInit, TypeNext, PTL DEF Spec

-----------------------------------------------------------------------------
(* Deleted members *)

\* One step leaves the rows of deleted members alone.
LEMMA DeletedStep ==
    ASSUME TypeOK, [Next]_vars, NEW m \in Member, gone[m]
    PROVE  parent'[m] = parent[m] /\ agentLevel'[m] = agentLevel[m]
  <1> USE DEF TypeOK
  <1>1. ASSUME NEW a \in Admin, SetParent(a) PROVE parent'[m] = parent[m]
    BY <1>1 DEF SetParent
  <1>2. ASSUME NEW u \in Editor, NEW p \in Parents, UpdateUser(u, p)
        PROVE  parent'[m] = parent[m]
    BY <1>2 DEF UpdateUser
  <1>3. ASSUME NEW u \in Agent, NEW n \in 2..6, UpdateTeamAgentLevel(u, n)
        PROVE  agentLevel'[m] = agentLevel[m]
    BY <1>3 DEF UpdateTeamAgentLevel
  <1>4. parent'[m] = parent[m]
    BY <1>1, <1>2 DEF Next, Statement, vars, FindParent, CheckParent, SoftDeleteUsers, RestoreUsers,
       UpdateTeamAgentLevel
  <1>5. agentLevel'[m] = agentLevel[m]
    BY <1>3 DEF Next, Statement, vars, FindParent, CheckParent, SetParent, UpdateUser, SoftDeleteUsers,
       RestoreUsers
  <1> QED
    BY <1>4, <1>5

\* A change that was in flight when its member was deleted does not reach the
\* row: every UPDATE repeats flag = 0.
THEOREM DeletedKept == Spec => DeletedUntouched
  <1>1. TypeOK /\ [Next]_vars => [\A m \in Member :
            gone[m] => parent'[m] = parent[m] /\ agentLevel'[m] = agentLevel[m]]_vars
    BY DeletedStep
  <1> QED
    BY <1>1, TypeCorrect, PTL DEF Spec, DeletedUntouched

-----------------------------------------------------------------------------
(* Cycles *)

\* The change that ChangeTeamParentByUsername writes closes no cycle when the
\* new parent is, at that moment, outside the whole team below the member.
\* This is the condition isUserInSubtree approximates: it asks earlier, five
\* levels deep, and leaves out deleted members and those below them.
THEOREM ChangeOutsideTeam ==
    ASSUME TypeOK, Acyclic,
           NEW a \in Admin, SetParent(a),
           NEW D \in SUBSET Member, Down(req[a].user, D), req[a].to \notin D
    PROVE  Acyclic'
  <1> DEFINE u == req[a].user
  <1>1. SUFFICES ASSUME NEW S \in (SUBSET Member) \ {{}}, \A m \in S : parent'[m] \in S
                 PROVE  FALSE
    BY DEF Acyclic
  <1>2. ASSUME \A m \in S : parent'[m] = parent[m] PROVE FALSE
    BY <1>1, <1>2 DEF Acyclic
  <1>3. u \in S /\ ~gone[u] /\ parent'[u] = req[a].to
    BY <1>2 DEF SetParent, TypeOK
  <1>4. \A m \in S : m # u => parent'[m] = parent[m]
    BY <1>3 DEF SetParent, TypeOK
  <1>5. S \ D # {}
    BY <1>1, <1>3
  <1>6. \A m \in S \ D : parent[m] \in S \ D
    BY <1>1, <1>4 DEF Down
  <1> QED
    BY <1>5, <1>6 DEF Acyclic

-----------------------------------------------------------------------------
(* The recursive query *)

\* Paths(root, k): the ways down from root that reach level k, none of them
\* over a deleted member.
Paths(root, k) == {c \in [1..k -> Member] :
    /\ parent[c[1]] = root
    /\ \A i \in 1..k : ~gone[c[i]]
    /\ \A i \in 1..k : i < k => parent[c[i + 1]] = c[i]}

Ends(root, k) == IF k = 0 THEN {root} ELSE {c[k] : c \in Paths(root, k)}

\* The ends of the paths satisfy the recursion: a path to level k is a path to
\* level k - 1 and one member more.
LEMMA EndsRecur ==
    ASSUME NEW root, NEW k \in Nat, k # 0
    PROVE  Ends(root, k) = {m \in Member : ~gone[m] /\ parent[m] \in Ends(root, k - 1)}
  <1> k - 1 \in Nat
    OBVIOUS
  <1>1. ASSUME NEW c \in Paths(root, k)
        PROVE  c[k] \in Member /\ ~gone[c[k]] /\ parent[c[k]] \in Ends(root, k - 1)
    <2>1. /\ c \in [1..k -> Member] /\ parent[c[1]] = root
          /\ \A i \in 1..k : ~gone[c[i]]
          /\ \A i \in 1..k : i < k => parent[c[i + 1]] = c[i]
      BY DEF Paths
    <2>2. CASE k = 1
      BY <2>1, <2>2 DEF Ends
    <2>3. CASE k # 1
      <3> DEFINE d == [i \in 1..(k - 1) |-> c[i]]
      <3>1. d \in Paths(root, k - 1)
        BY <2>1, <2>3 DEF Paths
      <3>2. d[k - 1] = c[k - 1] /\ parent[c[k]] = c[k - 1]
        BY <2>1, <2>3
      <3> QED
        BY <2>1, <2>3, <3>1, <3>2 DEF Ends
    <2> QED
      BY <2>2, <2>3
  <1>2. ASSUME NEW m \in Member, ~gone[m], parent[m] \in Ends(root, k - 1)
        PROVE  m \in Ends(root, k)
    <2>1. CASE k = 1
      <3> DEFINE c == [i \in 1..1 |-> m]
      <3>1. c \in Paths(root, 1) /\ c[1] = m
        BY <1>2, <2>1 DEF Paths, Ends
      <3> QED
        BY <2>1, <3>1 DEF Ends
    <2>2. CASE k # 1
      <3>1. PICK d \in Paths(root, k - 1) : parent[m] = d[k - 1]
        BY <1>2, <2>2 DEF Ends
      <3>2. /\ d \in [1..(k - 1) -> Member] /\ parent[d[1]] = root
            /\ \A i \in 1..(k - 1) : ~gone[d[i]]
            /\ \A i \in 1..(k - 1) : i < k - 1 => parent[d[i + 1]] = d[i]
        BY DEF Paths
      <3> DEFINE c == [i \in 1..k |-> IF i = k THEN m ELSE d[i]]
      <3>3. c \in [1..k -> Member] /\ c[1] = d[1] /\ c[k] = m
        BY <2>2, <3>2
      <3>4. \A i \in 1..k : ~gone[c[i]]
        BY <1>2, <3>2
      <3>5. ASSUME NEW i \in 1..k, i < k PROVE parent[c[i + 1]] = c[i]
        <4>1. CASE i = k - 1
          BY <2>2, <3>1, <3>5, <4>1
        <4>2. CASE i # k - 1
          <5>1. i \in 1..(k - 1) /\ i < k - 1 /\ i + 1 \in 1..(k - 1) /\ i # k /\ i + 1 # k
            BY <3>5, <4>2
          <5> QED
            BY <3>2, <5>1
        <4> QED
          BY <4>1, <4>2
      <3>6. c \in Paths(root, k)
        BY <3>2, <3>3, <3>4, <3>5 DEF Paths
      <3> QED
        BY <3>3, <3>6 DEF Ends
    <2> QED
      BY <2>1, <2>2
  <1>3. \A m \in Ends(root, k) : \E c \in Paths(root, k) : m = c[k]
    BY DEF Ends
  <1> QED
    BY <1>1, <1>2, <1>3

\* So the recursion has a solution, and Level is one.
LEMMA LevelRecurs ==
    ASSUME NEW root
    PROVE  Level(root) = [k \in Nat |-> IF k = 0 THEN {root}
                              ELSE {m \in Member : ~gone[m] /\ parent[m] \in Level(root)[k - 1]}]
  <1> DEFINE E == [k \in Nat |-> Ends(root, k)]
             Solves(L) == L = [k \in Nat |-> IF k = 0 THEN {root}
                              ELSE {m \in Member : ~gone[m] /\ parent[m] \in L[k - 1]}]
  <1>1. Solves(E)
    <2>1. ASSUME NEW k \in Nat
          PROVE  Ends(root, k) = IF k = 0 THEN {root}
                              ELSE {m \in Member : ~gone[m] /\ parent[m] \in E[k - 1]}
      <3>1. CASE k = 0
        BY <3>1 DEF Ends
      <3>2. CASE k # 0
        <4>1. k - 1 \in Nat /\ E[k - 1] = Ends(root, k - 1)
          BY <3>2
        <4> QED
          BY <3>2, <4>1, EndsRecur
      <3> QED
        BY <3>1, <3>2
    <2> QED
      BY <2>1
  <1>2. Level(root) = CHOOSE L : Solves(L)
    BY DEF Level
  <1> HIDE DEF E
  <1>3. Solves(Level(root))
    BY <1>1, <1>2
  <1> QED
    BY <1>3

\* The first five levels are the ends of the paths.
LEMMA LevelIsEnds ==
    ASSUME NEW root
    PROVE  \A k \in 0..5 : Level(root)[k] = Ends(root, k)
  <1>1. ASSUME NEW k \in Nat, k # 0, Level(root)[k - 1] = Ends(root, k - 1)
        PROVE  Level(root)[k] = Ends(root, k)
    <2>1. Level(root)[k] = {m \in Member : ~gone[m] /\ parent[m] \in Level(root)[k - 1]}
      BY <1>1, LevelRecurs
    <2> QED
      BY <1>1, <2>1, EndsRecur
  <1>2. Level(root)[0] = Ends(root, 0)
    BY LevelRecurs DEF Ends
  <1>3. Level(root)[1] = Ends(root, 1)
    BY <1>1, <1>2
  <1>4. Level(root)[2] = Ends(root, 2)
    BY <1>1, <1>3
  <1>5. Level(root)[3] = Ends(root, 3)
    BY <1>1, <1>4
  <1>6. Level(root)[4] = Ends(root, 4)
    BY <1>1, <1>5
  <1>7. Level(root)[5] = Ends(root, 5)
    BY <1>1, <1>6
  <1> QED
    BY <1>2, <1>3, <1>4, <1>5, <1>6, <1>7

-----------------------------------------------------------------------------
(* The statistics and the list of descendants *)

\* The chain of joins and the recursive query reach the same members.
LEMMA JoinsAreLevels ==
    ASSUME NEW root
    PROVE  LET l2 == Joined({root})
               l3 == Joined(l2)
               l4 == Joined(l3)
               l5 == Joined(l4)
           IN  /\ Level(root)[1] = l2 /\ Level(root)[2] = l3 /\ Level(root)[3] = l4
               /\ Level(root)[4] = l5 /\ Level(root)[5] = Joined(l5)
  <1>1. Level(root)[0] = {root}
    BY LevelRecurs
  <1>2. ASSUME NEW k \in Nat, k # 0
        PROVE  Level(root)[k] = Joined(Level(root)[k - 1])
    <2>1. Level(root)[k] = {m \in Member : ~gone[m] /\ parent[m] \in Level(root)[k - 1]}
      BY <1>2, LevelRecurs
    <2> QED
      BY <2>1 DEF Joined
  <1>3. Level(root)[1] = Joined(Level(root)[0])
    BY <1>2
  <1>4. Level(root)[2] = Joined(Level(root)[1])
    BY <1>2
  <1>5. Level(root)[3] = Joined(Level(root)[2])
    BY <1>2
  <1>6. Level(root)[4] = Joined(Level(root)[3])
    BY <1>2
  <1>7. Level(root)[5] = Joined(Level(root)[4])
    BY <1>2
  <1> QED
    BY <1>1, <1>3, <1>4, <1>5, <1>6, <1>7

LEMMA StatsAreLevels ==
    ASSUME NEW root
    PROVE  \A k \in 1..5 : TeamStats(root)[k] = Cardinality(Level(root)[k])
  <1>1. TeamStats(root) = <<Cardinality(Level(root)[1]), Cardinality(Level(root)[2]),
                            Cardinality(Level(root)[3]), Cardinality(Level(root)[4]),
                            Cardinality(Level(root)[5])>>
    BY JoinsAreLevels DEF TeamStats
  <1> QED
    BY <1>1

\* The rows of the tree that show level k, for the depths an agent level gives.
LEMMA RowsOfLevel ==
    ASSUME NEW root, NEW n \in 3..5, NEW k \in 1..5
    PROVE  {row \in TeamTree(root, n) : row[2] = k} =
               IF k <= n THEN Level(root)[k] \X {k} ELSE {}
  <1>1. TeamTree(root, n) = UNION {Level(root)[j] \X {j} : j \in 1..n}
    BY DEF TeamTree, teamMemberMaxDepth
  <1> QED
    BY <1>1

\* As many rows as members.
LEMMA RowsCounted ==
    ASSUME NEW S, IsFiniteSet(S), NEW k
    PROVE  Cardinality(S \X {k}) = Cardinality(S)
  <1>1. Cardinality(S) \in Nat
    BY FS_CardinalityType
  <1>2. IsFiniteSet({k}) /\ Cardinality({k}) = 1
    BY FS_Singleton
  <1> QED
    BY <1>1, <1>2, FS_Product

LEMMA StatsStep == TypeOK => StatsMatchTree
  <1> SUFFICES ASSUME TypeOK, NEW root \in Member, NEW k \in 1..5
               PROVE  CappedStats(root)[k] =
                   Cardinality({row \in TeamTree(root, NormalizeTeamAgentLevel(agentLevel[root])) :
                                    row[2] = k})
    BY DEF StatsMatchTree
  <1>1. PICK n \in 3..5 : n = NormalizeTeamAgentLevel(agentLevel[root])
    BY DEF TypeOK, NormalizeTeamAgentLevel
  <1>2. IsFiniteSet(Level(root)[k])
    <2>1. Level(root)[k] \in SUBSET Member
      BY LevelRecurs
    <2> QED
      BY <2>1, FS_Subset, RegisteredUnderMembers
  <1>3. Cardinality({row \in TeamTree(root, n) : row[2] = k}) =
            IF k <= n THEN Cardinality(Level(root)[k]) ELSE 0
    <2>1. {row \in TeamTree(root, n) : row[2] = k} =
              IF k <= n THEN Level(root)[k] \X {k} ELSE {}
      BY RowsOfLevel
    <2>2. Cardinality(Level(root)[k] \X {k}) = Cardinality(Level(root)[k])
      BY <1>2, RowsCounted
    <2>3. Cardinality({}) = 0
      BY FS_EmptySet
    <2> QED
      BY <2>1, <2>2, <2>3
  <1>4. CappedStats(root)[k] = IF k > n THEN 0 ELSE Cardinality(Level(root)[k])
    BY <1>1, StatsAreLevels DEF CappedStats
  <1> QED
    BY <1>1, <1>3, <1>4

\* The statistics page, five left joins counted and then capped, agrees on
\* every level with the recursive list of descendants, for any number of
\* members and whatever the parents are, cycles included.
THEOREM StatsMatch == Spec => []StatsMatchTree
  BY StatsStep, TypeCorrect, PTL

-----------------------------------------------------------------------------
(* What closes a cycle *)

\* Below(u, t): the check sees t below u.
Below(u, t) == \E k \in 1..5 : t \in Ends(u, k)

LEMMA CheckSeesPaths ==
    ASSUME NEW u, NEW t
    PROVE  IsUserInSubtree(u, t) <=> Below(u, t)
  <1>1. TeamTree(u, teamMemberMaxDepth) = UNION {Level(u)[j] \X {j} : j \in 1..5}
    BY DEF TeamTree, teamMemberMaxDepth
  <1>2. \A k \in 1..5 :
            <<t, k>> \in UNION {Level(u)[j] \X {j} : j \in 1..5} <=> t \in Level(u)[k]
    OBVIOUS
  <1>3. \A k \in 1..5 : Level(u)[k] = Ends(u, k)
    BY LevelIsEnds
  <1> QED
    BY <1>1, <1>2, <1>3 DEF IsUserInSubtree, Below, teamMemberMaxDepth

\* A member reached from another by one to five parents is below it, provided
\* nobody between them is deleted.
LEMMA UpwardIsBelow ==
    ASSUME NEW c, NEW k \in 1..5, \A i \in 0..(k - 1) : c[i] \in Member /\ ~gone[c[i]],
           \A i \in 0..(k - 1) : parent[c[i]] = c[i + 1]
    PROVE  Below(c[k], c[0])
  <1> DEFINE d == [j \in 1..k |-> c[k - j]]
  <1>1. d \in [1..k -> Member] /\ \A i \in 1..k : ~gone[d[i]]
    OBVIOUS
  <1>2. parent[d[1]] = c[k] /\ d[k] = c[0]
    OBVIOUS
  <1>3. ASSUME NEW i \in 1..k, i < k PROVE parent[d[i + 1]] = d[i]
    <2>1. k - (i + 1) \in 0..(k - 1) /\ k - (i + 1) + 1 = k - i /\ i + 1 \in 1..k
      BY <1>3
    <2>2. parent[c[k - (i + 1)]] = c[k - (i + 1) + 1]
      BY <2>1
    <2> QED
      BY <2>1, <2>2
  <1>4. d \in Paths(c[k], k)
    BY <1>1, <1>2, <1>3 DEF Paths
  <1> QED
    BY <1>2, <1>4 DEF Ends, Below

\* A change closes a cycle at its UPDATE only if the check, made again at that
\* moment, would overlook the new parent.
LEMMA CycleOverlooked ==
    ASSUME TypeOK, Acyclic, NEW u \in Member, NEW t \in Member, u # t, ~Below(u, t),
           NEW a \in Admin, SetParent(a), req[a].user = u, req[a].to = t, ~Acyclic'
    PROVE  Overlooked(u, t)
  <1>1. SUFFICES ASSUME ~Overlooked(u, t) PROVE FALSE
    OBVIOUS
  <1>2. \A D \in SUBSET Member : Down(u, D) => t \in D
    BY ChangeOutsideTeam
  <1>3. PICK S \in (SUBSET Member) \ {{}} : \A m \in S : parent'[m] \in S
    BY DEF Acyclic
  <1>4. parent' = [parent EXCEPT ![u] = t]
    <2>1. ASSUME gone[u] PROVE parent' = parent
      BY <2>1 DEF SetParent
    <2> QED
      BY <2>1 DEF SetParent, Acyclic
  <1>5. u \in S
    BY <1>3, <1>4 DEF Acyclic, TypeOK
  <1>6. t \in S
    BY <1>3, <1>4, <1>5 DEF TypeOK
  <1>7. \A m \in S : m # u => parent[m] \in S
    BY <1>3, <1>4 DEF TypeOK
  <1> DEFINE c1 == parent[t]
             c2 == parent[c1]
             c3 == parent[c2]
             c4 == parent[c3]
             c5 == parent[c4]
             c6 == parent[c5]
             c == [i \in 0..6 |-> CASE i = 0 -> t [] i = 1 -> c1 [] i = 2 -> c2 [] i = 3 -> c3
                                    [] i = 4 -> c4 [] i = 5 -> c5 [] i = 6 -> c6]
  <1>8. c[0] = t /\ (\A i \in 0..5 : parent[c[i]] = c[i + 1]) /\ DOMAIN c = 0..6
    <2> HIDE DEF c1, c2, c3, c4, c5, c6
    <2>1. c[0] = t /\ c[1] = c1 /\ c[2] = c2 /\ c[3] = c3 /\ c[4] = c4 /\ c[5] = c5 /\ c[6] = c6
      OBVIOUS
    <2>2. DOMAIN c = 0..6
      OBVIOUS
    <2> HIDE DEF c
    <2>3. /\ parent[c[0]] = c[1] /\ parent[c[1]] = c[2] /\ parent[c[2]] = c[3]
          /\ parent[c[3]] = c[4] /\ parent[c[4]] = c[5] /\ parent[c[5]] = c[6]
      BY <2>1 DEF c1, c2, c3, c4, c5, c6
    <2>4. \A i \in 0..5 : i = 0 \/ i = 1 \/ i = 2 \/ i = 3 \/ i = 4 \/ i = 5
      OBVIOUS
    <2> QED
      BY <2>1, <2>2, <2>3, <2>4
  <1> HIDE DEF c, c1, c2, c3, c4, c5, c6
  <1>9. ASSUME NEW k \in 1..5, \A i \in 0..(k - 1) : c[i] \in S
        PROVE  c[k] # u
    <2>1. SUFFICES ASSUME c[k] = u PROVE FALSE
      OBVIOUS
    <2>2. \A i \in 0..(k - 1) : c[i] \in Member /\ parent[c[i]] = c[i + 1]
      BY <1>8, <1>9
    <2>3. PICK j \in 0..(k - 1) : gone[c[j]]
      BY <1>8, <2>1, <2>2, UpwardIsBelow
    <2> DEFINE d == [i \in 0..k |-> c[i]]
    <2>4. d \in [0..k -> Member] /\ d[0] = t /\ d[k] = u /\ gone[d[j]]
      <3>1. \A i \in 0..k : c[i] \in Member
        BY <2>1, <2>2
      <3> QED
        BY <1>8, <2>1, <2>3, <3>1
    <2>5. Climbs(d, k)
      <3>1. \A i \in 0..(k - 1) : d[i] = c[i] /\ d[i + 1] = c[i + 1]
        OBVIOUS
      <3> QED
        BY <2>2, <2>4, <3>1 DEF Climbs
    <2> HIDE DEF d
    <2> QED
      BY <1>1, <1>2, <2>3, <2>4, <2>5 DEF Overlooked
  <1>10. ASSUME NEW k \in 0..5, c[k] \in S, c[k] # u
         PROVE  c[k + 1] \in S
    BY <1>7, <1>8, <1>10
  <1>11. c[0] \in S /\ c[0] # u /\ c[1] \in S
    BY <1>6, <1>8, <1>10
  <1>12. c[1] # u /\ c[2] \in S
    BY <1>9, <1>10, <1>11
  <1>13. c[2] # u /\ c[3] \in S
    BY <1>9, <1>10, <1>11, <1>12
  <1>14. c[3] # u /\ c[4] \in S
    BY <1>9, <1>10, <1>11, <1>12, <1>13
  <1>15. c[4] # u /\ c[5] \in S
    BY <1>9, <1>10, <1>11, <1>12, <1>13, <1>14
  <1>16. c[5] # u /\ c[6] \in S
    BY <1>9, <1>10, <1>11, <1>12, <1>13, <1>14, <1>15
  <1>17. \A i \in 0..6 : c[i] \in Member
    BY <1>11, <1>12, <1>13, <1>14, <1>15, <1>16
  <1>18. \A i \in 0..5 : c[i] # u
    BY <1>11, <1>12, <1>13, <1>14, <1>15, <1>16
  <1>19. c \in [0..6 -> Member] /\ Climbs(c, 6)
    <2>1. c = [i \in 0..6 |-> c[i]]
      BY DEF c
    <2>2. c \in [0..6 -> Member]
      BY <1>17, <2>1
    <2> QED
      BY <1>8, <2>2 DEF Climbs
  <1>20. ASSUME NEW i \in 0..6, NEW j \in 0..6, i < j, c[i] = c[j] PROVE FALSE
    <2> DEFINE R == {c[k] : k \in i..(j - 1)}
    <2>1. R \in (SUBSET Member) \ {{}}
      <3>1. i \in i..(j - 1) /\ c[i] \in R
        BY <1>20
      <3>2. \A k \in i..(j - 1) : k \in 0..6 /\ c[k] \in Member
        BY <1>17
      <3>3. R \subseteq Member
        BY <3>2
      <3> HIDE DEF R
      <3> QED
        BY <3>1, <3>3
    <2>2. ASSUME NEW k \in i..(j - 1) PROVE parent[c[k]] \in R
      <3>1. parent[c[k]] = c[k + 1]
        BY <1>8
      <3>2. CASE k = j - 1
        BY <1>20, <3>1, <3>2
      <3>3. CASE k # j - 1
        <4>1. k + 1 \in i..(j - 1)
          BY <3>3
        <4> QED
          BY <3>1, <4>1
      <3> QED
        BY <3>2, <3>3
    <2> QED
      BY <2>1, <2>2 DEF Acyclic
  <1>21. \A i, j \in 0..6 : i # j => c[i] # c[j]
    BY <1>20
  <1> QED
    BY <1>1, <1>2, <1>8, <1>18, <1>19, <1>21 DEF Overlooked

\* What a change has found out about its two members, it still knows when it
\* writes, unless it was overtaken.
StillChecked == \A a \in Admin : req[a].pc # "idle" =>
    /\ req[a].user \in Member /\ req[a].to \in Member /\ req[a].user # req[a].to
    /\ req[a].pc = "checked" => a \in overtaken \/ ~Below(req[a].user, req[a].to)

CheckedInv == TypeOK /\ StillChecked

LEMMA CheckedInit == Init => CheckedInv
  BY TypeInit DEF Init, Idle, StillChecked, CheckedInv

\* A request that a statement leaves as it is stays covered.
LEMMA StillOther ==
    ASSUME CheckedInv, Overtake, NEW a \in Admin, req'[a] = req[a], req[a].pc # "idle"
    PROVE  /\ req'[a].user \in Member /\ req'[a].to \in Member /\ req'[a].user # req'[a].to
           /\ req'[a].pc = "checked" => a \in overtaken' \/ ~Below(req[a].user, req[a].to)'
  <1>1. req[a].user \in Member /\ req[a].to \in Member /\ req[a].user # req[a].to
    BY DEF CheckedInv, StillChecked
  <1>2. ASSUME req[a].pc = "checked", a \notin overtaken'
        PROVE  ~Below(req[a].user, req[a].to)'
    <2>1. parent' = parent /\ gone' = gone /\ a \notin overtaken
      BY <1>2 DEF Overtake
    <2>2. ~Below(req[a].user, req[a].to)
      BY <1>2, <2>1 DEF CheckedInv, StillChecked
    <2>3. PICK u, t \in Member : u = req[a].user /\ t = req[a].to
      BY <1>1
    <2>4. ~Below(u, t)'
      BY <2>1, <2>2, <2>3 DEF Below, Ends, Paths
    <2> QED
      BY <2>3, <2>4 DEF Below, Ends, Paths
  <1> QED
    BY <1>1, <1>2

LEMMA CheckedNext == CheckedInv /\ [Next]_vars => CheckedInv'
  <1> SUFFICES ASSUME CheckedInv, [Next]_vars PROVE CheckedInv'
    OBVIOUS
  <1>1. TypeOK /\ TypeOK'
    BY TypeNext DEF CheckedInv
  <1>2. CASE UNCHANGED vars
    <2>1. StillChecked'
      BY <1>2 DEF vars, CheckedInv, StillChecked, Below, Ends, Paths
    <2> QED
      BY <1>1, <2>1 DEF CheckedInv
  <1>3. CASE Next
    <2> SUFFICES ASSUME NEW a \in Admin, req'[a].pc # "idle"
                 PROVE  /\ req'[a].user \in Member /\ req'[a].to \in Member
                        /\ req'[a].user # req'[a].to
                        /\ req'[a].pc = "checked" =>
                              a \in overtaken' \/ ~Below(req[a].user, req[a].to)'
      BY <1>1 DEF CheckedInv, StillChecked
    <2>1. CASE req'[a] = req[a]
      BY <1>3, <2>1, StillOther DEF Next
    <2>2. ASSUME NEW u \in Member, NEW p \in Member, FindParent(a, u, p)
          PROVE  req'[a] = [pc |-> "found", user |-> u, to |-> p] /\ p # u
      BY <1>1, <2>2 DEF FindParent, TypeOK
    <2>3. CASE CheckParent(a)
      <3>1. req[a].user \in Member /\ req[a].to \in Member /\ req[a].user # req[a].to
        BY <2>3 DEF CheckParent, CheckedInv, StillChecked
      <3>2. /\ ~IsUserInSubtree(req[a].user, req[a].to)
            /\ req'[a].user = req[a].user /\ req'[a].to = req[a].to
        BY <1>1, <2>3 DEF CheckParent, TypeOK, Idle, Request
      <3>3. ~Below(req[a].user, req[a].to)
        BY <3>2, CheckSeesPaths
      <3>4. PICK u, t \in Member : u = req[a].user /\ t = req[a].to
        BY <3>1
      <3>5. ~Below(u, t)'
        BY <2>3, <3>3, <3>4 DEF CheckParent, Below, Ends, Paths
      <3>6. ~Below(req[a].user, req[a].to)'
        BY <3>2, <3>4, <3>5 DEF Below, Ends, Paths
      <3> QED
        BY <3>1, <3>2, <3>6
    <2>4. ~SetParent(a)
      BY <1>1 DEF SetParent, TypeOK, Idle
    <2>5. ASSUME NEW b \in Admin, b # a,
                 CheckParent(b) \/ SetParent(b) \/ \E u, p \in Member : FindParent(b, u, p)
          PROVE  req'[a] = req[a]
      BY <1>1, <2>5 DEF CheckParent, SetParent, FindParent, TypeOK
    <2>6. CASE \E u, p \in Member : FindParent(a, u, p)
      <3>1. PICK u, p \in Member : FindParent(a, u, p)
        BY <2>6
      <3>2. req'[a] = [pc |-> "found", user |-> u, to |-> p] /\ p # u
        BY <2>2, <3>1
      <3> QED
        BY <3>2
    <2>7. \/ req' = req
          \/ \E b \in Admin : \/ CheckParent(b) \/ SetParent(b)
                             \/ \E u, p \in Member : FindParent(b, u, p)
      BY <1>3 DEF Next, Statement, UpdateUser, SoftDeleteUsers, RestoreUsers,
         UpdateTeamAgentLevel
    <2> QED
      BY <2>1, <2>3, <2>4, <2>5, <2>6, <2>7
  <1> QED
    BY <1>2, <1>3

LEMMA CycleStep ==
    ASSUME CheckedInv, [Next]_vars, Acyclic, ~Acyclic'
    PROVE  \/ \E u \in Editor, p \in Parents : UpdateUser(u, p)
           \/ \E a \in Admin :
               /\ SetParent(a)
               /\ \/ a \in overtaken /\ IsUserInSubtree(req[a].user, req[a].to)
                  \/ Overlooked(req[a].user, req[a].to)
  <1>1. ASSUME NEW a \in Admin, SetParent(a)
        PROVE  \/ a \in overtaken /\ IsUserInSubtree(req[a].user, req[a].to)
               \/ Overlooked(req[a].user, req[a].to)
    <2>1. /\ req[a].user \in Member /\ req[a].to \in Member /\ req[a].user # req[a].to
          /\ a \in overtaken \/ ~Below(req[a].user, req[a].to)
      BY <1>1 DEF SetParent, CheckedInv, StillChecked
    <2>2. CASE Below(req[a].user, req[a].to)
      BY <2>1, <2>2, CheckSeesPaths
    <2>3. CASE ~Below(req[a].user, req[a].to)
      <3>1. PICK u, t \in Member : u = req[a].user /\ t = req[a].to
        BY <2>1
      <3>2. ~Below(u, t)
        BY <2>3, <3>1
      <3>3. Overlooked(u, t)
        BY <1>1, <2>1, <3>1, <3>2, CycleOverlooked DEF CheckedInv
      <3> QED
        BY <3>1, <3>3
    <2> QED
      BY <2>2, <2>3
  <1>2. parent' # parent
    BY DEF Acyclic
  <1>3. \/ \E u \in Editor, p \in Parents : UpdateUser(u, p)
        \/ \E a \in Admin : SetParent(a)
    BY <1>2 DEF Next, Statement, vars, FindParent, CheckParent, SoftDeleteUsers, RestoreUsers,
       UpdateTeamAgentLevel
  <1> QED
    BY <1>1, <1>3

\* However many requests, deletions, restorations and edits overlap, and
\* whatever the trees they pass through, a cycle is closed by the edit form, by
\* a change that was overtaken after its check, or by a change to a member of
\* the team below that the check cannot see: behind a deleted member, or six
\* parents away or more.
THEOREM CyclesCaused == Spec => CycleCauses
  <1>1. CheckedInv /\ [Next]_vars => [Acyclic /\ ~Acyclic' =>
            \/ \E u \in Editor, p \in Parents : UpdateUser(u, p)
            \/ \E a \in Admin :
                /\ SetParent(a)
                /\ \/ a \in overtaken /\ IsUserInSubtree(req[a].user, req[a].to)
                   \/ Overlooked(req[a].user, req[a].to)]_vars
    BY CycleStep
  <1> QED
    BY <1>1, CheckedInit, CheckedNext, PTL DEF Spec, CycleCauses

\* The bound is sharp.  When seven members stand in a line, the check does not
\* see the lowest below the highest, deleted or not, and the change that makes
\* the lowest the parent of the highest closes a cycle.
THEOREM SevenInLine ==
    ASSUME TypeOK, NEW c, Climbs(c, 6), \A i \in 0..5 : c[i] # c[6]
    PROVE  /\ ~IsUserInSubtree(c[6], c[0])
           /\ \A a \in Admin :
                  SetParent(a) /\ req[a].user = c[6] /\ req[a].to = c[0] /\ ~gone[c[6]]
                      => ~Acyclic'
  <1>1. ASSUME Below(c[6], c[0]) PROVE FALSE
    <2>1. PICK k \in 1..5 : c[0] \in Ends(c[6], k)
      BY <1>1 DEF Below
    <2>2. PICK d \in Paths(c[6], k) : d[k] = c[0]
      BY <2>1 DEF Ends
    <2>3. parent[d[1]] = c[6] /\ \A i \in 1..k : i < k => parent[d[i + 1]] = d[i]
      BY DEF Paths
    <2>4. ASSUME NEW i \in 0..3, i + 1 < k, d[k - i] = c[i]
          PROVE  d[k - (i + 1)] = c[i + 1]
      <3>1. k - (i + 1) \in 1..k /\ k - (i + 1) < k /\ k - (i + 1) + 1 = k - i
        BY <2>4
      <3>2. parent[d[k - (i + 1) + 1]] = d[k - (i + 1)]
        BY <2>3, <3>1
      <3>3. parent[d[k - i]] = d[k - (i + 1)] /\ parent[c[i]] = c[i + 1]
        BY <3>1, <3>2 DEF Climbs
      <3> QED
        BY <2>4, <3>3
    <2>5. d[k - 0] = c[0]
      BY <2>2
    <2>6. 1 < k => d[k - 1] = c[1]
      BY <2>4, <2>5
    <2>7. 2 < k => d[k - 2] = c[2]
      BY <2>4, <2>6
    <2>8. 3 < k => d[k - 3] = c[3]
      BY <2>4, <2>7
    <2>9. 4 < k => d[k - 4] = c[4]
      BY <2>4, <2>8
    <2>10. d[1] = c[k - 1]
      BY <2>5, <2>6, <2>7, <2>8, <2>9
    <2>11. parent[c[k - 1]] = c[k] /\ c[k] # c[6]
      BY DEF Climbs
    <2> QED
      BY <2>3, <2>10, <2>11
  <1>2. ASSUME NEW a \in Admin, SetParent(a), req[a].user = c[6], req[a].to = c[0], ~gone[c[6]]
        PROVE  ~Acyclic'
    <2>1. c \in [0..6 -> Member] /\ \A i \in 0..5 : parent[c[i]] = c[i + 1]
      BY DEF Climbs
    <2>2. parent' = [parent EXCEPT ![c[6]] = c[0]]
      BY <1>2 DEF SetParent
    <2> DEFINE S == {c[i] : i \in 0..6}
    <2>3. S \in (SUBSET Member) \ {{}}
      <3>1. c[0] \in S /\ S \subseteq Member
        BY <2>1
      <3> QED
        BY <3>1
    <2>4. ASSUME NEW i \in 0..6 PROVE parent'[c[i]] \in S
      <3>1. CASE i = 6
        BY <2>1, <2>2, <3>1 DEF TypeOK
      <3>2. CASE i # 6
        <4>1. i \in 0..5 /\ i + 1 \in 0..6
          BY <3>2
        <4>2. parent'[c[i]] = c[i + 1]
          BY <2>1, <2>2, <4>1 DEF TypeOK
        <4> QED
          BY <4>1, <4>2
      <3> QED
        BY <3>1, <3>2
    <2> QED
      BY <2>3, <2>4 DEF Acyclic
  <1> QED
    BY <1>1, <1>2, CheckSeesPaths
=============================================================================
