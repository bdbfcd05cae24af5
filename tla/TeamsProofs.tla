---------------------------- MODULE TeamsProofs ----------------------------
(***************************************************************************)
(* Proofs about the group store, its judge and the memory of the teams,    *)
(* for every finite set of groups and every depth of the tree, any number  *)
(* of users, names, requests, records and deletions.                       *)
(***************************************************************************)
EXTENDS TeamMemory, FiniteSetTheorems, WellFoundedInduction, TLAPS

-----------------------------------------------------------------------------
(* Induction by the least counterexample                                   *)

\* A set of naturals with a member has a least one.
LEMMA LeastNatural ==
  ASSUME NEW T, T \subseteq Nat, T # {}
  PROVE  \E n \in T : \A m \in T : n <= m
<1> DEFINE less == OpToRel(<, Nat)
<1>1. PICK n \in T : \A m \in T : ~(<<m, n>> \in less)
  <2> HIDE DEF less
  <2>1. IsWellFoundedOn(less, Nat)
    BY NatLessThanWellFounded DEF less
  <2> QED BY <2>1, WFMin
<1>2. less = {p \in Nat \X Nat : p[1] < p[2]}
  BY Zenon DEF OpToRel
<1> HIDE DEF less
<1>3. ASSUME NEW m \in T PROVE n <= m
  <2>1. m \in Nat /\ n \in Nat
    OBVIOUS
  <2>2. <<m, n>> \in Nat \X Nat /\ <<m, n>>[1] = m /\ <<m, n>>[2] = n
    BY <2>1
  <2>3. m < n => <<m, n>> \in less
    BY <1>2, <2>2
  <2> QED BY <1>1, <2>1, <2>3
<1> QED BY <1>3

-----------------------------------------------------------------------------
(* The recursive functions of the two walks exist                          *)

Nodes == Groups \cup {Top, Unborn, Gone}

\* What a walk upwards with n steps left returns.
IsUp(up, d) ==
  up = [n \in 0..d |-> [g \in Nodes |-> IF n = 0 \/ g \notin Live THEN {}
                                        ELSE {g} \cup up[n - 1][parent[g]]]]

\* There is such a function for every number of steps: otherwise take the least number
\* without one and extend the function of its predecessor.
LEMMA UpExists ==
  ASSUME NEW d \in Nat
  PROVE  \E up : IsUp(up, d)
<1> DEFINE Bad == {n \in Nat : ~ \E up : IsUp(up, n)}
<1>1. SUFFICES ASSUME Bad # {} PROVE FALSE
  OBVIOUS
<1>2. PICK n \in Bad : \A m \in Bad : n <= m
  BY <1>1, LeastNatural
<1>3. CASE n = 0
  <2> DEFINE up == [m \in 0..0 |-> [g \in Nodes |-> {}]]
  <2>1. IsUp(up, 0)
    BY DEF IsUp
  <2> QED BY <1>2, <1>3, <2>1
<1>4. CASE n # 0
  <2>1. n - 1 \in Nat /\ n - 1 \notin Bad
    BY <1>2, <1>4
  <2>2. PICK f : IsUp(f, n - 1)
    BY <2>1
  <2> DEFINE Step(u, m) == [g \in Nodes |-> IF m = 0 \/ g \notin Live THEN {}
                                           ELSE {g} \cup u[m - 1][parent[g]]]
             up == [m \in 0..n |-> Step(f, m)]
  <2>3. f = [m \in 0..(n - 1) |-> Step(f, m)]
    BY <2>2 DEF IsUp
  <2>4. \A m \in 0..(n - 1) : f[m] = Step(f, m)
    <3> DEFINE h == [m \in 0..(n - 1) |-> Step(f, m)]
    <3>1. \A m \in 0..(n - 1) : h[m] = Step(f, m)
      BY Zenon
    <3>2. f = h
      BY <2>3
    <3> HIDE DEF Step, h
    <3> QED BY <3>1, <3>2
  <2>5. \A m \in 0..n : up[m] = Step(f, m)
    BY Zenon
  <2>6. \A m \in 0..(n - 1) : m \in 0..n /\ up[m] = f[m]
    <3> HIDE DEF Step, up
    <3> QED BY <1>2, <2>4, <2>5
  <2>7. \A m \in 0..n : m = 0 \/ m - 1 \in 0..(n - 1)
    BY <1>2
  <2>8. ASSUME NEW m \in 0..n PROVE Step(f, m) = Step(up, m)
    <3>1. CASE m = 0
      BY <3>1
    <3>2. CASE m # 0
      <4>1. up[m - 1] = f[m - 1]
        BY <2>6, <2>7, <3>2
      <4> HIDE DEF up
      <4> QED BY <3>2, <4>1
    <3> QED BY <3>1, <3>2
  <2>9. up = [m \in 0..n |-> Step(up, m)]
    <3> HIDE DEF Step
    <3>1. up = [m \in 0..n |-> Step(f, m)]
      BY Zenon
    <3> HIDE DEF up
    <3> QED BY <2>8, <3>1
  <2>10. IsUp(up, n)
    <3> HIDE DEF up
    <3> QED BY <2>9 DEF IsUp
  <2> HIDE DEF up
  <2> QED BY <1>2, <2>10
<1> QED BY <1>3, <1>4

\* Chain unfolded.
LEMMA ChainIsUp ==
  \E up : IsUp(up, MaxTreeDepth) /\ \A g \in Nodes : Chain(g) = up[MaxTreeDepth][g]
<1> DEFINE up == CHOOSE f : IsUp(f, MaxTreeDepth)
<1>1. IsUp(up, MaxTreeDepth)
  BY UpExists, GroupsAssumption
<1>2. \A g \in Nodes : Chain(g) = up[MaxTreeDepth][g]
  BY DEF Chain, IsUp, Nodes
<1> QED BY <1>1, <1>2

\* What a walk downwards the children index with n steps left returns.
BelowStep(below, n, g) ==
  IF n = 0 THEN {g} ELSE {g} \cup UNION {below[n - 1][c] : c \in children[g]}

IsBelow(below, d) == below = [n \in 0..d |-> [g \in Groups |-> BelowStep(below, n, g)]]

\* The same for the walk downwards.
LEMMA BelowExists ==
  ASSUME NEW d \in Nat
  PROVE  \E below : IsBelow(below, d)
<1> DEFINE Bad == {n \in Nat : ~ \E below : IsBelow(below, n)}
<1>1. SUFFICES ASSUME Bad # {} PROVE FALSE
  OBVIOUS
<1>2. PICK n \in Bad : \A m \in Bad : n <= m
  BY <1>1, LeastNatural
<1>3. CASE n = 0
  <2> DEFINE below == [m \in 0..0 |-> [g \in Groups |-> {g}]]
  <2>1. IsBelow(below, 0)
    BY DEF IsBelow, BelowStep
  <2> QED BY <1>2, <1>3, <2>1
<1>4. CASE n # 0
  <2>1. n - 1 \in Nat /\ n - 1 \notin Bad
    BY <1>2, <1>4
  <2>2. PICK f : IsBelow(f, n - 1)
    BY <2>1
  <2> DEFINE Step(b, m) == [g \in Groups |-> BelowStep(b, m, g)]
             below == [m \in 0..n |-> Step(f, m)]
  <2>3. f = [m \in 0..(n - 1) |-> Step(f, m)]
    BY <2>2 DEF IsBelow
  <2>4. \A m \in 0..(n - 1) : f[m] = Step(f, m)
    <3> DEFINE h == [m \in 0..(n - 1) |-> Step(f, m)]
    <3>1. \A m \in 0..(n - 1) : h[m] = Step(f, m)
      BY Zenon
    <3>2. f = h
      BY <2>3
    <3> HIDE DEF Step, h
    <3> QED BY <3>1, <3>2
  <2>5. \A m \in 0..n : below[m] = Step(f, m)
    BY Zenon
  <2>6. \A m \in 0..(n - 1) : m \in 0..n /\ below[m] = f[m]
    <3> HIDE DEF Step, below
    <3> QED BY <1>2, <2>4, <2>5
  <2>7. \A m \in 0..n : m = 0 \/ m - 1 \in 0..(n - 1)
    BY <1>2
  <2>8. ASSUME NEW m \in 0..n PROVE Step(f, m) = Step(below, m)
    <3>1. CASE m = 0
      BY <3>1 DEF BelowStep
    <3>2. CASE m # 0
      <4>1. below[m - 1] = f[m - 1]
        BY <2>6, <2>7, <3>2
      <4> HIDE DEF below
      <4> QED BY <3>2, <4>1 DEF BelowStep
    <3> QED BY <3>1, <3>2
  <2>9. below = [m \in 0..n |-> Step(below, m)]
    <3> HIDE DEF Step
    <3>1. below = [m \in 0..n |-> Step(f, m)]
      BY Zenon
    <3> HIDE DEF below
    <3> QED BY <2>8, <3>1
  <2>10. IsBelow(below, n)
    <3> HIDE DEF below
    <3> QED BY <2>9 DEF IsBelow
  <2> HIDE DEF below
  <2> QED BY <1>2, <2>10
<1> QED BY <1>3, <1>4

\* Subtree unfolded.
LEMMA SubtreeIsBelow ==
  \E below : /\ IsBelow(below, Cardinality(Groups))
             /\ \A g \in Groups : Subtree(g) = below[Cardinality(Groups)][g]
<1> DEFINE below == CHOOSE f : IsBelow(f, Cardinality(Groups))
<1>0. Cardinality(Groups) \in Nat
  BY GroupsAssumption, FS_CardinalityType
<1>1. IsBelow(below, Cardinality(Groups))
  BY <1>0, BelowExists
<1>2. \A g \in Groups : Subtree(g) = below[Cardinality(Groups)][g]
  BY DEF Subtree, IsBelow, BelowStep
<1> QED BY <1>1, <1>2

\* The equations of the two walks, value by value.
LEMMA UpSteps ==
  ASSUME NEW up, IsUp(up, MaxTreeDepth), NEW n \in 0..MaxTreeDepth, NEW g \in Nodes
  PROVE  up[n][g] = IF n = 0 \/ g \notin Live THEN {} ELSE {g} \cup up[n - 1][parent[g]]
<1> DEFINE Step(m) == [x \in Nodes |-> IF m = 0 \/ x \notin Live THEN {}
                                       ELSE {x} \cup up[m - 1][parent[x]]]
           h == [m \in 0..MaxTreeDepth |-> Step(m)]
<1>1. h[n] = Step(n)
  BY Zenon
<1>2. up = h
  BY DEF IsUp
<1>3. up[n] = Step(n)
  <2> HIDE DEF Step, h
  <2> QED BY <1>1, <1>2
<1> QED BY <1>3

\* What the walk downwards adds with n steps left.
LEMMA BelowSteps ==
  ASSUME NEW below, IsBelow(below, Cardinality(Groups)),
         NEW n \in 0..Cardinality(Groups), NEW g \in Groups
  PROVE  below[n][g] = BelowStep(below, n, g)
<1> DEFINE Step(m) == [x \in Groups |-> BelowStep(below, m, x)]
           h == [m \in 0..Cardinality(Groups) |-> Step(m)]
<1>1. h[n] = Step(n)
  BY Zenon
<1>2. below = h
  BY DEF IsBelow
<1>3. below[n] = Step(n)
  <2> HIDE DEF Step, h
  <2> QED BY <1>1, <1>2
<1> QED BY <1>3

-----------------------------------------------------------------------------
(* The inductive invariant                                                 *)

\* lev counts the levels from the roots down.
IsLevel(lev) ==
  /\ lev \in [Groups -> 1..MaxTreeDepth]
  /\ \A g \in Live : \/ parent[g] = Top /\ lev[g] = 1
                     \/ parent[g] \in Live /\ lev[g] = lev[parent[g]] + 1

\* The groups are a forest of at most MaxTreeDepth levels.
Forest == \E lev \in [Groups -> 1..MaxTreeDepth] : IsLevel(lev)

\* The indexes list what the rows say, names are unique among siblings, and memberships
\* and exclusions are those of living groups.
RowsSound ==
  /\ children = LoadChildren
  /\ byName = LoadByName
  /\ \A g \in Live : name[g] \in Names
  /\ \A g, h \in Live : g # h /\ parent[g] = parent[h] => name[g] # name[h]
  /\ \A u \in Users, g \in Groups : direct[u][g] # 0 \/ g \in excluded[u] => g \in Live

IInv == TypeOK /\ Forest /\ RowsSound

-----------------------------------------------------------------------------
(* Facts about a forest                                                    *)

\* Induction over the levels: a set of groups with a member has a topmost one.
LEMMA Topmost ==
  ASSUME NEW lev \in [Groups -> 1..MaxTreeDepth], NEW S, S \subseteq Groups, S # {}
  PROVE  \E g \in S : \A h \in S : lev[g] <= lev[h]
<1> DEFINE T == {lev[g] : g \in S}
<1>1. T \subseteq Nat /\ T # {}
  BY GroupsAssumption
<1>2. PICK n \in T : \A m \in T : n <= m
  BY <1>1, LeastNatural
<1> QED BY <1>2

\* A walk up from g makes one step to its parent and walks on.
LEMMA ChainEquation ==
  ASSUME TypeOK, Forest
  PROVE  /\ \A g \in Nodes \ Live : Chain(g) = {}
         /\ \A g \in Live : Chain(g) = {g} \cup Chain(parent[g])
<1>1. PICK lev \in [Groups -> 1..MaxTreeDepth] : IsLevel(lev)
  BY DEF Forest
<1>2. PICK up : IsUp(up, MaxTreeDepth) /\ \A g \in Nodes : Chain(g) = up[MaxTreeDepth][g]
  BY ChainIsUp
<1>3. MaxTreeDepth \in Nat /\ MaxTreeDepth >= 1 /\ Top \in Nodes /\ Top \notin Live
  BY GroupsAssumption DEF Nodes, Live, Top
<1>4. \A g \in Live : g \in Nodes /\ parent[g] \in Nodes
  BY DEF TypeOK, Live, Nodes
<1>5. \A n \in 0..MaxTreeDepth, g \in Nodes :
        up[n][g] = IF n = 0 \/ g \notin Live THEN {} ELSE {g} \cup up[n - 1][parent[g]]
  BY <1>2, UpSteps
<1>6. \A n \in 0..MaxTreeDepth, g \in Live : n # 0 => up[n][g] = {g} \cup up[n - 1][parent[g]]
  BY <1>4, <1>5
<1>7. \A n \in 0..MaxTreeDepth, g \in Nodes \ Live : up[n][g] = {}
  BY <1>5
\* A walk with enough steps left finds the same groups with one more.
<1>8. ASSUME NEW n \in Nat, n + 1 <= MaxTreeDepth, NEW g \in Live, lev[g] <= n
      PROVE  up[n + 1][g] = up[n][g]
  <2> DEFINE Bad == {h \in Live : \E m \in Nat : /\ m + 1 <= MaxTreeDepth /\ lev[h] <= m
                                                 /\ up[m + 1][h] # up[m][h]}
  <2>1. SUFFICES ASSUME Bad # {} PROVE FALSE
    BY <1>8
  <2>2. PICK h \in Bad : \A x \in Bad : lev[h] <= lev[x]
    <3>1. Bad \subseteq Groups
      BY DEF Live
    <3> HIDE DEF Bad
    <3> QED BY <2>1, <3>1, Topmost
  <2>3. PICK m \in Nat : m + 1 <= MaxTreeDepth /\ lev[h] <= m /\ up[m + 1][h] # up[m][h]
    BY <2>2
  <2>4. h \in Live /\ h \in Nodes /\ parent[h] \in Nodes /\ lev[h] \in 1..MaxTreeDepth
    BY <1>4, <2>2 DEF Live
  <2>5. m # 0 /\ m \in 0..MaxTreeDepth /\ m + 1 \in 0..MaxTreeDepth /\ m - 1 \in Nat
        /\ (m + 1) - 1 = m /\ (m - 1) + 1 = m /\ m - 1 \in 0..MaxTreeDepth
    BY <1>3, <2>3, <2>4
  <2>6. up[m + 1][h] = {h} \cup up[m][parent[h]] /\ up[m][h] = {h} \cup up[m - 1][parent[h]]
    <3>1. /\ up[m + 1][h] = {h} \cup up[(m + 1) - 1][parent[h]]
          /\ up[m][h] = {h} \cup up[m - 1][parent[h]]
      BY <1>3, <1>6, <2>4, <2>5
    <3> QED BY <2>5, <3>1
  <2>7. CASE parent[h] = Top
    BY <1>3, <1>5, <2>3, <2>5, <2>6, <2>7
  <2>8. CASE parent[h] \in Live /\ lev[h] = lev[parent[h]] + 1
    <3>1. lev[parent[h]] \in 1..MaxTreeDepth /\ parent[h] \in Live
      BY <2>8 DEF Live
    <3>2. lev[parent[h]] < lev[h] /\ lev[parent[h]] <= m - 1 /\ (m - 1) + 1 <= MaxTreeDepth
      BY <1>3, <2>3, <2>5, <2>8, <3>1
    <3>3. parent[h] \notin Bad
      BY <2>2, <2>4, <3>1, <3>2
    <3>4. up[(m - 1) + 1][parent[h]] = up[m - 1][parent[h]]
      BY <2>5, <3>1, <3>2, <3>3
    <3> QED BY <2>3, <2>5, <2>6, <3>4
  <2> QED BY <1>1, <2>4, <2>7, <2>8 DEF IsLevel
<1>9. ASSUME NEW g \in Live PROVE Chain(g) = {g} \cup Chain(parent[g])
  <2>1. Chain(g) = {g} \cup up[MaxTreeDepth - 1][parent[g]]
    <3>1. MaxTreeDepth \in 0..MaxTreeDepth /\ MaxTreeDepth # 0
      BY <1>3
    <3>2. up[MaxTreeDepth][g] = {g} \cup up[MaxTreeDepth - 1][parent[g]]
      BY <1>6, <3>1
    <3> QED BY <1>2, <1>4, <3>2
  <2>2. up[MaxTreeDepth][parent[g]] = up[MaxTreeDepth - 1][parent[g]]
    <3>1. MaxTreeDepth - 1 \in 0..MaxTreeDepth /\ MaxTreeDepth \in 0..MaxTreeDepth
          /\ (MaxTreeDepth - 1) + 1 = MaxTreeDepth /\ MaxTreeDepth - 1 \in Nat
      BY <1>3
    <3>2. CASE parent[g] = Top
      BY <1>3, <1>5, <3>1, <3>2
    <3>3. CASE parent[g] \in Live /\ lev[g] = lev[parent[g]] + 1
      <4>1. lev[g] \in 1..MaxTreeDepth /\ lev[parent[g]] \in 1..MaxTreeDepth
        BY <3>3 DEF Live
      <4>2. lev[parent[g]] <= MaxTreeDepth - 1 /\ (MaxTreeDepth - 1) + 1 <= MaxTreeDepth
        BY <1>3, <3>3, <4>1
      <4>3. up[(MaxTreeDepth - 1) + 1][parent[g]] = up[MaxTreeDepth - 1][parent[g]]
        BY <1>8, <3>1, <3>3, <4>2
      <4> QED BY <3>1, <4>3
    <3> QED BY <1>1, <3>2, <3>3 DEF IsLevel
  <2> QED BY <1>2, <1>4, <2>1, <2>2
<1>10. \A g \in Nodes \ Live : Chain(g) = {}
  <2>1. MaxTreeDepth \in 0..MaxTreeDepth
    BY <1>3
  <2> QED BY <1>2, <1>7, <2>1
<1> QED BY <1>9, <1>10

\* What a walk up from g finds: living groups on distinct levels, closed under parents,
\* down to a root; as many as g has levels.
LEMMA ChainLevels ==
  ASSUME TypeOK, Forest, NEW lev, IsLevel(lev)
  PROVE  \A g \in Live :
           /\ Chain(g) \subseteq Live
           /\ \A h \in Chain(g) : lev[h] <= lev[g] /\ (lev[h] = lev[g] => h = g)
           /\ IsFiniteSet(Chain(g)) /\ Cardinality(Chain(g)) = lev[g]
           /\ \E h \in Chain(g) : parent[h] = Top
           /\ \A h \in Chain(g) : Chain(h) \subseteq Chain(g)
           /\ \A h \in Chain(g) : h # g => \E c \in Chain(g) : parent[c] = h
<1> DEFINE Good(g) ==
             /\ Chain(g) \subseteq Live
             /\ \A h \in Chain(g) : lev[h] <= lev[g] /\ (lev[h] = lev[g] => h = g)
             /\ IsFiniteSet(Chain(g)) /\ Cardinality(Chain(g)) = lev[g]
             /\ \E h \in Chain(g) : parent[h] = Top
             /\ \A h \in Chain(g) : Chain(h) \subseteq Chain(g)
             /\ \A h \in Chain(g) : h # g => \E c \in Chain(g) : parent[c] = h
           Bad == {g \in Live : ~Good(g)}
<1>1. SUFFICES ASSUME Bad # {} PROVE FALSE
  OBVIOUS
<1>2. lev \in [Groups -> 1..MaxTreeDepth] /\ MaxTreeDepth \in Nat
  BY GroupsAssumption DEF IsLevel
<1>3. PICK g \in Bad : \A h \in Bad : lev[g] <= lev[h]
  <2>1. Bad \subseteq Groups
    BY DEF Live
  <2> HIDE DEF Bad
  <2> QED BY <1>1, <1>2, <2>1, Topmost
<1>4. g \in Live /\ ~Good(g) /\ lev[g] \in 1..MaxTreeDepth
  BY <1>2, <1>3 DEF Live
<1>5. Chain(g) = {g} \cup Chain(parent[g])
  BY <1>4, ChainEquation
<1>6. CASE parent[g] = Top /\ lev[g] = 1
  <2>1. Top \in Nodes \ Live
    BY GroupsAssumption DEF Nodes, Live, Top
  <2>2. Chain(g) = {g}
    BY <1>5, <1>6, <2>1, ChainEquation
  <2>3. IsFiniteSet({g}) /\ Cardinality({g}) = 1
    BY FS_Singleton
  <2> QED BY <1>4, <1>6, <2>2, <2>3
<1>7. CASE parent[g] \in Live /\ lev[g] = lev[parent[g]] + 1
  <2> DEFINE p == parent[g]
  <2>1. p \in Live /\ lev[p] \in 1..MaxTreeDepth /\ lev[p] < lev[g] /\ lev[g] = lev[p] + 1
    BY <1>2, <1>4, <1>7 DEF Live
  <2>2. p \notin Bad
    BY <1>3, <1>4, <2>1
  <2>3. Good(p)
    BY <2>1, <2>2
  <2>4. Chain(g) = {g} \cup Chain(p)
    BY <1>5
  <2>5. p \in Chain(p)
    BY <2>1, ChainEquation
  <2> HIDE DEF p
  <2>6. Chain(g) \subseteq Live
    BY <1>4, <2>3, <2>4
  <2>7. \A h \in Chain(p) : lev[h] \in 1..MaxTreeDepth /\ lev[h] <= lev[p] /\ lev[h] < lev[g]
    <3>1. \A h \in Chain(p) : h \in Groups /\ lev[h] <= lev[p]
      BY <2>3 DEF Live
    <3> QED BY <1>2, <2>1, <3>1
  <2>8. \A h \in Chain(g) : lev[h] <= lev[g] /\ (lev[h] = lev[g] => h = g)
    BY <1>4, <2>4, <2>7
  <2>9. g \notin Chain(p)
    BY <1>4, <2>7
  <2>10. IsFiniteSet(Chain(g)) /\ Cardinality(Chain(g)) = lev[g]
    <3>1. IsFiniteSet(Chain(p)) /\ Cardinality(Chain(p)) = lev[p]
      BY <2>3
    <3>2. /\ IsFiniteSet(Chain(p) \cup {g})
          /\ Cardinality(Chain(p) \cup {g}) = Cardinality(Chain(p)) + 1
      BY <2>9, <3>1, FS_AddElement
    <3>3. Chain(g) = Chain(p) \cup {g}
      BY <2>4
    <3> QED BY <2>1, <3>1, <3>2, <3>3
  <2>11. \E h \in Chain(g) : parent[h] = Top
    BY <2>3, <2>4
  <2>12. \A h \in Chain(g) : Chain(h) \subseteq Chain(g)
    BY <2>3, <2>4
  <2>13. \A h \in Chain(g) : h # g => \E c \in Chain(g) : parent[c] = h
    <3>1. ASSUME NEW h \in Chain(g), h # g PROVE \E c \in Chain(g) : parent[c] = h
      <4>1. h \in Chain(p)
        BY <2>4, <3>1
      <4>2. CASE h = p
        BY <2>4, <4>2 DEF p
      <4>3. CASE h # p
        BY <2>3, <2>4, <4>1, <4>3
      <4> QED BY <4>2, <4>3
    <3> QED BY <3>1
  <2> QED BY <1>4, <2>6, <2>8, <2>10, <2>11, <2>12, <2>13
<1> QED BY <1>4, <1>6, <1>7 DEF IsLevel

\* The children index leads down to exactly the groups whose walk up passes g.
LEMMA SubtreeIsAbove ==
  ASSUME TypeOK, Forest, children = LoadChildren
  PROVE  \A g \in Live : Subtree(g) = {h \in Live : g \in Chain(h)}
<1>1. PICK lev \in [Groups -> 1..MaxTreeDepth] : IsLevel(lev)
  BY DEF Forest
<1>2. PICK below : /\ IsBelow(below, Cardinality(Groups))
                   /\ \A g \in Groups : Subtree(g) = below[Cardinality(Groups)][g]
  BY SubtreeIsBelow
<1> DEFINE N == Cardinality(Groups)
           Reach(n, g) == {h \in Live : g \in Chain(h) /\ lev[h] <= lev[g] + n}
           Bad == {n \in Nat : n <= N /\ \E g \in Live : below[n][g] # Reach(n, g)}
<1>3. N \in Nat /\ MaxTreeDepth \in Nat
  BY GroupsAssumption, FS_CardinalityType
<1>4. \A n \in 0..N, g \in Groups : below[n][g] = BelowStep(below, n, g)
  BY <1>2, BelowSteps
<1>5. \A g \in Live : /\ g \in Groups /\ lev[g] \in 1..MaxTreeDepth /\ g \in Chain(g)
                      /\ children[g] = {h \in Live : parent[h] = g}
  BY ChainEquation DEF Live, LoadChildren
<1> HIDE DEF N
<1>6. Bad = {}
  <2>1. SUFFICES ASSUME Bad # {} PROVE FALSE
    OBVIOUS
  <2>2. PICK n \in Bad : \A m \in Bad : n <= m
    BY <2>1, LeastNatural
  <2>3. n \in Nat /\ n <= N /\ n \in 0..N
    BY <1>3, <2>2
  <2>4. PICK g \in Live : below[n][g] # Reach(n, g)
    BY <2>2
  <2>5. CASE n = 0
    <3>1. below[n][g] = {g}
      BY <1>4, <1>5, <2>3, <2>4, <2>5 DEF BelowStep
    <3>2. Reach(0, g) = {g}
      <4>1. ASSUME NEW h \in Reach(0, g) PROVE h = g
        <5>1. h \in Live /\ g \in Chain(h) /\ lev[h] <= lev[g] /\ lev[g] <= lev[h]
          BY <1>1, <1>5, <4>1, ChainLevels
        <5>2. lev[g] = lev[h]
          BY <1>5, <2>4, <5>1
        <5> QED BY <1>1, <5>1, <5>2, ChainLevels
      <4>2. g \in Reach(0, g)
        BY <1>5, <2>4
      <4> HIDE DEF Reach
      <4> QED BY <4>1, <4>2
    <3> QED BY <2>4, <2>5, <3>1, <3>2
  <2>6. CASE n # 0
    <3>1. n - 1 \in Nat /\ n - 1 \notin Bad /\ n - 1 <= N
      BY <1>3, <2>2, <2>3, <2>6
    <3>2. \A c \in Live : below[n - 1][c] = Reach(n - 1, c)
      BY <3>1
    <3>3. below[n][g] = {g} \cup UNION {below[n - 1][c] : c \in children[g]}
      <4>1. below[n][g] = BelowStep(below, n, g)
        BY <1>4, <1>5, <2>3, <2>4
      <4> QED BY <2>6, <4>1 DEF BelowStep
    <3>4. ASSUME NEW h \in below[n][g], h # g PROVE h \in Reach(n, g)
      <4>1. PICK c \in children[g] : h \in below[n - 1][c]
        BY <3>3, <3>4
      <4>2. c \in Live /\ parent[c] = g /\ h \in Reach(n - 1, c)
        BY <1>5, <2>4, <3>2, <4>1
      <4>3. h \in Live /\ c \in Chain(h) /\ lev[h] <= lev[c] + (n - 1)
        BY <4>2
      <4>4. g \in Chain(c)
        BY <1>5, <2>4, <4>2, ChainEquation
      <4>5. g \in Chain(h)
        BY <1>1, <4>3, <4>4, ChainLevels
      <4>6. lev[c] = lev[g] + 1
        <5>1. Top \notin Live
          BY GroupsAssumption DEF Live, Top
        <5> QED BY <1>1, <2>4, <4>2, <5>1 DEF IsLevel
      <4>7. lev[h] <= lev[g] + n
        BY <1>5, <2>3, <2>4, <4>3, <4>6
      <4> QED BY <4>3, <4>5, <4>7
    <3>5. ASSUME NEW h \in Reach(n, g), h # g PROVE h \in below[n][g]
      <4>1. h \in Live /\ g \in Chain(h) /\ lev[h] <= lev[g] + n
        BY <3>5
      <4>2. PICK c \in Chain(h) : parent[c] = g
        BY <1>1, <3>5, <4>1, ChainLevels
      <4>3. c \in Live
        BY <1>1, <4>1, <4>2, ChainLevels
      <4>4. lev[c] = lev[g] + 1
        <5>1. Top \notin Live
          BY GroupsAssumption DEF Live, Top
        <5> QED BY <1>1, <2>4, <4>2, <4>3, <5>1 DEF IsLevel
      <4>5. lev[h] <= lev[c] + (n - 1)
        BY <1>5, <2>3, <2>4, <4>1, <4>4
      <4>6. h \in below[n - 1][c] /\ c \in children[g]
        BY <1>5, <2>4, <3>2, <4>1, <4>2, <4>3, <4>5
      <4> QED BY <3>3, <4>6
    <3>6. g \in Reach(n, g) /\ g \in below[n][g]
      <4>1. lev[g] <= lev[g] + n
        BY <1>5, <2>3, <2>4
      <4> QED BY <1>5, <2>4, <3>3, <4>1
    <3> HIDE DEF Reach
    <3> QED BY <2>4, <3>4, <3>5, <3>6
  <2> QED BY <2>5, <2>6
<1>7. ASSUME NEW g \in Live PROVE Subtree(g) = {h \in Live : g \in Chain(h)}
  <2>1. Subtree(g) = Reach(N, g)
    <3>1. Subtree(g) = below[N][g]
      BY <1>2, <1>5 DEF N
    <3> QED BY <1>3, <1>6, <3>1
  <2>2. ASSUME NEW h \in Live PROVE lev[h] <= lev[g] + N
    <3>1. Chain(h) \subseteq Groups /\ Cardinality(Chain(h)) = lev[h]
      BY <1>1, ChainLevels DEF Live
    <3>2. lev[h] <= N
      BY <3>1, GroupsAssumption, FS_Subset DEF N
    <3> QED BY <1>3, <1>5, <3>2
  <2> QED BY <2>1, <2>2
<1> QED BY <1>7

\* What the walks of the judge find in a forest: up from a group the group, then what
\* its parent finds; transitive and without cycles; a root in time; and down the index
\* the groups whose walk up comes by.
TreeFacts ==
  /\ \A g \in Nodes \ Live : Chain(g) = {}
  /\ \A g \in Live :
       /\ Chain(g) = {g} \cup Chain(parent[g])
       /\ g \notin Chain(parent[g])
       /\ Chain(g) \subseteq Live
       /\ DepthOK(g)
       /\ \A h \in Chain(g) : Chain(h) \subseteq Chain(g)
       /\ \A h \in Chain(g) : g \in Chain(h) => h = g
       /\ Subtree(g) = {h \in Live : g \in Chain(h)}

\* The invariant makes the two walks of the store agree with the parent column.
LEMMA TreeSound == IInv => TreeFacts
<1>1. SUFFICES ASSUME IInv PROVE TreeFacts
  OBVIOUS
<1>2. TypeOK /\ Forest /\ children = LoadChildren
  BY <1>1 DEF IInv, RowsSound
<1>3. PICK lev \in [Groups -> 1..MaxTreeDepth] : IsLevel(lev)
  BY <1>2 DEF Forest
<1>4. ASSUME NEW g \in Live
      PROVE  /\ Chain(g) = {g} \cup Chain(parent[g])
             /\ g \notin Chain(parent[g])
             /\ Chain(g) \subseteq Live
             /\ DepthOK(g)
             /\ \A h \in Chain(g) : Chain(h) \subseteq Chain(g)
             /\ \A h \in Chain(g) : g \in Chain(h) => h = g
             /\ Subtree(g) = {h \in Live : g \in Chain(h)}
  <2>1. Chain(g) = {g} \cup Chain(parent[g])
    BY <1>2, ChainEquation
  <2>2. \A x \in Live : lev[x] \in Nat
    BY GroupsAssumption DEF Live
  <2>3. g \notin Chain(parent[g])
    <3>1. CASE parent[g] = Top
      <4>1. Top \in Nodes \ Live
        BY GroupsAssumption DEF Nodes, Live, Top
      <4> QED BY <1>2, <3>1, <4>1, ChainEquation
    <3>2. CASE parent[g] \in Live /\ lev[g] = lev[parent[g]] + 1
      <4>1. g \in Chain(parent[g]) => lev[g] <= lev[parent[g]]
        BY <1>2, <1>3, <3>2, ChainLevels
      <4> QED BY <2>2, <3>2, <4>1
    <3> QED BY <1>3, <3>1, <3>2 DEF IsLevel
  <2>4. Chain(g) \subseteq Live /\ \A h \in Chain(g) : Chain(h) \subseteq Chain(g)
    BY <1>2, <1>3, ChainLevels
  <2>5. DepthOK(g)
    BY <1>2, <1>3, ChainLevels DEF DepthOK
  <2>6. ASSUME NEW h \in Chain(g), g \in Chain(h) PROVE h = g
    <3>1. h \in Live /\ lev[h] <= lev[g] /\ lev[g] <= lev[h]
      BY <1>2, <1>3, <2>4, <2>6, ChainLevels
    <3>2. lev[h] = lev[g]
      BY <2>2, <3>1
    <3> QED BY <1>2, <1>3, <3>2, ChainLevels
  <2>7. Subtree(g) = {h \in Live : g \in Chain(h)}
    BY <1>2, SubtreeIsAbove
  <2> QED BY <2>1, <2>3, <2>4, <2>5, <2>6, <2>7
<1>5. \A g \in Nodes \ Live : Chain(g) = {}
  BY <1>2, ChainEquation
<1> QED BY <1>4, <1>5 DEF TreeFacts

\* The depth that CreateGroup tests is the level.
LEMMA DepthIsLevel ==
  ASSUME TypeOK, Forest, NEW lev, IsLevel(lev), NEW g \in Live
  PROVE  Depth(g) = lev[g]
BY ChainLevels DEF Depth

-----------------------------------------------------------------------------
(* Steps of the store keep the invariant                                   *)

\* A call that leaves the tree alone keeps the forest and its indexes.
LEMMA TreeKept ==
  ASSUME IInv, UNCHANGED tree
  PROVE  /\ Live' = Live /\ Forest'
         /\ children' = LoadChildren' /\ byName' = LoadByName'
         /\ \A g \in Live' : name'[g] \in Names
         /\ \A g, h \in Live' : g # h /\ parent'[g] = parent'[h] => name'[g] # name'[h]
<1>1. parent' = parent /\ name' = name /\ children' = children /\ byName' = byName
  BY DEF tree
<1>2. Live' = Live
  BY <1>1 DEF Live
<1>3. Forest'
  BY <1>1, <1>2 DEF IInv, Forest, IsLevel
<1>4. children' = LoadChildren' /\ byName' = LoadByName'
  BY <1>1, <1>2 DEF IInv, RowsSound, LoadChildren, LoadByName
<1> QED BY <1>1, <1>2, <1>3, <1>4 DEF IInv, RowsSound

\* A call about one user's rows of one group.
LEMMA GrantsKept ==
  ASSUME IInv, UNCHANGED tree,
         request' \in [Requests -> {Idle} \cup
                         [pc : {"add", "promote", "added"}, user : Users, group : Groups]],
         direct' \in [Users -> [Groups -> Roles \cup {0}]],
         excluded' \in [Users -> SUBSET Groups],
         \A u \in Users : \A g \in excluded'[u] : direct'[u][g] = 0,
         \A u \in Users, g \in Groups : direct'[u][g] # 0 \/ g \in excluded'[u] => g \in Live
  PROVE  IInv'
<1>1. TypeOK'
  BY DEF IInv, TypeOK, tree
<1>2. RowsSound'
  <2>1. \A u \in Users, g \in Groups : direct'[u][g] # 0 \/ g \in excluded'[u] => g \in Live'
    BY TreeKept
  <2> QED BY <2>1, TreeKept DEF RowsSound
<1> QED BY <1>1, <1>2, TreeKept DEF IInv

\* Grant sets one membership of a living group and lifts the exclusion on it.
LEMMA GrantStep ==
  ASSUME IInv, NEW u \in Users, NEW g \in Groups, NEW r \in Roles, Grant(u, g, r),
         UNCHANGED tree,
         request' \in [Requests -> {Idle} \cup
                         [pc : {"add", "promote", "added"}, user : Users, group : Groups]]
  PROVE  IInv'
<1>1. /\ g \in Live /\ direct' = [direct EXCEPT ![u][g] = r]
      /\ excluded' = [excluded EXCEPT ![u] = @ \ {g}]
  BY DEF Grant
<1>2. /\ direct \in [Users -> [Groups -> Roles \cup {0}]] /\ excluded \in [Users -> SUBSET Groups]
      /\ \A v \in Users : \A h \in excluded[v] : direct[v][h] = 0
      /\ \A v \in Users, h \in Groups : direct[v][h] # 0 \/ h \in excluded[v] => h \in Live
  BY DEF IInv, TypeOK, RowsSound
<1>3. /\ direct' \in [Users -> [Groups -> Roles \cup {0}]] /\ excluded' \in [Users -> SUBSET Groups]
  BY <1>1, <1>2
<1>4. \A v \in Users, h \in Groups :
        /\ direct'[v][h] = IF v = u /\ h = g THEN r ELSE direct[v][h]
        /\ h \in excluded'[v] <=> h \in excluded[v] /\ ~(v = u /\ h = g)
  BY <1>1, <1>2
<1>5. \A v \in Users : \A h \in excluded'[v] : direct'[v][h] = 0
  BY <1>2, <1>3, <1>4
<1>6. \A v \in Users, h \in Groups : direct'[v][h] # 0 \/ h \in excluded'[v] => h \in Live
  BY <1>1, <1>2, <1>4
<1> QED BY <1>3, <1>5, <1>6, GrantsKept

\* A call that takes memberships away and excludes from groups that have none left.
LEMMA RevokeStep ==
  ASSUME IInv, NEW u \in Users, NEW g \in Live, Revoke(u, g)
  PROVE  IInv'
<1> DEFINE cut == g \notin excluded[u] /\ ReachesByInheritance(u, g)
<1>1. /\ UNCHANGED tree /\ request' = request
      /\ direct' = [direct EXCEPT ![u][g] = 0]
      /\ excluded' = [excluded EXCEPT ![u] = IF cut THEN @ \cup {g} ELSE @]
  BY DEF Revoke
<1> HIDE DEF cut
<1>2. /\ direct \in [Users -> [Groups -> Roles \cup {0}]] /\ excluded \in [Users -> SUBSET Groups]
      /\ \A v \in Users : \A h \in excluded[v] : direct[v][h] = 0
      /\ \A v \in Users, h \in Groups : direct[v][h] # 0 \/ h \in excluded[v] => h \in Live
      /\ g \in Groups
  BY DEF IInv, TypeOK, RowsSound, Live
<1>3. /\ direct' \in [Users -> [Groups -> Roles \cup {0}]] /\ excluded' \in [Users -> SUBSET Groups]
  BY <1>1, <1>2
<1>4. \A v \in Users, h \in Groups :
        /\ direct'[v][h] = IF v = u /\ h = g THEN 0 ELSE direct[v][h]
        /\ h \in excluded'[v] => h \in excluded[v] \/ (v = u /\ h = g)
  BY <1>1, <1>2
<1>5. \A v \in Users : \A h \in excluded'[v] : direct'[v][h] = 0
  BY <1>2, <1>3, <1>4
<1>6. \A v \in Users, h \in Groups : direct'[v][h] # 0 \/ h \in excluded'[v] => h \in Live
  BY <1>1, <1>2, <1>4
<1>7. request' \in [Requests -> {Idle} \cup
                      [pc : {"add", "promote", "added"}, user : Users, group : Groups]]
  BY <1>1 DEF IInv, TypeOK
<1> QED BY <1>1, <1>3, <1>5, <1>6, <1>7, GrantsKept

\* Removing a user drops its memberships and exclusions with it.
LEMMA RemoveUserStep ==
  ASSUME IInv, NEW u \in Users, RemoveUser(u)
  PROVE  IInv'
<1>1. /\ UNCHANGED tree /\ request' = request
      /\ direct' = [direct EXCEPT ![u] = [g \in Groups |-> 0]]
      /\ excluded' = [excluded EXCEPT ![u] = {}]
  BY DEF RemoveUser
<1>2. /\ direct \in [Users -> [Groups -> Roles \cup {0}]] /\ excluded \in [Users -> SUBSET Groups]
      /\ \A v \in Users : \A h \in excluded[v] : direct[v][h] = 0
      /\ \A v \in Users, h \in Groups : direct[v][h] # 0 \/ h \in excluded[v] => h \in Live
  BY DEF IInv, TypeOK, RowsSound
<1>3. /\ direct' \in [Users -> [Groups -> Roles \cup {0}]] /\ excluded' \in [Users -> SUBSET Groups]
  BY <1>1, <1>2
<1>4. \A v \in Users, h \in Groups :
        /\ direct'[v][h] = IF v = u THEN 0 ELSE direct[v][h]
        /\ h \in excluded'[v] => h \in excluded[v] /\ v # u
  BY <1>1, <1>2
<1>5. \A v \in Users : \A h \in excluded'[v] : direct'[v][h] = 0
  BY <1>2, <1>3, <1>4
<1>6. \A v \in Users, h \in Groups : direct'[v][h] # 0 \/ h \in excluded'[v] => h \in Live
  BY <1>1, <1>2, <1>4
<1>7. request' \in [Requests -> {Idle} \cup
                      [pc : {"add", "promote", "added"}, user : Users, group : Groups]]
  BY <1>1 DEF IInv, TypeOK
<1> QED BY <1>1, <1>3, <1>5, <1>6, <1>7, GrantsKept

\* The undo of a grant: one membership less.
LEMMA UndoStep ==
  ASSUME IInv, NEW u \in Users, NEW g \in Groups, RevokeDirectGrant(u, g), UNCHANGED tree,
         request' \in [Requests -> {Idle} \cup
                         [pc : {"add", "promote", "added"}, user : Users, group : Groups]]
  PROVE  IInv'
<1>1. direct' = [direct EXCEPT ![u][g] = 0] /\ excluded' = excluded
  BY DEF RevokeDirectGrant
<1>2. /\ direct \in [Users -> [Groups -> Roles \cup {0}]] /\ excluded \in [Users -> SUBSET Groups]
      /\ \A v \in Users : \A h \in excluded[v] : direct[v][h] = 0
      /\ \A v \in Users, h \in Groups : direct[v][h] # 0 \/ h \in excluded[v] => h \in Live
  BY DEF IInv, TypeOK, RowsSound
<1>3. /\ direct' \in [Users -> [Groups -> Roles \cup {0}]] /\ excluded' \in [Users -> SUBSET Groups]
  BY <1>1, <1>2
<1>4. \A v \in Users, h \in Groups : direct'[v][h] = IF v = u /\ h = g THEN 0 ELSE direct[v][h]
  BY <1>1, <1>2
<1>5. \A v \in Users : \A h \in excluded'[v] : direct'[v][h] = 0
  BY <1>1, <1>2, <1>3, <1>4
<1>6. \A v \in Users, h \in Groups : direct'[v][h] # 0 \/ h \in excluded'[v] => h \in Live
  BY <1>1, <1>2, <1>4
<1> QED BY <1>3, <1>5, <1>6, GrantsKept

\* The requests that check in one call and grant in the next.
LEMMA RequestStep ==
  ASSUME IInv, NEW q \in Requests,
         \/ \E u \in Users, g \in Live : AddChecks(q, u, g) \/ PromoteChecks(q, u, g)
         \/ \E r \in Roles : AddGrants(q, r) \/ PromoteGrants(q, r)
         \/ GrantRefused(q) \/ AddSucceeds(q) \/ AddFails(q)
  PROVE  IInv'
<1> DEFINE Pending == [pc : {"add", "promote", "added"}, user : Users, group : Groups]
<1>1. request \in [Requests -> {Idle} \cup Pending]
  BY DEF IInv, TypeOK
<1>2. Idle.pc = "idle"
  BY DEF Idle
<1>3. request[q].pc \in {"add", "promote", "added"} =>
        request[q] \in Pending /\ request[q].user \in Users /\ request[q].group \in Groups
  BY <1>1, <1>2
<1>4. ASSUME NEW pc \in {"add", "promote", "added"}, NEW u \in Users, NEW g \in Groups,
             Goto(q, pc, u, g)
      PROVE  request' \in [Requests -> {Idle} \cup Pending]
  <2>1. [pc |-> pc, user |-> u, group |-> g] \in Pending
    BY <1>4
  <2> HIDE DEF Pending
  <2> QED BY <1>1, <1>4, <2>1 DEF Goto
<1>5. Reply(q) => request' \in [Requests -> {Idle} \cup Pending]
  <2> HIDE DEF Pending
  <2> QED BY <1>1 DEF Reply
<1>6. ASSUME UNCHANGED <<tree, grants>>, request' \in [Requests -> {Idle} \cup Pending]
      PROVE  IInv'
  <2>1. direct' = direct /\ excluded' = excluded /\ UNCHANGED tree
    BY <1>6 DEF grants
  <2>2. /\ direct \in [Users -> [Groups -> Roles \cup {0}]] /\ excluded \in [Users -> SUBSET Groups]
        /\ \A v \in Users : \A h \in excluded[v] : direct[v][h] = 0
        /\ \A v \in Users, h \in Groups : direct[v][h] # 0 \/ h \in excluded[v] => h \in Live
    BY DEF IInv, TypeOK, RowsSound
  <2> QED BY <1>6, <2>1, <2>2, GrantsKept
<1>7. ASSUME NEW u \in Users, NEW g \in Live, AddChecks(q, u, g) \/ PromoteChecks(q, u, g)
      PROVE  IInv'
  <2>1. g \in Groups /\ UNCHANGED <<tree, grants>>
        /\ (Goto(q, "add", u, g) \/ Goto(q, "promote", u, g))
    BY <1>7 DEF AddChecks, PromoteChecks, Live
  <2>2. request' \in [Requests -> {Idle} \cup Pending]
    BY <1>4, <2>1
  <2> QED BY <1>6, <2>1, <2>2
<1>8. ASSUME NEW r \in Roles, AddGrants(q, r) \/ PromoteGrants(q, r)
      PROVE  IInv'
  <2>1. /\ request[q].pc \in {"add", "promote"} /\ UNCHANGED tree
        /\ Grant(request[q].user, request[q].group, r)
        /\ Reply(q) \/ Goto(q, "added", request[q].user, request[q].group)
    BY <1>8 DEF AddGrants, PromoteGrants
  <2>2. request' \in [Requests -> {Idle} \cup Pending]
    BY <1>3, <1>4, <1>5, <2>1
  <2> QED BY <1>3, <2>1, <2>2, GrantStep
<1>9. CASE GrantRefused(q) \/ AddSucceeds(q)
  BY <1>5, <1>6, <1>9 DEF GrantRefused, AddSucceeds
<1>10. CASE AddFails(q)
  <2>1. /\ request[q].pc = "added" /\ Reply(q) /\ UNCHANGED tree
        /\ \/ RevokeDirectGrant(request[q].user, request[q].group)
           \/ UNCHANGED grants
    BY <1>10 DEF AddFails
  <2>2. CASE UNCHANGED grants
    BY <1>5, <1>6, <2>1, <2>2
  <2>3. CASE RevokeDirectGrant(request[q].user, request[q].group)
    BY <1>3, <1>5, <2>1, <2>3, UndoStep
  <2> QED BY <2>1, <2>2, <2>3
<1> QED BY <1>7, <1>8, <1>9, <1>10

\* A new group is a leaf one level below its parent.
LEMMA CreateStep ==
  ASSUME IInv, NEW g \in Groups, NEW p \in Live \cup {Top}, NEW n \in Names,
         CreateGroup(g, p, n)
  PROVE  IInv'
<1>1. /\ parent[g] = Unborn /\ ~NameTaken(p, n, {})
      /\ p \in Live => Depth(p) + 1 <= MaxTreeDepth
      /\ parent' = [parent EXCEPT ![g] = p] /\ name' = [name EXCEPT ![g] = n]
      /\ byName' = [byName EXCEPT ![n] = @ \cup {g}]
      /\ children' = IF p = Top THEN children ELSE [children EXCEPT ![p] = @ \cup {g}]
      /\ direct' = direct /\ excluded' = excluded /\ request' = request
  BY DEF CreateGroup, grants
<1>2. TypeOK /\ Forest /\ RowsSound
  BY DEF IInv
<1>3. /\ g \notin Live /\ Top \notin Groups /\ Unborn \notin Groups \cup {Top}
      /\ p \in Groups \cup {Top} /\ g # p /\ NoName \notin Names
  BY <1>1, GroupsAssumption DEF Live, Top, Unborn, NoName
<1>4. /\ parent \in [Groups -> Nodes] /\ name \in [Groups -> Names \cup {NoName}]
      /\ children \in [Groups -> SUBSET Groups] /\ byName \in [Names -> SUBSET Groups]
  BY <1>2 DEF TypeOK, Nodes
<1>5. \A h \in Groups : /\ parent'[h] = IF h = g THEN p ELSE parent[h]
                        /\ name'[h] = IF h = g THEN n ELSE name[h]
  BY <1>1, <1>4
<1>6. Live' = Live \cup {g}
  <2>1. Live' = {h \in Groups : parent'[h] \in Groups \cup {Top}}
    BY DEF Live
  <2> QED BY <1>3, <1>5, <2>1 DEF Live
<1>7. TypeOK'
  <2>1. parent' \in [Groups -> Nodes] /\ name' \in [Groups -> Names \cup {NoName}]
    BY <1>1, <1>3, <1>4 DEF Nodes
  <2>2. children' \in [Groups -> SUBSET Groups] /\ byName' \in [Names -> SUBSET Groups]
    BY <1>1, <1>3, <1>4
  <2> QED BY <1>1, <1>2, <2>1, <2>2 DEF TypeOK, Nodes
<1>8. Forest'
  <2>1. PICK lev \in [Groups -> 1..MaxTreeDepth] : IsLevel(lev)
    BY <1>2 DEF Forest
  <2> DEFINE here == IF p = Top THEN 1 ELSE lev[p] + 1
             lev2 == [lev EXCEPT ![g] = here]
  <2>2. here \in 1..MaxTreeDepth
    <3>1. CASE p = Top
      BY <3>1, GroupsAssumption
    <3>2. CASE p # Top
      <4>1. p \in Live /\ p \in Groups /\ Depth(p) = lev[p] /\ lev[p] \in 1..MaxTreeDepth
        BY <1>2, <2>1, <3>2, DepthIsLevel DEF Live
      <4> QED BY <1>1, <3>2, <4>1, GroupsAssumption
    <3> QED BY <3>1, <3>2
  <2> HIDE DEF here
  <2>3. lev2 \in [Groups -> 1..MaxTreeDepth] /\ lev2[g] = here
        /\ \A h \in Groups : h # g => lev2[h] = lev[h]
    BY <2>1, <2>2
  <2> HIDE DEF lev2
  <2>4. ASSUME NEW h \in Live'
        PROVE  \/ parent'[h] = Top /\ lev2[h] = 1
               \/ parent'[h] \in Live' /\ lev2[h] = lev2[parent'[h]] + 1
    <3>1. CASE h = g
      <4>1. parent'[h] = p
        BY <1>5, <3>1
      <4>2. CASE p = Top
        BY <2>3, <3>1, <4>1, <4>2 DEF here
      <4>3. CASE p # Top
        BY <1>3, <1>6, <2>3, <3>1, <4>1, <4>3 DEF here, Live
      <4> QED BY <4>2, <4>3
    <3>2. CASE h # g
      <4>1. h \in Live /\ h \in Groups /\ parent'[h] = parent[h] /\ lev2[h] = lev[h]
        BY <1>5, <1>6, <2>3, <3>2 DEF Live
      <4>2. \/ parent[h] = Top /\ lev[h] = 1
            \/ parent[h] \in Live /\ lev[h] = lev[parent[h]] + 1
        BY <2>1, <4>1 DEF IsLevel
      <4>3. \A x \in Live : x \in Groups /\ x # g /\ x \in Live' /\ lev2[x] = lev[x]
        BY <1>3, <1>6, <2>3 DEF Live
      <4> QED BY <4>1, <4>2, <4>3
    <3> QED BY <3>1, <3>2
  <2>5. IsLevel(lev2)'
    BY <2>3, <2>4 DEF IsLevel
  <2> QED BY <2>3, <2>5 DEF Forest
<1>9. children' = LoadChildren'
  <2>1. LoadChildren' = [x \in Groups |-> {h \in Live' : parent'[h] = x}]
    BY DEF LoadChildren
  <2>2. \A x \in Groups : children'[x] = {h \in Live' : parent'[h] = x}
    <3>1. \A x \in Groups : children[x] = {h \in Live : parent[h] = x}
      BY <1>2 DEF RowsSound, LoadChildren
    <3>2. ASSUME NEW x \in Groups PROVE children'[x] = IF x = p THEN children[x] \cup {g} ELSE children[x]
      BY <1>1, <1>3, <1>4
    <3>3. ASSUME NEW x \in Groups
          PROVE {h \in Live' : parent'[h] = x} =
                  IF x = p THEN {h \in Live : parent[h] = x} \cup {g} ELSE {h \in Live : parent[h] = x}
      BY <1>3, <1>5, <1>6 DEF Live
    <3> QED BY <3>1, <3>2, <3>3
  <2>3. children' \in [Groups -> SUBSET Groups]
    BY <1>7 DEF TypeOK
  <2> QED BY <2>1, <2>2, <2>3
<1>10. byName' = LoadByName'
  <2>1. LoadByName' = [m \in Names |-> {h \in Live' : name'[h] = m}]
    BY DEF LoadByName
  <2>2. \A m \in Names : byName'[m] = {h \in Live' : name'[h] = m}
    <3>1. \A m \in Names : byName[m] = {h \in Live : name[h] = m}
      BY <1>2 DEF RowsSound, LoadByName
    <3>2. ASSUME NEW m \in Names PROVE byName'[m] = IF m = n THEN byName[m] \cup {g} ELSE byName[m]
      BY <1>1, <1>4
    <3>3. ASSUME NEW m \in Names
          PROVE {h \in Live' : name'[h] = m} =
                  IF m = n THEN {h \in Live : name[h] = m} \cup {g} ELSE {h \in Live : name[h] = m}
      BY <1>3, <1>5, <1>6 DEF Live
    <3> QED BY <3>1, <3>2, <3>3
  <2>3. byName' \in [Names -> SUBSET Groups]
    BY <1>7 DEF TypeOK
  <2> QED BY <2>1, <2>2, <2>3
<1>11. \A h \in Live' : name'[h] \in Names
  BY <1>2, <1>5, <1>6 DEF RowsSound, Live
<1>12. \A h, k \in Live' : h # k /\ parent'[h] = parent'[k] => name'[h] # name'[k]
  <2>1. \A h \in Live : parent[h] = p => name[h] # n
    <3>1. ASSUME NEW h \in Live, parent[h] = p PROVE name[h] # n
      <4>1. CASE p = Top
        BY <1>1, <3>1, <4>1 DEF NameTaken
      <4>2. CASE p # Top
        <5>1. h \in children[p]
          BY <1>2, <1>3, <3>1, <4>2 DEF RowsSound, LoadChildren
        <5> QED BY <1>1, <3>1, <4>2, <5>1 DEF NameTaken
      <4> QED BY <4>1, <4>2
    <3> QED BY <3>1
  <2>2. \A h \in Live : h \in Groups /\ h # g /\ parent'[h] = parent[h] /\ name'[h] = name[h]
    BY <1>3, <1>5 DEF Live
  <2>3. parent'[g] = p /\ name'[g] = n
    BY <1>5
  <2>4. \A h, k \in Live : h # k /\ parent[h] = parent[k] => name[h] # name[k]
    BY <1>2 DEF RowsSound
  <2> QED BY <1>6, <2>1, <2>2, <2>3, <2>4
<1>13. \A u \in Users, h \in Groups : direct'[u][h] # 0 \/ h \in excluded'[u] => h \in Live'
  BY <1>1, <1>2, <1>6 DEF RowsSound
<1> QED BY <1>7, <1>8, <1>9, <1>10, <1>11, <1>12, <1>13 DEF IInv, RowsSound

\* Renaming keeps sibling names apart and moves the group in the name index.
LEMMA RenameStep ==
  ASSUME IInv, NEW g \in Live, NEW n \in Names, RenameGroup(g, n)
  PROVE  IInv'
<1>1. /\ n # name[g] => ~NameTaken(parent[g], n, {g})
      /\ name' = [name EXCEPT ![g] = n]
      /\ byName' = [m \in Names |-> IF m = n THEN byName[m] \cup {g} ELSE byName[m] \ {g}]
      /\ parent' = parent /\ children' = children
      /\ direct' = direct /\ excluded' = excluded /\ request' = request
  BY DEF RenameGroup, grants
<1>2. TypeOK /\ Forest /\ RowsSound /\ g \in Groups
  BY DEF IInv, Live
<1>3. /\ parent \in [Groups -> Nodes] /\ name \in [Groups -> Names \cup {NoName}]
      /\ byName \in [Names -> SUBSET Groups]
  BY <1>2 DEF TypeOK, Nodes
<1>4. Live' = Live
  BY <1>1 DEF Live
<1>5. \A h \in Groups : name'[h] = IF h = g THEN n ELSE name[h]
  BY <1>1, <1>3
<1>6. TypeOK'
  <2>1. name' \in [Groups -> Names \cup {NoName}] /\ byName' \in [Names -> SUBSET Groups]
    BY <1>1, <1>2, <1>3
  <2> QED BY <1>1, <1>2, <2>1 DEF TypeOK
<1>7. Forest'
  BY <1>1, <1>2, <1>4 DEF Forest, IsLevel
<1>8. children' = LoadChildren'
  BY <1>1, <1>2, <1>4 DEF RowsSound, LoadChildren
<1>9. byName' = LoadByName'
  <2>1. LoadByName' = [m \in Names |-> {h \in Live : name'[h] = m}]
    BY <1>4 DEF LoadByName
  <2>2. \A m \in Names : byName[m] = {h \in Live : name[h] = m}
    BY <1>2 DEF RowsSound, LoadByName
  <2>3. ASSUME NEW m \in Names
        PROVE  {h \in Live : name'[h] = m} = IF m = n THEN byName[m] \cup {g} ELSE byName[m] \ {g}
    BY <1>5, <2>2 DEF Live
  <2> QED BY <1>1, <2>1, <2>3
<1>10. \A h \in Live' : name'[h] \in Names
  BY <1>2, <1>4, <1>5 DEF RowsSound, Live
<1>11. \A h, k \in Live' : h # k /\ parent'[h] = parent'[k] => name'[h] # name'[k]
  <2>1. \A h, k \in Live : h # k /\ parent[h] = parent[k] => name[h] # name[k]
    BY <1>2 DEF RowsSound
  <2>2. ASSUME NEW h \in Live, h # g, parent[h] = parent[g] PROVE name[h] # n
    <3>1. CASE n = name[g]
      BY <2>1, <2>2, <3>1
    <3>2. CASE n # name[g] /\ parent[g] = Top
      BY <1>1, <2>2, <3>2 DEF NameTaken
    <3>3. CASE n # name[g] /\ parent[g] # Top
      <4>1. parent[g] \in Groups
        BY <3>3 DEF Live
      <4>2. h \in children[parent[g]]
        BY <1>2, <2>2, <4>1 DEF RowsSound, LoadChildren
      <4> QED BY <1>1, <2>2, <3>3, <4>2 DEF NameTaken
    <3> QED BY <3>1, <3>2, <3>3
  <2>3. \A h \in Live : h \in Groups
    BY DEF Live
  <2> QED BY <1>1, <1>4, <1>5, <2>1, <2>2, <2>3
<1>12. \A u \in Users, h \in Groups : direct'[u][h] # 0 \/ h \in excluded'[u] => h \in Live'
  BY <1>1, <1>2, <1>4 DEF RowsSound
<1> QED BY <1>6, <1>7, <1>8, <1>9, <1>10, <1>11, <1>12 DEF IInv, RowsSound

\* A group that is deleted has nothing below it, and takes its rows along.
LEMMA DeleteStep ==
  ASSUME IInv, NEW g \in Live, DeleteGroupWithMembers(g)
  PROVE  IInv'
<1>1. /\ children[g] = {}
      /\ parent' = [parent EXCEPT ![g] = Gone] /\ name' = [name EXCEPT ![g] = NoName]
      /\ byName' = [byName EXCEPT ![name[g]] = @ \ {g}]
      /\ children' = IF parent[g] = Top THEN children
                     ELSE [children EXCEPT ![parent[g]] = @ \ {g}]
      /\ direct' = [u \in Users |-> [direct[u] EXCEPT ![g] = 0]]
      /\ excluded' = [u \in Users |-> excluded[u] \ {g}]
      /\ request' = request
  BY DEF DeleteGroupWithMembers
<1>2. TypeOK /\ Forest /\ RowsSound /\ g \in Groups
  BY DEF IInv, Live
<1>3. Top \notin Groups /\ Gone \notin Groups /\ Gone # Top /\ parent[g] \in Groups \cup {Top}
  BY GroupsAssumption DEF Live, Top, Gone
<1>4. /\ parent \in [Groups -> Nodes] /\ name \in [Groups -> Names \cup {NoName}]
      /\ children \in [Groups -> SUBSET Groups] /\ byName \in [Names -> SUBSET Groups]
      /\ direct \in [Users -> [Groups -> Roles \cup {0}]] /\ excluded \in [Users -> SUBSET Groups]
      /\ \A u \in Users : \A h \in excluded[u] : direct[u][h] = 0
      /\ name[g] \in Names
  BY <1>2 DEF TypeOK, Nodes, RowsSound
<1>5. \A h \in Groups : /\ parent'[h] = IF h = g THEN Gone ELSE parent[h]
                        /\ name'[h] = IF h = g THEN NoName ELSE name[h]
  BY <1>1, <1>4
<1>6. Live' = Live \ {g}
  <2>1. Live' = {h \in Groups : parent'[h] \in Groups \cup {Top}}
    BY DEF Live
  <2> QED BY <1>3, <1>5, <2>1 DEF Live
<1>7. \A h \in Live : parent[h] # g
  BY <1>1, <1>2 DEF RowsSound, LoadChildren
<1>8. \A u \in Users, h \in Groups :
        /\ direct'[u][h] = IF h = g THEN 0 ELSE direct[u][h]
        /\ h \in excluded'[u] <=> h \in excluded[u] /\ h # g
  BY <1>1, <1>4
<1>9. TypeOK'
  <2>1. parent' \in [Groups -> Nodes] /\ name' \in [Groups -> Names \cup {NoName}]
    BY <1>1, <1>4 DEF Nodes
  <2>2. children' \in [Groups -> SUBSET Groups] /\ byName' \in [Names -> SUBSET Groups]
    BY <1>1, <1>3, <1>4
  <2>3. direct' \in [Users -> [Groups -> Roles \cup {0}]] /\ excluded' \in [Users -> SUBSET Groups]
    BY <1>1, <1>4
  <2>4. \A u \in Users : \A h \in excluded'[u] : direct'[u][h] = 0
    BY <1>4, <1>8, <2>3
  <2> QED BY <1>1, <1>2, <2>1, <2>2, <2>3, <2>4 DEF TypeOK, Nodes
<1>10. Forest'
  <2>1. PICK lev \in [Groups -> 1..MaxTreeDepth] : IsLevel(lev)
    BY <1>2 DEF Forest
  <2>2. ASSUME NEW h \in Live'
        PROVE  \/ parent'[h] = Top /\ lev[h] = 1
               \/ parent'[h] \in Live' /\ lev[h] = lev[parent'[h]] + 1
    <3>1. h \in Live /\ h \in Groups /\ parent'[h] = parent[h] /\ parent[h] # g
      BY <1>5, <1>6, <1>7 DEF Live
    <3> QED BY <1>6, <2>1, <3>1 DEF IsLevel
  <2>3. IsLevel(lev)'
    BY <2>1, <2>2 DEF IsLevel
  <2> QED BY <2>1, <2>3 DEF Forest
<1>11. children' = LoadChildren'
  <2>1. LoadChildren' = [x \in Groups |-> {h \in Live' : parent'[h] = x}]
    BY DEF LoadChildren
  <2>2. \A x \in Groups : children'[x] = {h \in Live' : parent'[h] = x}
    <3>1. \A x \in Groups : children[x] = {h \in Live : parent[h] = x}
      BY <1>2 DEF RowsSound, LoadChildren
    <3>2. ASSUME NEW x \in Groups, x # parent[g] PROVE children[x] \ {g} = children[x]
      BY <3>1, <3>2
    <3>3. ASSUME NEW x \in Groups
          PROVE  children'[x] = IF x = parent[g] THEN children[x] \ {g} ELSE children[x]
      BY <1>1, <1>3, <1>4
    <3>4. ASSUME NEW x \in Groups
          PROVE {h \in Live' : parent'[h] = x} = {h \in Live : parent[h] = x} \ {g}
      <4>1. ASSUME NEW h \in Live', parent'[h] = x
            PROVE  h \in {k \in Live : parent[k] = x} \ {g}
        BY <1>5, <1>6, <4>1 DEF Live
      <4>2. ASSUME NEW h \in {k \in Live : parent[k] = x} \ {g}
            PROVE  h \in Live' /\ parent'[h] = x
        BY <1>5, <1>6 DEF Live
      <4> QED BY <4>1, <4>2
    <3> QED BY <3>1, <3>2, <3>3, <3>4
  <2>3. children' \in [Groups -> SUBSET Groups]
    BY <1>9 DEF TypeOK
  <2> QED BY <2>1, <2>2, <2>3
<1>12. byName' = LoadByName'
  <2>1. LoadByName' = [m \in Names |-> {h \in Live' : name'[h] = m}]
    BY DEF LoadByName
  <2>2. \A m \in Names : byName'[m] = {h \in Live' : name'[h] = m}
    <3>1. \A m \in Names : byName[m] = {h \in Live : name[h] = m}
      BY <1>2 DEF RowsSound, LoadByName
    <3>2. ASSUME NEW m \in Names, m # name[g] PROVE byName[m] \ {g} = byName[m]
      BY <3>1, <3>2
    <3>3. ASSUME NEW m \in Names
          PROVE  byName'[m] = IF m = name[g] THEN byName[m] \ {g} ELSE byName[m]
      BY <1>1, <1>4
    <3>4. ASSUME NEW m \in Names
          PROVE {h \in Live' : name'[h] = m} = {h \in Live : name[h] = m} \ {g}
      <4>1. ASSUME NEW h \in Live', name'[h] = m
            PROVE  h \in {k \in Live : name[k] = m} \ {g}
        BY <1>5, <1>6, <4>1 DEF Live
      <4>2. ASSUME NEW h \in {k \in Live : name[k] = m} \ {g}
            PROVE  h \in Live' /\ name'[h] = m
        BY <1>5, <1>6 DEF Live
      <4> QED BY <4>1, <4>2
    <3> QED BY <3>1, <3>2, <3>3, <3>4
  <2>3. byName' \in [Names -> SUBSET Groups]
    BY <1>9 DEF TypeOK
  <2> QED BY <2>1, <2>2, <2>3
<1>13. \A h \in Live' : name'[h] \in Names
  BY <1>2, <1>5, <1>6 DEF RowsSound, Live
<1>14. \A h, k \in Live' : h # k /\ parent'[h] = parent'[k] => name'[h] # name'[k]
  BY <1>2, <1>5, <1>6 DEF RowsSound, Live
<1>15. \A u \in Users, h \in Groups : direct'[u][h] # 0 \/ h \in excluded'[u] => h \in Live'
  BY <1>2, <1>6, <1>8 DEF RowsSound
<1> QED BY <1>9, <1>10, <1>11, <1>12, <1>13, <1>14, <1>15 DEF IInv, RowsSound

\* The console starts without groups.
LEMMA InitIInv == Init => IInv
<1>1. SUFFICES ASSUME Init PROVE IInv
  OBVIOUS
<1>2. /\ parent = [g \in Groups |-> Unborn] /\ name = [g \in Groups |-> NoName]
      /\ direct = [u \in Users |-> [g \in Groups |-> 0]] /\ excluded = [u \in Users |-> {}]
      /\ children = [g \in Groups |-> {}] /\ byName = [n \in Names |-> {}]
      /\ request = [q \in Requests |-> Idle]
  BY <1>1 DEF Init
<1>3. Live = {}
  BY <1>2, GroupsAssumption DEF Live, Unborn, Top
<1>4. TypeOK
  BY <1>2 DEF TypeOK
<1>5. Forest
  <2> DEFINE lev == [g \in Groups |-> 1]
  <2>1. lev \in [Groups -> 1..MaxTreeDepth]
    BY GroupsAssumption
  <2>2. IsLevel(lev)
    BY <1>3, <2>1 DEF IsLevel
  <2> QED BY <2>1, <2>2 DEF Forest
<1>6. RowsSound
  BY <1>2, <1>3 DEF RowsSound, LoadChildren, LoadByName
<1> QED BY <1>4, <1>5, <1>6 DEF IInv

\* Every call of the store, and every step of a request, keeps the invariant.
LEMMA IInvStep == IInv /\ [Next]_vars => IInv'
<1>1. SUFFICES ASSUME IInv, [Next]_vars PROVE IInv'
  OBVIOUS
<1>2. CASE UNCHANGED vars
  <2>1. UNCHANGED tree /\ direct' = direct /\ excluded' = excluded /\ request' = request
    BY <1>2 DEF vars, tree
  <2> QED BY <1>1, <2>1, GrantsKept DEF IInv, TypeOK, RowsSound
<1>3. CASE Next
  BY <1>1, <1>3, CreateStep, RenameStep, DeleteStep, RevokeStep, RemoveUserStep, RequestStep
     DEF Next
<1> QED BY <1>1, <1>2, <1>3

\* The invariant holds in every reachable state of the group store.
THEOREM GroupsInductive == Spec => []IInv
BY InitIInv, IInvStep, PTL DEF Spec

\* Every variable of the group store keeps its type, and nobody is excluded from a group
\* they hold.
THEOREM GroupsTypeCorrect == Spec => []TypeOK
<1>1. IInv => TypeOK
  BY DEF IInv
<1> QED BY <1>1, GroupsInductive, PTL

\* LoadFromDB accepts whatever the store wrote, for trees of every size and depth, and
\* rebuilds the very indexes the daemon runs with.
THEOREM BootAlwaysSucceeds == Spec => []RestartIsInvisible
<1>1. IInv => RestartIsInvisible
  <2>1. SUFFICES ASSUME IInv PROVE RestartIsInvisible
    OBVIOUS
  <2>2. TreeFacts /\ Forest /\ RowsSound
    BY <2>1, TreeSound DEF IInv
  <2>3. \A g \in Live : parent[g] \in Live \cup {Top} /\ DepthOK(g)
    BY <2>2 DEF TreeFacts, Forest, IsLevel
  <2> QED BY <2>2, <2>3 DEF RestartIsInvisible, LoadAccepts, RowsSound
<1> QED BY <1>1, GroupsInductive, PTL

-----------------------------------------------------------------------------
(* The judge                                                               *)

\* What puts a group in a user's scope: a role on it or above it, and no cut.
InScope(u, g) ==
  /\ direct[u][g] # 0 \/ g \notin excluded[u]
  /\ \E h \in Chain(g) : direct[u][h] # 0

ScopeFacts == \A u \in Users : RecallScope(u) = {g \in Live : InScope(u, g)}

\* RecallScope collects the groups that are in scope, and no others.
LEMMA ScopeSound == IInv => ScopeFacts
<1>1. SUFFICES ASSUME IInv, NEW u \in Users PROVE RecallScope(u) = {g \in Live : InScope(u, g)}
  BY DEF ScopeFacts
<1>2. TreeFacts
  BY <1>1, TreeSound
<1> DEFINE reached == UNION {Subtree(g) : g \in DirectGroups(u)}
<1>3. reached = {g \in Live : \E h \in Chain(g) : direct[u][h] # 0}
  <2>1. ASSUME NEW h \in DirectGroups(u), NEW g \in Subtree(h)
        PROVE  g \in Live /\ \E x \in Chain(g) : direct[u][x] # 0
    BY <1>2, <2>1 DEF TreeFacts, DirectGroups
  <2>2. ASSUME NEW g \in Live, NEW h \in Chain(g), direct[u][h] # 0
        PROVE  h \in DirectGroups(u) /\ g \in Subtree(h)
    BY <1>2, <2>2 DEF TreeFacts, DirectGroups
  <2> QED BY <2>1, <2>2
<1>4. RecallScope(u) = reached \ {g \in excluded[u] : direct[u][g] = 0}
  BY Zenon DEF RecallScope
<1> HIDE DEF reached
<1>5. \A g \in Live : g \in RecallScope(u) <=> InScope(u, g)
  BY <1>3, <1>4 DEF InScope
<1>6. RecallScope(u) \subseteq Live
  BY <1>3, <1>4
<1> QED BY <1>5, <1>6

\* Whoever holds a role on a group or above it has an effective role unless cut off.
LEMMA EffectiveSound ==
  ASSUME IInv, NEW u \in Users, NEW g \in Live
  PROVE  EffectiveRole(u, g) # 0 <=> InScope(u, g)
<1>1. TreeFacts /\ TypeOK
  BY TreeSound DEF IInv
<1> DEFINE held == {direct[u][h] : h \in Chain(g)} \cup {0}
           best == CHOOSE r \in held : \A s \in held : s <= r
<1>2. held \subseteq {0, Read, Write} /\ 0 \in held
  <2>1. \A h \in Chain(g) : h \in Groups
    BY <1>1 DEF TreeFacts, Live
  <2> QED BY <1>1, <2>1 DEF TypeOK, Roles
<1>3. best \in held /\ \A s \in held : s <= best
  <2>1. \E r \in held : \A s \in held : s <= r
    <3>1. 0 <= Read /\ Read <= Write /\ 0 <= Write /\ 0 <= 0 /\ Read <= Read /\ Write <= Write
      BY GroupsAssumption
    <3> HIDE DEF held
    <3>2. CASE Write \in held
      BY <1>2, <3>1, <3>2
    <3>3. CASE Write \notin held /\ Read \in held
      BY <1>2, <3>1, <3>3
    <3>4. CASE Write \notin held /\ Read \notin held
      BY <1>2, <3>1, <3>4
    <3> QED BY <3>2, <3>3, <3>4
  <2> HIDE DEF held
  <2> QED BY <2>1
<1>4. EffectiveRole(u, g) = IF direct[u][g] = 0 /\ g \in excluded[u] THEN 0 ELSE best
  BY DEF EffectiveRole
<1>5. best # 0 <=> \E h \in Chain(g) : direct[u][h] # 0
  <2>1. ASSUME NEW h \in Chain(g), direct[u][h] # 0 PROVE best # 0
    <3>1. direct[u][h] \in held
      OBVIOUS
    <3>2. direct[u][h] <= best /\ direct[u][h] \in {Read, Write}
      <4> HIDE DEF best
      <4> QED BY <1>2, <1>3, <2>1, <3>1
    <3> HIDE DEF best
    <3> QED BY <3>2, GroupsAssumption
  <2>2. ASSUME best # 0 PROVE \E h \in Chain(g) : direct[u][h] # 0
    <3>1. best \in held
      BY <1>3
    <3> HIDE DEF best
    <3> QED BY <2>2, <3>1
  <2> QED BY <2>1, <2>2
<1> HIDE DEF best
<1> QED BY <1>4, <1>5 DEF InScope

\* The three judges give one answer in every reachable state: searches, effective roles
\* and the console's list of held and inherited groups.
THEOREM JudgesAgreeAlways == Spec => []JudgesAgree
<1>1. IInv => JudgesAgree
  <2>1. SUFFICES ASSUME IInv, NEW u \in Users, NEW g \in Live
                 PROVE  /\ g \in RecallScope(u) <=> EffectiveRole(u, g) # 0
                        /\ g \in RecallScope(u) <=> direct[u][g] # 0 \/ g \in Inherited(u)
                        /\ g \in RecallScope(u) <=> direct[u][g] # 0 \/ InheritsRead(u, g)
    BY DEF JudgesAgree
  <2>2. TreeFacts /\ ScopeFacts
    BY <2>1, TreeSound, ScopeSound
  <2>3. g \in RecallScope(u) <=> InScope(u, g)
    BY <2>2 DEF ScopeFacts
  <2>4. g \in RecallScope(u) <=> EffectiveRole(u, g) # 0
    BY <2>1, <2>3, EffectiveSound
  <2>5. Chain(g) = {g} \cup Chain(parent[g])
    BY <2>2 DEF TreeFacts
  <2> DEFINE reached == UNION {Subtree(h) : h \in DirectGroups(u)}
  <2>6. g \in reached <=> \E h \in Chain(g) : direct[u][h] # 0
    <3>1. \A h \in Chain(g) : h \in Live
      BY <2>2 DEF TreeFacts
    <3>2. ASSUME NEW h \in DirectGroups(u), g \in Subtree(h) PROVE h \in Chain(g) /\ direct[u][h] # 0
      BY <2>2, <3>2 DEF TreeFacts, DirectGroups
    <3>3. ASSUME NEW h \in Chain(g), direct[u][h] # 0 PROVE h \in DirectGroups(u) /\ g \in Subtree(h)
      BY <2>2, <3>1, <3>3 DEF TreeFacts, DirectGroups
    <3> QED BY <3>2, <3>3
  <2>7. g \in RecallScope(u) <=> direct[u][g] # 0 \/ g \in Inherited(u)
    <3>1. g \in Inherited(u) <=> /\ \E h \in Chain(g) : direct[u][h] # 0
                                 /\ direct[u][g] = 0 /\ g \notin excluded[u]
      <4>1. Inherited(u) = reached \ (DirectGroups(u) \cup excluded[u])
        BY Zenon DEF Inherited
      <4> HIDE DEF reached
      <4> QED BY <2>6, <4>1 DEF DirectGroups
    <3> QED BY <2>3, <2>5, <3>1 DEF InScope
  <2>8. g \in RecallScope(u) <=> direct[u][g] # 0 \/ InheritsRead(u, g)
    BY <2>3, <2>5 DEF InScope, InheritsRead
  <2> QED BY <2>4, <2>7, <2>8
<1> QED BY <1>1, GroupsInductive, PTL

\* An automatic capture is tagged with the topmost groups of its author: no reader of a
\* group below one of the author's write groups sees it, and every write group has a tag
\* at or above it.
THEOREM CaptureNeverLeaksDown == Spec => []CaptureStaysUp
<1>1. IInv => CaptureStaysUp
  <2>1. SUFFICES ASSUME IInv, NEW u \in Users, NEW w \in DirectWriteSet(u)
                 PROVE  /\ \A below \in Subtree(w) \ {w} : AutoTags(u) \cap Subtree(below) = {}
                        /\ \E t \in AutoTags(u) : w \in Subtree(t)
    BY DEF CaptureStaysUp
  <2>2. TreeFacts
    BY <2>1, TreeSound
  <2>3. \A x \in DirectWriteSet(u) : x \in Live
    BY DEF DirectWriteSet, DirectGroups
  <2>4. ASSUME NEW below \in Subtree(w) \ {w}, NEW t \in AutoTags(u), t \in Subtree(below)
        PROVE  FALSE
    <3>1. below \in Live /\ w \in Chain(below)
      BY <2>2, <2>3 DEF TreeFacts
    <3>2. t \in Live /\ below \in Chain(t) /\ ~HasWriteAncestor(u, t)
      BY <2>2, <2>4, <3>1 DEF TreeFacts, AutoTags
    <3>3. w \in Chain(t)
      BY <2>2, <3>1, <3>2 DEF TreeFacts
    <3>4. w # t
      BY <2>2, <2>3, <3>1, <3>2 DEF TreeFacts
    <3>5. w \in Chain(parent[t])
      BY <2>2, <3>2, <3>3, <3>4 DEF TreeFacts
    <3> QED BY <3>2, <3>5 DEF HasWriteAncestor
  <2>5. \E t \in AutoTags(u) : w \in Subtree(t)
    <3>1. PICK lev \in [Groups -> 1..MaxTreeDepth] : IsLevel(lev)
      BY <2>1 DEF IInv, Forest
    <3> DEFINE S == DirectWriteSet(u) \cap Chain(w)
    <3>2. S \subseteq Groups /\ w \in S
      BY <2>2, <2>3 DEF TreeFacts, Live
    <3>3. PICK t \in S : \A x \in S : lev[t] <= lev[x]
      <4> HIDE DEF S
      <4> QED BY <3>2, Topmost
    <3>4. t \in DirectWriteSet(u) /\ t \in Chain(w) /\ t \in Live
      BY <2>3, <3>3
    <3>5. ASSUME NEW x \in Chain(parent[t]) \cap DirectWriteSet(u) PROVE FALSE
      <4>1. x \in Chain(t) /\ x # t
        BY <2>2, <3>4 DEF TreeFacts
      <4>2. x \in S
        BY <2>2, <2>3, <3>4, <4>1 DEF TreeFacts
      <4>3. lev[x] <= lev[t] /\ lev[x] # lev[t] /\ lev[t] <= lev[x]
        BY <2>1, <3>1, <3>3, <3>4, <4>1, <4>2, ChainLevels DEF IInv
      <4>4. lev[x] \in Nat /\ lev[t] \in Nat
        BY <3>2, <3>3, <4>2, GroupsAssumption
      <4> QED BY <4>3, <4>4
    <3>6. t \in AutoTags(u)
      BY <3>4, <3>5 DEF AutoTags, HasWriteAncestor
    <3>7. w \in Subtree(t)
      BY <2>2, <2>3, <3>4 DEF TreeFacts
    <3> QED BY <3>6, <3>7
  <2> QED BY <2>4, <2>5
<1> QED BY <1>1, GroupsInductive, PTL

-----------------------------------------------------------------------------
(* Access follows the grants                                               *)

\* Groups that keep their place, and whose parents do, keep what is above them.
LEMMA ChainKept ==
  ASSUME IInv, IInv', NEW S, S \subseteq Live, S \subseteq Live',
         \A g \in S : parent'[g] = parent[g] /\ parent[g] \in S \cup {Top}
  PROVE  \A g \in S : Chain(g)' = Chain(g)
<1>1. PICK lev \in [Groups -> 1..MaxTreeDepth] : IsLevel(lev)
  BY DEF IInv, Forest
<1>2. TreeFacts /\ TreeFacts'
  <2>1. (IInv => TreeFacts)'
    BY TreeSound, PTL
  <2> QED BY <2>1, TreeSound
<1>3. /\ Top \in Nodes \ Live /\ Top \in Nodes \ Live'
  BY GroupsAssumption DEF Nodes, Live, Top
<1> DEFINE Bad == {g \in S : Chain(g)' # Chain(g)}
<1>4. SUFFICES ASSUME Bad # {} PROVE FALSE
  OBVIOUS
<1>5. PICK g \in Bad : \A h \in Bad : lev[g] <= lev[h]
  <2>1. Bad \subseteq Groups
    BY DEF Live
  <2> HIDE DEF Bad
  <2> QED BY <1>4, <2>1, Topmost
<1>6. Chain(g)' = {g} \cup Chain(parent[g])' /\ Chain(g) = {g} \cup Chain(parent[g])
  BY <1>2, <1>5 DEF TreeFacts
<1>7. Chain(parent[g])' = Chain(parent[g])
  <2>1. CASE parent[g] = Top
    BY <1>2, <1>3, <1>5, <2>1 DEF TreeFacts
  <2>2. CASE parent[g] \in S
    <3>1. parent[g] \in Live /\ parent[g] # Top /\ lev[g] = lev[parent[g]] + 1
      BY <1>1, <1>3, <1>5, <2>2 DEF IsLevel
    <3>2. lev[g] \in Nat /\ lev[parent[g]] \in Nat
      BY <1>5, <3>1, GroupsAssumption DEF Live
    <3>3. parent[g] \notin Bad
      BY <1>5, <3>1, <3>2
    <3> QED BY <1>5, <2>2, <3>3
  <2> QED BY <1>5, <2>1, <2>2
<1> QED BY <1>5, <1>6, <1>7

\* A step that keeps the groups of S in place and makes only new groups besides, and
\* lifts a user's exclusion only by a grant on that group or with all their roles.
KeepsPlaces(S) ==
  /\ S \subseteq Live /\ S \subseteq Live'
  /\ \A g \in S : parent'[g] = parent[g] /\ parent[g] \in S \cup {Top}
  /\ \A g \in Live' \ S : parent[g] = Unborn
  /\ \A u \in Users, g \in S : g \in excluded[u] =>
       \/ g \in excluded'[u] \/ direct'[u][g] # 0
       \/ \A h \in Groups : direct'[u][h] = 0

\* Why a group may enter the scope of a user.
EntersRightly(u, g) ==
  \/ parent[g] = Unborn
  \/ direct[u][g] = 0 /\ direct'[u][g] # 0
  \/ /\ g \notin excluded[u]
     /\ \E h \in Chain(parent[g]) : direct[u][h] = 0 /\ direct'[u][h] # 0

\* A group enters a user's scope only by a grant on its chain or by its creation there.
LEMMA ScopeFollows ==
  ASSUME IInv, IInv', NEW S, KeepsPlaces(S), NEW u \in Users,
         NEW g \in RecallScope(u)' \ RecallScope(u)
  PROVE  EntersRightly(u, g)
<1>1. TreeFacts /\ ScopeFacts /\ ScopeFacts'
  <2>1. (IInv => ScopeFacts)'
    BY ScopeSound, PTL
  <2> QED BY <2>1, TreeSound, ScopeSound
<1>2. g \in Live' /\ InScope(u, g)' /\ (g \in Live => ~InScope(u, g))
  BY <1>1 DEF ScopeFacts
<1>3. SUFFICES ASSUME g \in S PROVE EntersRightly(u, g)
  BY <1>2 DEF KeepsPlaces, EntersRightly
<1>4. Chain(g)' = Chain(g)
  BY <1>3, ChainKept DEF KeepsPlaces
<1>5. /\ g \in Live /\ Chain(g) = {g} \cup Chain(parent[g])
      /\ \A h \in Chain(g) : h \in Groups
  BY <1>1, <1>3 DEF TreeFacts, KeepsPlaces, Live
<1>6. PICK h \in Chain(g) : direct'[u][h] # 0
  BY <1>2, <1>4 DEF InScope
<1>7. CASE direct[u][g] = 0 /\ g \in excluded[u]
  <2>1. direct'[u][g] # 0
    BY <1>2, <1>3, <1>5, <1>6, <1>7 DEF InScope, KeepsPlaces
  <2> QED BY <1>7, <2>1 DEF EntersRightly
<1>8. CASE ~(direct[u][g] = 0 /\ g \in excluded[u])
  <2>1. \A x \in Chain(g) : direct[u][x] = 0
    BY <1>2, <1>5, <1>8 DEF InScope
  <2>2. CASE h = g
    BY <1>5, <1>6, <2>1, <2>2 DEF EntersRightly
  <2>3. CASE h \in Chain(parent[g])
    BY <1>5, <1>6, <1>8, <2>1, <2>3 DEF EntersRightly
  <2> QED BY <1>5, <2>2, <2>3
<1> QED BY <1>7, <1>8

\* Every call of the store is such a step.
LEMMA PlacesAreKept ==
  ASSUME IInv, Next PROVE \E S : KeepsPlaces(S)
<1>1. /\ TypeOK /\ Forest /\ RowsSound
      /\ parent \in [Groups -> Nodes]
      /\ direct \in [Users -> [Groups -> Roles \cup {0}]] /\ excluded \in [Users -> SUBSET Groups]
      /\ request \in [Requests -> {Idle} \cup
                        [pc : {"add", "promote", "added"}, user : Users, group : Groups]]
  BY DEF IInv, TypeOK, Nodes
<1>2. \A g \in Live : g \in Groups /\ parent[g] \in Live \cup {Top}
  BY <1>1 DEF Forest, IsLevel, Live
<1>3. ASSUME parent' = parent,
             \A u \in Users, g \in Live : g \in excluded[u] =>
               \/ g \in excluded'[u] \/ direct'[u][g] # 0
               \/ \A h \in Groups : direct'[u][h] = 0
      PROVE  KeepsPlaces(Live)
  BY <1>2, <1>3 DEF KeepsPlaces, Live
<1>4. UNCHANGED <<tree, grants>> => KeepsPlaces(Live)
  BY <1>3 DEF tree, grants
<1>5. ASSUME NEW u \in Users, NEW g \in Groups, NEW r \in Roles, Grant(u, g, r), UNCHANGED tree
      PROVE  KeepsPlaces(Live)
  <2>1. r # 0
    BY GroupsAssumption DEF Roles
  <2>2. \A v \in Users, h \in Live : h \in excluded[v] => h \in excluded'[v] \/ direct'[v][h] # 0
    BY <1>1, <1>2, <1>5, <2>1 DEF Grant
  <2> QED BY <1>3, <1>5, <2>2 DEF tree
<1>6. ASSUME NEW g \in Groups, NEW p \in Live \cup {Top}, NEW n \in Names, CreateGroup(g, p, n)
      PROVE  KeepsPlaces(Live)
  <2>1. parent[g] = Unborn /\ parent' = [parent EXCEPT ![g] = p] /\ excluded' = excluded
    BY <1>6 DEF CreateGroup, grants
  <2>2. g \notin Live
    BY <2>1, GroupsAssumption DEF Live, Unborn, Top
  <2>3. \A h \in Groups : parent'[h] = IF h = g THEN p ELSE parent[h]
    BY <1>1, <2>1
  <2>4. Live \subseteq Live' /\ \A h \in Live' : h \in Live \cup {g}
    BY <2>2, <2>3 DEF Live
  <2>5. \A h \in Live : parent'[h] = parent[h]
    BY <1>2, <2>2, <2>3
  <2> QED BY <1>2, <2>1, <2>4, <2>5 DEF KeepsPlaces
<1>7. ASSUME NEW g \in Live, NEW n \in Names, RenameGroup(g, n) PROVE KeepsPlaces(Live)
  BY <1>3, <1>7 DEF RenameGroup, grants
<1>8. ASSUME NEW g \in Live, DeleteGroupWithMembers(g) PROVE KeepsPlaces(Live \ {g})
  <2>1. /\ children[g] = {} /\ parent' = [parent EXCEPT ![g] = Gone]
        /\ excluded' = [u \in Users |-> excluded[u] \ {g}]
    BY <1>8 DEF DeleteGroupWithMembers
  <2>2. \A h \in Groups : parent'[h] = IF h = g THEN Gone ELSE parent[h]
    BY <1>1, <2>1
  <2>3. Gone \notin Groups /\ Gone # Top
    BY GroupsAssumption DEF Gone, Top
  <2>4. Live' = Live \ {g}
    BY <1>2, <2>2, <2>3 DEF Live
  <2>5. \A h \in Live \ {g} : parent'[h] = parent[h]
    BY <1>2, <2>2
  <2>6. \A h \in Live : parent[h] # g
    BY <1>1, <1>2, <2>1 DEF RowsSound, LoadChildren
  <2>7. \A u \in Users, h \in Live \ {g} : h \in excluded[u] => h \in excluded'[u]
    BY <1>1, <2>1
  <2> QED BY <1>2, <2>4, <2>5, <2>6, <2>7 DEF KeepsPlaces
<1>9. ASSUME NEW u \in Users, NEW g \in Live, Revoke(u, g) PROVE KeepsPlaces(Live)
  <2>1. parent' = parent /\ \A v \in Users, h \in Live : h \in excluded[v] => h \in excluded'[v]
    BY <1>1, <1>9 DEF Revoke, tree
  <2> QED BY <1>3, <2>1
<1>10. ASSUME NEW u \in Users, RemoveUser(u) PROVE KeepsPlaces(Live)
  <2>1. /\ direct' = [direct EXCEPT ![u] = [g \in Groups |-> 0]]
        /\ excluded' = [excluded EXCEPT ![u] = {}] /\ parent' = parent
    BY <1>10 DEF RemoveUser, tree
  <2>2. \A v \in Users, h \in Live : h \in excluded[v] =>
          h \in excluded'[v] \/ \A x \in Groups : direct'[v][x] = 0
    BY <1>1, <2>1
  <2> QED BY <1>3, <2>1, <2>2
<1>11. ASSUME NEW q \in Requests, NEW r \in Roles, AddGrants(q, r) \/ PromoteGrants(q, r)
       PROVE  KeepsPlaces(Live)
  <2>1. /\ request[q].pc \in {"add", "promote"} /\ UNCHANGED tree
        /\ Grant(request[q].user, request[q].group, r)
    BY <1>11 DEF AddGrants, PromoteGrants
  <2>2. request[q].user \in Users /\ request[q].group \in Groups
    BY <1>1, <2>1 DEF Idle
  <2> QED BY <1>5, <2>1, <2>2
<1>12. ASSUME NEW q \in Requests, AddFails(q) PROVE KeepsPlaces(Live)
  <2>1. parent' = parent /\ excluded' = excluded
    BY <1>12 DEF AddFails, RevokeDirectGrant, tree, grants
  <2> QED BY <1>3, <2>1
<1>13. ASSUME NEW q \in Requests, NEW u \in Users, NEW g \in Live,
              AddChecks(q, u, g) \/ PromoteChecks(q, u, g)
       PROVE  KeepsPlaces(Live)
  BY <1>4, <1>13 DEF AddChecks, PromoteChecks
<1>14. ASSUME NEW q \in Requests, GrantRefused(q) \/ AddSucceeds(q) PROVE KeepsPlaces(Live)
  BY <1>4, <1>14 DEF GrantRefused, AddSucceeds
<1>15. KeepsPlaces(Live) \/ \E g \in Live : KeepsPlaces(Live \ {g})
  BY <1>6, <1>7, <1>8, <1>9, <1>10, <1>11, <1>12, <1>13, <1>14 DEF Next
<1> QED BY <1>15

\* Revoke takes the group out of the user's scope, and where the user only inherited it,
\* nothing else.
LEMMA RevokeCuts ==
  ASSUME IInv, IInv', NEW u \in Users, NEW g \in Live, Revoke(u, g)
  PROVE  /\ g \notin RecallScope(u)'
         /\ direct[u][g] = 0 => RecallScope(u)' = RecallScope(u) \ {g}
<1> DEFINE cut == g \notin excluded[u] /\ ReachesByInheritance(u, g)
<1>1. /\ parent' = parent
      /\ direct[u][g] # 0 \/ cut
      /\ direct' = [direct EXCEPT ![u][g] = 0]
      /\ excluded' = [excluded EXCEPT ![u] = IF cut THEN @ \cup {g} ELSE @]
  BY DEF Revoke, tree
<1> HIDE DEF cut
<1>2. /\ direct \in [Users -> [Groups -> Roles \cup {0}]] /\ excluded \in [Users -> SUBSET Groups]
      /\ g \in Groups
  BY DEF IInv, TypeOK, Live
<1>3. /\ \A h \in Groups : direct'[u][h] = IF h = g THEN 0 ELSE direct[u][h]
      /\ \A h \in Groups : h \in excluded'[u] <=> h \in excluded[u] \/ (cut /\ h = g)
  BY <1>1, <1>2
<1>4. TreeFacts /\ ScopeFacts /\ ScopeFacts' /\ Live' = Live
  <2>1. (IInv => ScopeFacts)'
    BY ScopeSound, PTL
  <2> QED BY <1>1, <2>1, TreeSound, ScopeSound DEF Live
<1>5. \A h \in Live : Chain(h)' = Chain(h)
  <2>1. \A h \in Live : parent'[h] = parent[h] /\ parent[h] \in Live \cup {Top}
    BY <1>1 DEF IInv, Forest, IsLevel
  <2> QED BY <1>4, <2>1, ChainKept
<1>6. \A h \in Live : h \in Groups /\ h \in Chain(h) /\ Chain(h) \subseteq Live
  BY <1>4 DEF TreeFacts, Live
<1>7. \A h \in Live : /\ h \in RecallScope(u) <=> InScope(u, h)
                      /\ h \in RecallScope(u)' <=> InScope(u, h)'
  BY <1>4 DEF ScopeFacts
<1>8. g \notin RecallScope(u)'
  <2>1. CASE g \in excluded'[u]
    <3>1. direct'[u][g] = 0
      BY <1>2, <1>3
    <3> QED BY <1>7, <2>1, <3>1 DEF InScope
  <2>2. CASE g \notin excluded'[u]
    <3>1. ~ReachesByInheritance(u, g)
      BY <1>2, <1>3, <2>2 DEF cut
    <3>2. ASSUME NEW h \in Chain(g), direct'[u][h] # 0 PROVE FALSE
      <4>1. h \in Live /\ h \in Groups /\ h # g /\ direct[u][h] # 0
        BY <1>3, <1>6, <3>2
      <4>2. g \in Subtree(h)
        BY <1>4, <4>1 DEF TreeFacts
      <4> QED BY <3>1, <4>1, <4>2 DEF ReachesByInheritance, DirectGroups
    <3> QED BY <1>5, <1>7, <3>2 DEF InScope
  <2> QED BY <2>1, <2>2
<1>9. ASSUME direct[u][g] = 0 PROVE RecallScope(u)' = RecallScope(u) \ {g}
  <2>1. \A h \in Groups : direct'[u][h] = direct[u][h]
    BY <1>3, <1>9
  <2>2. ASSUME NEW h \in Live, h # g PROVE InScope(u, h)' <=> InScope(u, h)
    <3>1. \A x \in Chain(h) : x \in Groups
      BY <1>6
    <3>2. h \in excluded'[u] <=> h \in excluded[u]
      BY <1>3, <1>6, <2>2
    <3> QED BY <1>5, <1>6, <2>1, <3>1, <3>2 DEF InScope
  <2>3. RecallScope(u) \subseteq Live /\ RecallScope(u)' \subseteq Live
    BY <1>4 DEF ScopeFacts
  <2> QED BY <1>7, <1>8, <2>2, <2>3
<1> QED BY <1>8, <1>9

\* A read that was taken away does not come back by itself, whatever the order of grants,
\* revocations, deletions and requests that checked before and grant after them.
THEOREM AccessOnlyByGrant == Spec => AccessFollowsGrants
<1>1. ASSUME IInv, IInv', Next, NEW u \in Users
      PROVE  /\ \A g \in RecallScope(u)' \ RecallScope(u) :
                  \/ parent[g] = Unborn
                  \/ direct[u][g] = 0 /\ direct'[u][g] # 0
                  \/ /\ g \notin excluded[u]
                     /\ \E h \in Chain(parent[g]) : direct[u][h] = 0 /\ direct'[u][h] # 0
             /\ \A g \in Live :
                  Revoke(u, g) => /\ g \notin RecallScope(u)'
                                  /\ direct[u][g] = 0 =>
                                       RecallScope(u)' = RecallScope(u) \ {g}
  <2>1. PICK S : KeepsPlaces(S)
    BY <1>1, PlacesAreKept
  <2>2. \A g \in RecallScope(u)' \ RecallScope(u) : EntersRightly(u, g)
    BY <1>1, <2>1, ScopeFollows
  <2>3. \A g \in Live :
          Revoke(u, g) => /\ g \notin RecallScope(u)'
                          /\ direct[u][g] = 0 => RecallScope(u)' = RecallScope(u) \ {g}
    BY <1>1, RevokeCuts
  <2> QED BY <2>2, <2>3 DEF EntersRightly
<1>2. IInv /\ IInv' /\ [Next]_vars =>
        [\A u \in Users :
           /\ \A g \in RecallScope(u)' \ RecallScope(u) :
                \/ parent[g] = Unborn
                \/ direct[u][g] = 0 /\ direct'[u][g] # 0
                \/ /\ g \notin excluded[u]
                   /\ \E h \in Chain(parent[g]) : direct[u][h] = 0 /\ direct'[u][h] # 0
           /\ \A g \in Live :
                Revoke(u, g) => /\ g \notin RecallScope(u)'
                                /\ direct[u][g] = 0 =>
                                     RecallScope(u)' = RecallScope(u) \ {g}]_vars
  BY <1>1
<1> QED BY <1>2, GroupsInductive, PTL DEF Spec, AccessFollowsGrants

-----------------------------------------------------------------------------
(* The memory of the teams                                                 *)

\* A record has tags from the time they are judged, until a purge of its only tag strips
\* it; a removal past its lookups has a target other than its team; and a record that was
\* stored in time carries no tag of a team whose memory has been dealt with.
RecordsSound ==
  /\ record \in [Records -> Record]
  /\ removal \in [Removals -> Removal \cup {NoRemoval}]
  /\ \A r \in Records : record[r].pc = "tagged" => record[r].tags # {}
  /\ \A r \in Stored : record[r].tags = {} => record[r].missed
  /\ \A d \in Removals : removal[d].pc \in {"memory", "delete"} => removal[d].target # removal[d].team
  /\ \A r \in Stored : record[r].missed \/ \A g \in record[r].tags : ~Handled(g)

MemoryInv == IInv /\ RecordsSound

\* The store's calls as the memory model makes them keep the store's invariant.
LEMMA StoreStep ==
  ASSUME IInv, [MemoryNext]_mvars PROVE IInv'
<1>1. request \in [Requests -> {Idle} \cup
                     [pc : {"add", "promote", "added"}, user : Users, group : Groups]]
  BY DEF IInv, TypeOK
<1>2. ASSUME UNCHANGED store PROVE IInv'
  <2>1. UNCHANGED vars
    BY <1>2 DEF store, vars
  <2> QED BY <2>1, IInvStep
<1>3. ASSUME NEW u \in Users, NEW g \in Live, NEW r \in Roles, Grant(u, g, r),
             UNCHANGED <<tree, request>>
      PROVE  IInv'
  BY <1>1, <1>3, GrantStep DEF Live
<1>4. ASSUME NEW r \in Records,
             (\E u \in Users : CaptureTags(r, u)) \/ CaptureStores(r) \/ CaptureFails(r)
      PROVE  UNCHANGED store
  BY <1>4 DEF CaptureTags, CaptureStores, CaptureFails
<1>5. ASSUME NEW d \in Removals,
             \/ \E g \in Live, to \in Live \cup {Gone} : DeleteChecks(d, g, to)
             \/ TargetChecks(d) \/ MemoryHandled(d) \/ MemoryFails(d) \/ DeleteRefused(d)
      PROVE  UNCHANGED store
  BY <1>5 DEF DeleteChecks, TargetChecks, MemoryHandled, MemoryFails, DeleteRefused
<1>6. ASSUME NEW d \in Removals, DeleteSucceeds(d) PROVE IInv'
  BY <1>6, DeleteStep DEF DeleteSucceeds
<1>7. CASE MemoryNext
  BY <1>2, <1>3, <1>4, <1>5, <1>6, <1>7, CreateStep, RevokeStep DEF MemoryNext
<1>8. CASE UNCHANGED mvars
  BY <1>2, <1>8 DEF mvars
<1> QED BY <1>7, <1>8

\* Nothing that is unrelated to records makes a team handled but its own deletion.
LEMMA HandledKept ==
  ASSUME RecordsSound, record' = record, removal' \in [Removals -> Removal \cup {NoRemoval}],
         \A d \in Removals : removal'[d].pc \in {"memory", "delete"} =>
                               removal'[d].target # removal'[d].team,
         \A g \in Groups : Handled(g)' => Handled(g)
  PROVE  RecordsSound'
<1>1. Stored' = Stored
  BY DEF Stored
<1>2. \A r \in Stored : r \in Records /\ record[r].tags \subseteq Groups
  BY DEF RecordsSound, Record, Stored
<1>3. \A r \in Stored' : record'[r].missed \/ \A g \in record'[r].tags : ~Handled(g)'
  BY <1>1, <1>2 DEF RecordsSound
<1> QED BY <1>1, <1>3 DEF RecordsSound

\* A call of the store alone: no living team disappears.
LEMMA StoreCallKeeps ==
  ASSUME RecordsSound, UNCHANGED <<record, removal>>, Live \subseteq Live'
  PROVE  RecordsSound'
<1>1. \A g \in Groups : Handled(g)' => Handled(g)
  BY DEF Handled
<1> QED BY <1>1, HandledKept DEF RecordsSound

\* The steps of one capture.
LEMMA CaptureStep ==
  ASSUME RecordsSound, NEW r \in Records,
         (\E u \in Users : CaptureTags(r, u)) \/ CaptureStores(r) \/ CaptureFails(r)
  PROVE  RecordsSound'
<1>1. /\ record \in [Records -> Record] /\ removal' = removal /\ parent' = parent
      /\ \A g \in Groups : Handled(g)' <=> Handled(g)
  BY DEF RecordsSound, CaptureTags, CaptureStores, CaptureFails, store, Handled, Live
<1>2. PICK new \in Record : /\ record' = [record EXCEPT ![r] = new]
                            /\ new.pc # "none" => new.tags # {}
                            /\ new.pc = "stored" => new.missed = \E g \in new.tags : Handled(g)
  <2>1. ASSUME NEW u \in Users, CaptureTags(r, u)
        PROVE  \E new \in Record : /\ record' = [record EXCEPT ![r] = new]
                                   /\ new.pc # "none" => new.tags # {}
                                   /\ new.pc # "stored"
    <3>1. AutoTags(u) \subseteq Groups /\ AutoTags(u) # {}
      BY <2>1 DEF CaptureTags, AutoTags, DirectWriteSet, DirectGroups, Live
    <3> DEFINE new == [record[r] EXCEPT !.pc = "tagged", !.tags = AutoTags(u)]
    <3>2. new \in Record /\ new.pc = "tagged" /\ new.tags = AutoTags(u)
      BY <1>1, <3>1 DEF Record
    <3>3. record' = [record EXCEPT ![r] = new]
      BY <1>1, <2>1 DEF CaptureTags, Record
    <3> QED BY <3>1, <3>2, <3>3
  <2>2. ASSUME CaptureStores(r)
        PROVE  \E new \in Record : /\ record' = [record EXCEPT ![r] = new]
                                   /\ new.pc # "none" => new.tags # {}
                                   /\ new.missed = \E g \in new.tags : Handled(g)
    <3>1. record[r].pc = "tagged" /\ record[r].tags # {}
      BY <2>2 DEF CaptureStores, RecordsSound
    <3> DEFINE late == \E g \in record[r].tags : Handled(g)
               new == [record[r] EXCEPT !.pc = "stored", !.missed = late]
    <3>2. new \in Record /\ new.tags = record[r].tags /\ new.missed = late
      BY <1>1 DEF Record
    <3>3. record' = [record EXCEPT ![r] = new]
      BY <1>1, <2>2 DEF CaptureStores, Record
    <3> QED BY <3>1, <3>2, <3>3
  <2>3. ASSUME CaptureFails(r)
        PROVE  \E new \in Record : record' = [record EXCEPT ![r] = new] /\ new.pc = "none"
    <3>1. NoRecord \in Record /\ NoRecord.pc = "none"
      BY DEF NoRecord, Record
    <3> QED BY <2>3, <3>1 DEF CaptureFails
  <2> QED BY <2>1, <2>2, <2>3
<1>3. record' \in [Records -> Record]
  BY <1>1, <1>2
<1>4. \A x \in Records : record'[x] = IF x = r THEN new ELSE record[x]
  BY <1>1, <1>2
<1>5. /\ \A x \in Records : record'[x].pc = "tagged" => record'[x].tags # {}
      /\ \A x \in Stored' : record'[x].tags = {} => record'[x].missed
  BY <1>2, <1>4 DEF RecordsSound, Stored
<1>6. \A x \in Stored' : record'[x].missed \/ \A g \in record'[x].tags : ~Handled(g)'
  <2>1. SUFFICES ASSUME NEW x \in Records, record'[x].pc = "stored"
                 PROVE  record'[x].missed \/ \A g \in record'[x].tags : ~Handled(g)'
    BY DEF Stored
  <2>2. record'[x].tags \subseteq Groups
    BY <1>3 DEF Record
  <2>3. CASE x = r
    <3>1. record'[x] = new
      BY <1>4, <2>3
    <3>2. new.missed = \E g \in new.tags : Handled(g)
      BY <1>2, <2>1, <3>1
    <3>3. \A g \in new.tags : Handled(g)' <=> Handled(g)
      BY <1>1, <2>2, <3>1
    <3>4. new.missed \/ \A g \in new.tags : ~Handled(g)'
      BY <3>2, <3>3, Zenon
    <3> QED BY <3>1, <3>4
  <2>4. CASE x # r
    BY <1>1, <1>4, <2>1, <2>2, <2>4 DEF RecordsSound, Stored
  <2> QED BY <2>3, <2>4
<1> QED BY <1>1, <1>3, <1>5, <1>6 DEF RecordsSound

\* What an engine call about team may make of a record: a tag that the call is not about
\* stays, a new one is the target of a transfer, and a last one is stripped only by the
\* purge of that very tag, if the engine may do that.
Reworked(old, new, team, target) ==
  /\ new \in Record /\ new.pc = old.pc
  /\ new.tags = {} /\ old.tags # {} =>
       target = Gone /\ old.tags = {team} /\ TRUE \in MayStrip /\ new.missed
  /\ old.pc # "stored" => new = old
  /\ old.pc = "stored" =>
       /\ team \in new.tags => new.missed
       /\ old.missed => new.missed
       /\ \A g \in new.tags : \/ g \in old.tags
                              \/ /\ g = target /\ g \in Groups /\ team \in old.tags
                                 /\ Handled(g) => new.missed

\* What the reassignment of a removal does to one record.
LEMMA ReassignedRecord ==
  ASSUME RecordsSound, NEW d \in Removals, removal[d].pc = "memory", NEW r \in Records,
         NEW strips \in MayStrip
  PROVE  Reworked(record[r], Reassigned(d, strips)[r], removal[d].team, removal[d].target)
<1> DEFINE old == record[r]
           new == Reassigned(d, strips)[r]
           team == removal[d].team
           target == removal[d].target
<1> SUFFICES Reworked(old, new, team, target)
  OBVIOUS
<1>1. /\ old \in Record
      /\ old.pc = "tagged" => old.tags # {}
      /\ team \in Groups /\ target \in Groups \cup {Gone} /\ target # team
  BY DEF RecordsSound, Removal, NoRemoval
<1>2. r \in Stored <=> old.pc = "stored"
  BY DEF Stored
<1>3. old.missed \in BOOLEAN /\ old.tags \subseteq Groups
  BY <1>1 DEF Record
<1>4. CASE target = Gone
  <2> DEFINE kept == old.tags = {team} /\ ~strips
             late == old.missed \/ old.tags = {team}
             left == IF kept THEN old.tags ELSE old.tags \ {team}
  <2>1. new = IF r \notin Stored \/ team \notin old.tags THEN old
              ELSE [old EXCEPT !.tags = left, !.missed = late]
    BY <1>4 DEF Reassigned, RemoveTag
  <2>2. late \in BOOLEAN /\ (old.missed => late) /\ (old.tags = {team} => late)
    OBVIOUS
  <2>3. left \in SUBSET Groups /\ left \subseteq old.tags /\ (team \in left => old.tags = {team})
    BY <1>3
  <2>4. left = {} => old.tags \subseteq {team} /\ (old.tags = {team} => TRUE \in MayStrip)
    <3>1. strips => TRUE \in MayStrip
      <4>1. MayStrip \subseteq BOOLEAN
        BY TeamMemoryAssumption
      <4>2. strips => strips = TRUE
        BY <4>1, Zenon
      <4> QED BY <4>2
    <3>2. CASE kept
      BY <3>2
    <3>3. CASE ~kept
      BY <3>1, <3>3
    <3> QED BY <3>2, <3>3
  <2> HIDE DEF old, new, team, target, kept, late, left
  <2>5. CASE r \notin Stored \/ team \notin old.tags
    <3>1. new = old
      BY <2>1, <2>5
    <3> QED BY <1>1, <1>2, <2>5, <3>1 DEF Reworked
  <2>6. CASE r \in Stored /\ team \in old.tags
    <3>1. new = [old EXCEPT !.tags = left, !.missed = late]
      BY <2>1, <2>6
    <3>2. new \in Record /\ new.pc = old.pc /\ new.tags = left /\ new.missed = late
      BY <1>1, <2>2, <2>3, <3>1 DEF Record
    <3>3. (old.missed => new.missed) /\ (old.tags = {team} => new.missed)
      BY <2>2, <3>2
    <3> QED BY <1>2, <1>4, <2>3, <2>4, <2>6, <3>2, <3>3 DEF Reworked
  <2> QED BY <2>5, <2>6
<1>5. CASE target # Gone
  <2>1. target \in Groups
    BY <1>1, <1>5
  <2> DEFINE late == old.missed \/ Handled(target)
  <2>2. new = IF r \in Stored /\ team \in old.tags
                THEN [old EXCEPT !.tags = (@ \ {team}) \cup {target}, !.missed = late]
                ELSE old
    BY <1>5 DEF Reassigned, RetagAll
  <2>3. late \in BOOLEAN
    OBVIOUS
  <2>4. (old.missed => late) /\ (Handled(target) => late)
    OBVIOUS
  <2> HIDE DEF old, new, team, target, late
  <2>5. CASE ~(r \in Stored /\ team \in old.tags)
    <3>1. new = old
      BY <2>2, <2>5
    <3> QED BY <1>1, <1>2, <2>5, <3>1 DEF Reworked
  <2>6. CASE r \in Stored /\ team \in old.tags
    <3>1. new = [old EXCEPT !.tags = (@ \ {team}) \cup {target}, !.missed = late]
      BY <2>2, <2>6
    <3>2. /\ new \in Record /\ new.pc = old.pc /\ new.missed = late
          /\ new.tags = (old.tags \ {team}) \cup {target}
      BY <1>1, <2>1, <2>3, <3>1 DEF Record
    <3>3. (old.missed => new.missed) /\ (Handled(target) => new.missed)
      BY <2>4, <3>2
    <3>4. team \notin new.tags /\ new.tags # {} /\ old.pc = "stored"
      BY <1>1, <1>2, <2>6, <3>2
    <3>5. \A g \in new.tags : g \in old.tags \/ g = target
      BY <3>2
    <3> QED BY <2>1, <2>6, <3>2, <3>3, <3>4, <3>5 DEF Reworked
  <2> QED BY <2>5, <2>6
<1> QED BY <1>4, <1>5

\* The engine call of a removal, whether its answer arrives or an error comes after the
\* fact: only the removal's own team becomes handled.
LEMMA EngineStep ==
  ASSUME RecordsSound, NEW d \in Removals, removal[d].pc = "memory", NEW strips \in MayStrip,
         record' = Reassigned(d, strips), RemovalGoes(d, "delete") \/ RemovalReplies(d),
         UNCHANGED store
  PROVE  RecordsSound'
<1> DEFINE team == removal[d].team
<1>1. /\ record \in [Records -> Record]
      /\ removal \in [Removals -> Removal \cup {NoRemoval}]
      /\ removal[d] \in Removal
      /\ removal[d].target # team
  BY DEF RecordsSound, Removal, NoRemoval
<1>2. /\ removal' \in [Removals -> Removal \cup {NoRemoval}]
      /\ \A e \in Removals \ {d} : removal'[e] = removal[e]
      /\ \/ removal'[d] = NoRemoval
         \/ /\ removal'[d].pc = "delete" /\ removal'[d].team = team
            /\ removal'[d].target = removal[d].target
  <2>1. CASE RemovalReplies(d)
    BY <1>1, <2>1 DEF RemovalReplies
  <2>2. CASE RemovalGoes(d, "delete")
    <3> DEFINE moved == [removal[d] EXCEPT !.pc = "delete"]
    <3>1. /\ moved \in Removal /\ moved.pc = "delete" /\ moved.team = team
          /\ moved.target = removal[d].target
      BY <1>1 DEF Removal
    <3>2. removal' = [removal EXCEPT ![d] = moved]
      BY <1>1, <2>2 DEF RemovalGoes
    <3> HIDE DEF moved
    <3> QED BY <1>1, <3>1, <3>2
  <2> QED BY <2>1, <2>2
<1>3. \A g \in Groups : Handled(g)' => Handled(g) \/ g = team
  <2>1. Live' = Live
    BY DEF store, Live
  <2> QED BY <1>2, <2>1 DEF Handled, NoRemoval
<1>4. \A r \in Records : /\ record'[r] = Reassigned(d, strips)[r]
                         /\ Reworked(record[r], record'[r], team, removal[d].target)
  BY ReassignedRecord
<1>5. record' \in [Records -> Record]
  <2>1. DOMAIN record' = Records /\ record' = [r \in Records |-> record'[r]]
    BY DEF Reassigned, RemoveTag, RetagAll
  <2>2. \A r \in Records : record'[r] \in Record
    BY <1>4 DEF Reworked
  <2> QED BY <2>1, <2>2
<1>6. /\ \A r \in Records : record'[r].pc = "tagged" => record'[r].tags # {}
      /\ \A r \in Stored' : record'[r].tags = {} => record'[r].missed
  <2>1. ASSUME NEW r \in Records, record'[r].pc = "tagged" PROVE record'[r].tags # {}
    <3>1. record'[r].pc = record[r].pc /\ record'[r] = record[r]
      BY <1>4, <2>1 DEF Reworked
    <3> QED BY <2>1, <3>1 DEF RecordsSound
  <2>2. ASSUME NEW r \in Records, record'[r].pc = "stored", record'[r].tags = {}
        PROVE  record'[r].missed
    <3>1. Reworked(record[r], record'[r], team, removal[d].target)
      BY <1>4
    <3>2. record[r].pc = "stored"
      BY <2>2, <3>1 DEF Reworked
    <3>3. CASE record[r].tags = {}
      <4>1. record[r].missed
        BY <3>2, <3>3 DEF RecordsSound, Stored
      <4> QED BY <3>1, <3>2, <4>1 DEF Reworked
    <3>4. CASE record[r].tags # {}
      BY <2>2, <3>1, <3>4 DEF Reworked
    <3> QED BY <3>3, <3>4
  <2> QED BY <2>1, <2>2 DEF Stored
<1>7. \A r \in Stored' : record'[r].missed \/ \A g \in record'[r].tags : ~Handled(g)'
  <2>1. SUFFICES ASSUME NEW r \in Records, record'[r].pc = "stored",
                        NEW g \in record'[r].tags, Handled(g)'
                 PROVE  record'[r].missed
    BY DEF Stored
  <2>2. Reworked(record[r], record'[r], team, removal[d].target) /\ record[r].pc = "stored"
    BY <1>4, <2>1 DEF Reworked
  <2>3. g \in Groups
    BY <1>5 DEF Record
  <2>4. CASE g = team
    BY <2>1, <2>2, <2>4 DEF Reworked
  <2>5. CASE Handled(g)
    <3>1. CASE g \in record[r].tags
      <4>1. record[r].missed
        BY <2>2, <2>5, <3>1 DEF RecordsSound, Stored
      <4> QED BY <2>2, <4>1 DEF Reworked
    <3>2. CASE g \notin record[r].tags
      BY <2>1, <2>2, <2>5, <3>2 DEF Reworked
    <3> QED BY <3>1, <3>2
  <2> QED BY <1>3, <2>1, <2>3, <2>4, <2>5
<1>8. \A e \in Removals : removal'[e].pc \in {"memory", "delete"} =>
                            removal'[e].target # removal'[e].team
  BY <1>1, <1>2 DEF RecordsSound, NoRemoval
<1> QED BY <1>2, <1>5, <1>6, <1>7, <1>8 DEF RecordsSound

\* The steps of a removal that leave the records alone.
LEMMA RemovalStep ==
  ASSUME IInv, RecordsSound, NEW d \in Removals,
         \/ \E g \in Live, to \in Live \cup {Gone} : DeleteChecks(d, g, to)
         \/ TargetChecks(d) \/ DeleteRefused(d) \/ DeleteSucceeds(d)
         \/ MemoryFails(d) /\ record' = record
  PROVE  RecordsSound'
<1>1. removal \in [Removals -> Removal \cup {NoRemoval}]
  BY DEF RecordsSound
<1>2. Gone \notin Groups
  BY GroupsAssumption DEF Gone
<1>3. record' = record
  BY DEF DeleteChecks, TargetChecks, DeleteRefused, DeleteSucceeds
<1>4. ASSUME NEW new \in Removal \cup {NoRemoval}, removal' = [removal EXCEPT ![d] = new],
             \/ new.pc \notin {"memory", "delete"}
             \/ new.pc = "memory" /\ new.target # new.team,
             \A g \in Groups : g \in Live => \/ g \in Live'
                                             \/ removal[d].pc = "delete" /\ removal[d].team = g
      PROVE  RecordsSound'
  <2>1. \A e \in Removals : removal'[e] = IF e = d THEN new ELSE removal[e]
    BY <1>1, <1>4
  <2>2. \A g \in Groups : Handled(g)' => Handled(g)
    BY <1>4, <2>1 DEF Handled
  <2>3. removal' \in [Removals -> Removal \cup {NoRemoval}]
    BY <1>1, <1>4
  <2>4. \A e \in Removals : removal'[e].pc \in {"memory", "delete"} =>
                              removal'[e].target # removal'[e].team
    BY <1>4, <2>1 DEF RecordsSound
  <2> QED BY <1>3, <2>2, <2>3, <2>4, HandledKept
<1>5. UNCHANGED store => Live' = Live
  BY DEF store, Live
<1>6. ASSUME RemovalReplies(d), UNCHANGED store PROVE RecordsSound'
  BY <1>4, <1>5, <1>6 DEF RemovalReplies, NoRemoval
<1>7. ASSUME NEW g \in Live, NEW to \in Live \cup {Gone}, DeleteChecks(d, g, to)
      PROVE  RecordsSound'
  <2> DEFINE new == [pc |-> IF to = Gone THEN "memory" ELSE "target", team |-> g, target |-> to]
  <2>1. new \in Removal
    BY DEF Removal, Live
  <2>2. new.pc = "target" \/ (new.pc = "memory" /\ new.target # new.team)
    BY <1>2 DEF Live
  <2>3. removal' = [removal EXCEPT ![d] = new] /\ UNCHANGED store
    BY <1>7 DEF DeleteChecks
  <2> HIDE DEF new
  <2> QED BY <1>4, <1>5, <2>1, <2>2, <2>3
<1>8. ASSUME TargetChecks(d), RemovalGoes(d, "memory") PROVE RecordsSound'
  <2>1. /\ removal[d].pc = "target" /\ UNCHANGED store
    BY <1>8 DEF TargetChecks
  <2>2. removal[d] \in Removal
    BY <1>1, <2>1 DEF NoRemoval
  <2>3. removal[d].target # removal[d].team
    <3>1. CASE removal[d].target \in Live \ {removal[d].team}
      BY <3>1
    <3>2. CASE removal[d].target \notin Live \ {removal[d].team}
      <4>1. RemovalReplies(d)
        BY <1>8, <3>2 DEF TargetChecks
      <4>2. removal'[d] = NoRemoval /\ removal'[d].pc = "memory"
        BY <1>1, <1>8, <2>2, <4>1 DEF RemovalReplies, RemovalGoes, Removal
      <4> QED BY <4>2 DEF NoRemoval
    <3> QED BY <3>1, <3>2
  <2> DEFINE new == [removal[d] EXCEPT !.pc = "memory"]
  <2>4. new \in Removal /\ new.pc = "memory" /\ new.target # new.team
    BY <2>2, <2>3 DEF Removal
  <2>5. removal' = [removal EXCEPT ![d] = new]
    BY <1>1, <1>8 DEF RemovalGoes
  <2> HIDE DEF new
  <2> QED BY <1>4, <1>5, <2>1, <2>4, <2>5
<1>9. ASSUME DeleteSucceeds(d) PROVE RecordsSound'
  <2>1. /\ removal[d].pc = "delete" /\ removal' = [removal EXCEPT ![d] = NoRemoval]
        /\ parent' = [parent EXCEPT ![removal[d].team] = Gone]
    BY <1>9 DEF DeleteSucceeds, RemovalReplies, DeleteGroupWithMembers
  <2>2. \A g \in Groups : g \in Live => g \in Live' \/ removal[d].team = g
    BY <2>1 DEF Live, IInv, TypeOK
  <2> QED BY <1>4, <2>1, <2>2 DEF NoRemoval
<1>10. CASE TargetChecks(d)
  BY <1>6, <1>8, <1>10 DEF TargetChecks
<1>11. CASE DeleteRefused(d) \/ (MemoryFails(d) /\ record' = record)
  BY <1>6, <1>11 DEF DeleteRefused, MemoryFails
<1> QED BY <1>7, <1>9, <1>10, <1>11

\* No record and no removal at first.
LEMMA MemoryInit_MemoryInv == MemoryInit => MemoryInv
<1>1. SUFFICES ASSUME MemoryInit PROVE MemoryInv
  OBVIOUS
<1>2. IInv
  BY <1>1, InitIInv DEF MemoryInit
<1>3. /\ record = [r \in Records |-> NoRecord] /\ removal = [d \in Removals |-> NoRemoval]
  BY <1>1 DEF MemoryInit
<1>4. /\ NoRecord \in Record /\ NoRecord.pc = "none" /\ NoRemoval.pc = "idle"
  BY DEF NoRecord, Record, NoRemoval
<1>5. RecordsSound
  <2>1. \A r \in Records : record[r] = NoRecord
    BY <1>3
  <2>2. \A d \in Removals : removal[d] = NoRemoval
    BY <1>3
  <2>3. Stored = {}
    BY <1>4, <2>1 DEF Stored
  <2>4. record \in [Records -> Record] /\ removal \in [Removals -> Removal \cup {NoRemoval}]
    BY <1>3, <1>4
  <2> QED BY <1>4, <2>1, <2>2, <2>3, <2>4 DEF RecordsSound
<1> QED BY <1>2, <1>5 DEF MemoryInv

\* Every step of captures, removals and the store keeps the records sound.
LEMMA MemoryInvStep == MemoryInv /\ [MemoryNext]_mvars => MemoryInv'
<1>1. SUFFICES ASSUME IInv, RecordsSound, [MemoryNext]_mvars PROVE RecordsSound'
  BY StoreStep DEF MemoryInv
<1>2. ASSUME NEW g \in Groups, NEW p \in Live \cup {Top}, NEW n \in Names,
             CreateGroup(g, p, n), UNCHANGED <<record, removal>>
      PROVE  RecordsSound'
  <2>1. parent[g] = Unborn /\ parent' = [parent EXCEPT ![g] = p]
    BY <1>2 DEF CreateGroup
  <2>2. g \notin Live /\ \A h \in Groups \ {g} : parent'[h] = parent[h]
    BY <1>1, <2>1, GroupsAssumption DEF IInv, TypeOK, Live, Unborn, Top
  <2>3. Live \subseteq Live'
    BY <2>2 DEF Live
  <2> QED BY <1>1, <1>2, <2>3, StoreCallKeeps
<1>3. ASSUME parent' = parent, UNCHANGED <<record, removal>> PROVE RecordsSound'
  <2>1. Live' = Live
    BY <1>3 DEF Live
  <2> QED BY <1>1, <1>3, <2>1, StoreCallKeeps
<1>4. ASSUME NEW d \in Removals, NEW strips \in MayStrip, record' = Reassigned(d, strips),
             MemoryHandled(d) \/ MemoryFails(d)
      PROVE  RecordsSound'
  BY <1>1, <1>4, EngineStep DEF MemoryHandled, MemoryFails
<1>5. ASSUME NEW d \in Removals, MemoryHandled(d) \/ MemoryFails(d) PROVE RecordsSound'
  <2>1. PICK strips \in MayStrip :
          record' = Reassigned(d, strips) \/ (MemoryFails(d) /\ record' = record)
    BY <1>5 DEF MemoryHandled, MemoryFails
  <2> QED BY <1>1, <1>4, <1>5, <2>1, RemovalStep
<1>6. ASSUME NEW d \in Removals,
             \/ \E g \in Live, to \in Live \cup {Gone} : DeleteChecks(d, g, to)
             \/ TargetChecks(d) \/ DeleteRefused(d) \/ DeleteSucceeds(d)
      PROVE  RecordsSound'
  BY <1>1, <1>6, RemovalStep
<1>7. ASSUME NEW r \in Records,
             (\E u \in Users : CaptureTags(r, u)) \/ CaptureStores(r) \/ CaptureFails(r)
      PROVE  RecordsSound'
  BY <1>1, <1>7, CaptureStep
<1>8. ASSUME NEW u \in Users, NEW g \in Live, Revoke(u, g) PROVE parent' = parent
  BY <1>8 DEF Revoke, tree
<1>9. UNCHANGED tree => parent' = parent
  BY DEF tree
<1>10. CASE MemoryNext
  BY <1>2, <1>3, <1>4, <1>5, <1>6, <1>7, <1>8, <1>9, <1>10 DEF MemoryNext
<1>11. CASE UNCHANGED mvars
  BY <1>3, <1>11 DEF mvars, store
<1> QED BY <1>1, <1>10, <1>11

\* The group store keeps its invariant under the memory's steps too, and no record that
\* was stored in time carries the tag of a team whose memory has been dealt with.
THEOREM MemoryInductive == MemorySpec => []MemoryInv
BY MemoryInit_MemoryInv, MemoryInvStep, PTL DEF MemorySpec

\* A record loses its last living team only in a race with the deletion or by a purge of
\* its only tag, for any number of captures and deletions in flight and whatever the engine
\* does with a last tag.
THEOREM NoRecordStranded == MemorySpec => []OnlyRacesStrand
<1>1. MemoryInv => OnlyRacesStrand
  <2>1. SUFFICES ASSUME RecordsSound, NEW r \in Stored, record[r].tags \cap Live = {}
                 PROVE  record[r].missed
    BY DEF MemoryInv, OnlyRacesStrand, RecordsSound
  <2>2. CASE record[r].tags = {}
    BY <2>1, <2>2 DEF RecordsSound
  <2>3. ASSUME NEW g \in record[r].tags PROVE record[r].missed
    <3>1. Handled(g)
      BY <2>1 DEF Handled
    <3> QED BY <2>1, <3>1 DEF RecordsSound
  <2> QED BY <2>2, <2>3
<1> QED BY <1>1, MemoryInductive, PTL

\* Which records a user's search returns, in a sound state.
LEMMA SearchIsByTag ==
  ASSUME RecordsSound, NEW u \in Users, NEW r \in Stored
  PROVE  r \in Search(u) <=> record[r].tags = {} \/ record[r].tags \cap RecallScope(u) # {}
<1>1. record[r].tags \subseteq Groups
  BY DEF RecordsSound, Stored, Record
<1>2. Gone \notin Groups
  BY GroupsAssumption DEF Gone
<1>3. CASE RecallScope(u) = {}
  BY <1>1, <1>2, <1>3 DEF Search, Hits
<1>4. CASE RecallScope(u) # {}
  BY <1>1, <1>4 DEF Search, Hits
<1> QED BY <1>3, <1>4

\* The tags of a record that is stored change only by the engine call of a deletion.
LEMMA TagsChange ==
  ASSUME RecordsSound, MemoryNext, NEW r \in Stored, record'[r].tags # record[r].tags
  PROVE  \E d \in Removals :
           /\ removal[d].pc = "memory" /\ record[r].pc = "stored"
           /\ Reworked(record[r], record'[r], removal[d].team, removal[d].target)
<1>1. r \in Records /\ record[r].pc = "stored" /\ record \in [Records -> Record]
  BY DEF Stored, RecordsSound
<1>2. record' # record
  OBVIOUS
<1>3. ASSUME NEW x \in Records,
             (\E u \in Users : CaptureTags(x, u)) \/ CaptureStores(x) \/ CaptureFails(x)
      PROVE  FALSE
  <2>1. record[x].pc # "stored"
    BY <1>3 DEF CaptureTags, CaptureStores, CaptureFails
  <2>2. record'[r] = record[r]
    BY <1>1, <1>3, <2>1 DEF CaptureTags, CaptureStores, CaptureFails
  <2> QED BY <2>2
<1>4. PICK d \in Removals, strips \in MayStrip :
        removal[d].pc = "memory" /\ record' = Reassigned(d, strips)
  <2>1. ASSUME NEW d \in Removals,
               \/ \E g \in Live, to \in Live \cup {Gone} : DeleteChecks(d, g, to)
               \/ TargetChecks(d) \/ DeleteRefused(d) \/ DeleteSucceeds(d)
        PROVE  FALSE
    BY <1>2, <2>1 DEF DeleteChecks, TargetChecks, DeleteRefused, DeleteSucceeds
  <2>2. ASSUME NEW d \in Removals, MemoryHandled(d) \/ MemoryFails(d)
        PROVE  removal[d].pc = "memory" /\ \E strips \in MayStrip : record' = Reassigned(d, strips)
    BY <1>2, <2>2 DEF MemoryHandled, MemoryFails
  <2> QED BY <1>2, <1>3, <2>1, <2>2 DEF MemoryNext
<1>5. Reworked(record[r], record'[r], removal[d].team, removal[d].target)
  BY <1>1, <1>4, ReassignedRecord
<1> QED BY <1>1, <1>4, <1>5

\* A deletion shows a record to somebody who could not recall it before only when it has the
\* tag of the deleted team, and is transferred to a team they read or, under an engine that
\* strips a last tag, purged of it as its only one: not by a failure half way, a second
\* deletion or a lost membership.
THEOREM OnlyItsOwnExposed == MemorySpec => DeletionExposesOnlyItsOwn
<1> DEFINE Shows(d, r, u) ==
             /\ removal[d].pc = "memory"
             /\ removal[d].team \in record[r].tags
             /\ \/ removal[d].target \in RecallScope(u)
                \/ /\ removal[d].target = Gone /\ record[r].tags = {removal[d].team}
                   /\ TRUE \in MayStrip
<1>1. ASSUME MemoryInv, MemoryInv', MemoryNext, NEW r \in Stored, NEW u \in Users,
             r \in Search(u)', r \notin Search(u), RecallScope(u)' \ RecallScope(u) = {}
      PROVE  \E d \in Removals : Shows(d, r, u)
  <2>1. RecordsSound /\ RecordsSound'
    BY <1>1 DEF MemoryInv
  <2>2. r \in Stored'
    BY <1>1 DEF Search, Hits
  <2>3. record[r].tags # {} /\ record[r].tags \cap RecallScope(u) = {}
    BY <1>1, <2>1, SearchIsByTag
  <2>4. record'[r].tags = {} \/ record'[r].tags \cap RecallScope(u)' # {}
    <3>1. record'[r].tags \subseteq Groups
      BY <2>1, <2>2 DEF RecordsSound, Stored, Record
    <3>2. Gone \notin Groups
      BY GroupsAssumption DEF Gone
    <3> QED BY <1>1, <3>1, <3>2 DEF Search, Hits
  <2>5. record'[r].tags # record[r].tags
    BY <1>1, <2>3, <2>4
  <2>6. PICK d \in Removals :
          /\ removal[d].pc = "memory" /\ record[r].pc = "stored"
          /\ Reworked(record[r], record'[r], removal[d].team, removal[d].target)
    BY <1>1, <2>1, <2>5, TagsChange
  <2>7. CASE record'[r].tags = {}
    BY <2>3, <2>6, <2>7 DEF Reworked
  <2>8. CASE record'[r].tags \cap RecallScope(u)' # {}
    <3>1. PICK t \in record'[r].tags \ record[r].tags : t \in RecallScope(u)
      BY <1>1, <2>3, <2>8
    <3> QED BY <2>6, <3>1 DEF Reworked
  <2> QED BY <2>4, <2>7, <2>8
<1>2. MemoryInv /\ MemoryInv' /\ [MemoryNext]_mvars =>
        [\A r \in Stored, u \in Users : r \in Search(u)' /\ r \notin Search(u) =>
           \/ RecallScope(u)' \ RecallScope(u) # {}
           \/ \E d \in Removals : Shows(d, r, u)]_mvars
  BY <1>1
<1> QED BY <1>2, MemoryInductive, PTL DEF MemorySpec, DeletionExposesOnlyItsOwn

=============================================================================
