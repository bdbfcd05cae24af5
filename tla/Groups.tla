------------------------------- MODULE Groups -------------------------------
(***************************************************************************)
(* Teams and who may read and write in them: the group store and its       *)
(* judge (src/internal/groups/{store,judge,console}.go), with the console  *)
(* handlers that ask the store first and change it in a second call        *)
(* (src/internal/server/console_api.go, console_api_users.go).             *)
(*                                                                         *)
(* Every store call commits its transaction and then publishes to the maps *)
(* under one write lock, so a call is one step and parent, name, direct    *)
(* and excluded stand for the SQL rows and for their maps.  The indexes    *)
(* children and byName have no rows: they are maintained call by call and  *)
(* rebuilt by LoadFromDB at boot.  A refused call changes nothing and has  *)
(* no action.  Group ids are fresh UUIDs, never used twice.                *)
(***************************************************************************)
EXTENDS Naturals, FiniteSets

CONSTANTS
  Users,         \* person keys
  Groups,        \* group ids
  Names,         \* display names
  Requests,      \* concurrent console requests that change one membership
  Read, Write,   \* ranks of the roles: 0 is no role, edit ranks with write here
  MaxTreeDepth   \* levels a tree may have

ASSUME GroupsAssumption ==
  /\ IsFiniteSet(Groups) /\ Groups \cap {"top", "unborn", "gone"} = {}
  /\ "noname" \notin Names
  /\ Read \in Nat /\ Write \in Nat /\ 0 < Read /\ Read < Write
  /\ MaxTreeDepth \in Nat \ {0}

VARIABLES
  parent,     \* groups: the parent of each group
  name,       \* groups: its display name
  direct,     \* memberships: the rank a user holds on a group, 0 for no row
  excluded,   \* read_exclusions: groups a user no longer inherits
  children,   \* index: the groups below a group
  byName,     \* index: the groups with a name
  request     \* the console requests between their check and their reply

vars == <<parent, name, direct, excluded, children, byName, request>>
tree == <<parent, name, children, byName>>
grants == <<direct, excluded>>

-----------------------------------------------------------------------------
Top == "top"         \* ParentID "" of a root group
Unborn == "unborn"   \* an id not generated yet
Gone == "gone"       \* a deleted group
NoName == "noname"
Idle == [pc |-> "idle"]

Roles == {Read, Write}
Live == {g \in Groups : parent[g] \in Groups \cup {Top}}

\* Every variable has its type, and nobody is excluded from a group they hold.
TypeOK ==
  /\ parent \in [Groups -> Groups \cup {Top, Unborn, Gone}]
  /\ name \in [Groups -> Names \cup {NoName}]
  /\ direct \in [Users -> [Groups -> Roles \cup {0}]]
  /\ excluded \in [Users -> SUBSET Groups]
  /\ \A u \in Users : \A g \in excluded[u] : direct[u][g] = 0
  /\ children \in [Groups -> SUBSET Groups]
  /\ byName \in [Names -> SUBSET Groups]
  /\ request \in [Requests -> {Idle} \cup
                    [pc : {"add", "promote", "added"}, user : Users, group : Groups]]

Init ==
  /\ parent = [g \in Groups |-> Unborn]
  /\ name = [g \in Groups |-> NoName]
  /\ direct = [u \in Users |-> [g \in Groups |-> 0]]
  /\ excluded = [u \in Users |-> {}]
  /\ children = [g \in Groups |-> {}]
  /\ byName = [n \in Names |-> {}]
  /\ request = [q \in Requests |-> Idle]

-----------------------------------------------------------------------------
(* Walks over the tree                                                     *)

\* The groups an upward walk that starts at g visits: at most MaxTreeDepth.
Chain(start) ==
  LET up[n \in 0..MaxTreeDepth] ==
        [g \in Groups \cup {Top, Unborn, Gone} |->
           IF n = 0 \/ g \notin Live THEN {} ELSE {g} \cup up[n - 1][parent[g]]]
  IN  up[MaxTreeDepth][start]

\* depthLocked, and whether it finds the root in time.
Depth(g) == Cardinality(Chain(g))
DepthOK(g) == \E h \in Chain(g) : parent[h] = Top

\* collectSubtreeLocked: g and everything the children index reaches from it.
Subtree(start) ==
  LET below[n \in 0..Cardinality(Groups)] ==
        [g \in Groups |-> IF n = 0 THEN {g}
                          ELSE {g} \cup UNION {below[n - 1][c] : c \in children[g]}]
  IN  below[Cardinality(Groups)][start]

\* nameTakenBySiblingLocked: root groups are siblings of one another.
NameTaken(p, n, except) ==
  \E g \in (IF p = Top THEN {h \in Live : parent[h] = Top} ELSE children[p]) \ except :
    g \in Live /\ name[g] = n

-----------------------------------------------------------------------------
(* The judge: pure functions of the maps                                   *)

DirectGroups(u) == {g \in Live : direct[u][g] # 0}

\* Mutant of EffectiveRole: the exclusion is forgotten.
EffectiveRoleUncut(u, g) ==
  LET held == {direct[u][h] : h \in Chain(g)} \cup {0}
  IN  CHOOSE r \in held : \A s \in held : s <= r

\* effectiveRoleLocked: the strongest role held on the group or above it,
\* none on an excluded group that is not held directly.
EffectiveRole(u, g) ==
  LET held == {direct[u][h] : h \in Chain(g)} \cup {0}
  IN  IF direct[u][g] = 0 /\ g \in excluded[u] THEN 0
      ELSE CHOOSE r \in held : \A s \in held : s <= r

\* RecallScope (subtreeUnionLocked): what the user's searches may return.
RecallScope(u) ==
  (UNION {Subtree(g) : g \in DirectGroups(u)}) \ {g \in excluded[u] : direct[u][g] = 0}

\* groupAccessLocked: the groups the console lists as inherited.
Inherited(u) ==
  (UNION {Subtree(g) : g \in DirectGroups(u)}) \ (DirectGroups(u) \cup excluded[u])

\* inheritedSourceLocked: a group above g the user holds directly.
InheritsRead(u, g) ==
  /\ direct[u][g] = 0 /\ g \notin excluded[u]
  /\ \E h \in Chain(parent[g]) : direct[u][h] # 0

\* reachesByInheritanceLocked(user, g, g).
ReachesByInheritance(u, g) == \E h \in DirectGroups(u) \ {g} : g \in Subtree(h)

\* directWriteSetLocked (CaptureTargets): the groups a user may tag.
DirectWriteSet(u) == {g \in DirectGroups(u) : direct[u][g] >= Write}

HasWriteAncestor(u, g) == Chain(parent[g]) \cap DirectWriteSet(u) # {}

\* Mutant of AutoTags: every write group is tagged.
AutoTagsAll(u) == DirectWriteSet(u)

\* topMostDirectWriteLocked: the tags of an automatic capture.
AutoTags(u) == {g \in DirectWriteSet(u) : ~ HasWriteAncestor(u, g)}

-----------------------------------------------------------------------------
(* LoadFromDB                                                              *)

LoadChildren == [g \in Groups |-> {h \in Live : parent[h] = g}]
LoadByName == [n \in Names |-> {g \in Live : name[g] = n}]

\* The checks that make a boot fail: a parent or a membership without its group,
\* a cycle or a chain that is too long; and the UNIQUE(parent_id, name) of the table.
LoadAccepts ==
  /\ \A g \in Live : parent[g] \in Live \cup {Top} /\ DepthOK(g)
  /\ \A u \in Users, g \in Groups : direct[u][g] # 0 \/ g \in excluded[u] => g \in Live
  /\ \A g, h \in Live : g # h /\ parent[g] = parent[h] => name[g] # name[h]

-----------------------------------------------------------------------------
(* Store calls                                                             *)

\* Mutant of CreateGroup: the depth of the parent is tested, not that of the group.
CreateGroupTooDeep(g, p, n) ==
  /\ parent[g] = Unborn
  /\ p \in Live => DepthOK(p) /\ Depth(p) <= MaxTreeDepth
  /\ ~ NameTaken(p, n, {})
  /\ parent' = [parent EXCEPT ![g] = p]
  /\ name' = [name EXCEPT ![g] = n]
  /\ byName' = [byName EXCEPT ![n] = @ \cup {g}]
  /\ children' = IF p = Top THEN children ELSE [children EXCEPT ![p] = @ \cup {g}]
  /\ UNCHANGED <<grants, request>>

CreateGroup(g, p, n) ==
  /\ parent[g] = Unborn
  /\ p \in Live => DepthOK(p) /\ Depth(p) + 1 <= MaxTreeDepth
  /\ ~ NameTaken(p, n, {})
  /\ parent' = [parent EXCEPT ![g] = p]
  /\ name' = [name EXCEPT ![g] = n]
  /\ byName' = [byName EXCEPT ![n] = @ \cup {g}]
  /\ children' = IF p = Top THEN children ELSE [children EXCEPT ![p] = @ \cup {g}]
  /\ UNCHANGED <<grants, request>>

RenameGroup(g, n) ==
  /\ n # name[g] => ~ NameTaken(parent[g], n, {g})
  /\ name' = [name EXCEPT ![g] = n]
  /\ byName' = [m \in Names |-> IF m = n THEN byName[m] \cup {g} ELSE byName[m] \ {g}]
  /\ UNCHANGED <<parent, children, grants, request>>

\* The group's memberships go with it, and the exclusions on it (ON DELETE CASCADE
\* in the table, purgeExclusionsForGroupLocked in the map).
DeleteGroupWithMembers(g) ==
  /\ children[g] = {}
  /\ parent' = [parent EXCEPT ![g] = Gone]
  /\ name' = [name EXCEPT ![g] = NoName]
  /\ byName' = [byName EXCEPT ![name[g]] = @ \ {g}]
  /\ children' = IF parent[g] = Top THEN children
                 ELSE [children EXCEPT ![parent[g]] = @ \ {g}]
  /\ direct' = [u \in Users |-> [direct[u] EXCEPT ![g] = 0]]
  /\ excluded' = [u \in Users |-> excluded[u] \ {g}]
  /\ UNCHANGED request

\* Mutants of Grant: the exclusion stays; all the user's exclusions go.
GrantKeepsExclusion(u, g, r) ==
  /\ g \in Live
  /\ direct' = [direct EXCEPT ![u][g] = r]
  /\ UNCHANGED excluded

GrantLiftsAll(u, g, r) ==
  /\ g \in Live
  /\ direct' = [direct EXCEPT ![u][g] = r]
  /\ excluded' = [excluded EXCEPT ![u] = {}]

\* The role is set, and an exclusion on this group is lifted.
Grant(u, g, r) ==
  /\ g \in Live
  /\ direct' = [direct EXCEPT ![u][g] = r]
  /\ excluded' = [excluded EXCEPT ![u] = @ \ {g}]

\* The undo of a grant: the membership row and nothing else.
RevokeDirectGrant(u, g) ==
  /\ direct' = [direct EXCEPT ![u][g] = 0]
  /\ UNCHANGED excluded

\* Revoke: the membership goes, and the user is excluded if an inherited read would
\* be left.  With neither to do the answer is "no access" and nothing is written.
Revoke(u, g) ==
  LET needExclude == g \notin excluded[u] /\ ReachesByInheritance(u, g)
  IN  /\ direct[u][g] # 0 \/ needExclude
      /\ direct' = [direct EXCEPT ![u][g] = 0]
      /\ excluded' = [excluded EXCEPT ![u] = IF needExclude THEN @ \cup {g} ELSE @]
      /\ UNCHANGED <<tree, request>>

RemoveUser(u) ==
  /\ DirectGroups(u) \cup excluded[u] # {}
  /\ direct' = [direct EXCEPT ![u] = [g \in Groups |-> 0]]
  /\ excluded' = [excluded EXCEPT ![u] = {}]
  /\ UNCHANGED <<tree, request>>

-----------------------------------------------------------------------------
(* Requests that check in one store call and grant in the next             *)

Goto(q, pc, u, g) == request' = [request EXCEPT ![q] = [pc |-> pc, user |-> u, group |-> g]]
Reply(q) == request' = [request EXCEPT ![q] = Idle]

\* addTeamMember, userAddTeam, applyInvite: the user is not a direct member yet.
AddChecks(q, u, g) ==
  /\ request[q] = Idle
  /\ direct[u][g] = 0
  /\ Goto(q, "add", u, g)
  /\ UNCHANGED <<tree, grants>>

\* teamRolesBatch, userRolesBatch: a direct member, or one who inherits read.
PromoteChecks(q, u, g) ==
  /\ request[q] = Idle
  /\ direct[u][g] # 0 \/ InheritsRead(u, g)
  /\ Goto(q, "promote", u, g)
  /\ UNCHANGED <<tree, grants>>

\* The Grant that follows the check; adding a member then mails a code.
AddGrants(q, r) ==
  /\ request[q].pc = "add"
  /\ Grant(request[q].user, request[q].group, r)
  /\ Goto(q, "added", request[q].user, request[q].group)
  /\ UNCHANGED tree

PromoteGrants(q, r) ==
  /\ request[q].pc = "promote"
  /\ Grant(request[q].user, request[q].group, r)
  /\ Reply(q)
  /\ UNCHANGED tree

\* Grant refuses: the group was deleted after the check.
GrantRefused(q) ==
  /\ request[q].pc \in {"add", "promote"}
  /\ request[q].group \notin Live
  /\ Reply(q)
  /\ UNCHANGED <<tree, grants>>

\* The code was mailed, or none was needed.
AddSucceeds(q) ==
  /\ request[q].pc = "added"
  /\ Reply(q)
  /\ UNCHANGED <<tree, grants>>

\* The mail failed: the grant is undone (an error of the undo is dropped).
AddFails(q) ==
  /\ request[q].pc = "added"
  /\ IF request[q].group \in Live
       THEN RevokeDirectGrant(request[q].user, request[q].group)
       ELSE UNCHANGED grants
  /\ Reply(q)
  /\ UNCHANGED tree

Next ==
  \/ \E g \in Groups, p \in Live \cup {Top}, n \in Names : CreateGroup(g, p, n)
  \/ \E g \in Live, n \in Names : RenameGroup(g, n)
  \/ \E g \in Live : DeleteGroupWithMembers(g)
  \/ \E u \in Users, g \in Live : Revoke(u, g)
  \/ \E u \in Users : RemoveUser(u)
  \/ \E q \in Requests, u \in Users, g \in Live : AddChecks(q, u, g) \/ PromoteChecks(q, u, g)
  \/ \E q \in Requests, r \in Roles : AddGrants(q, r) \/ PromoteGrants(q, r)
  \/ \E q \in Requests : GrantRefused(q) \/ AddSucceeds(q) \/ AddFails(q)

Spec == Init /\ [][Next]_vars

-----------------------------------------------------------------------------
(* Properties                                                              *)

\* LoadFromDB accepts what the store wrote and rebuilds the indexes the daemon runs
\* with: no sequence of creates, renames, deletes and grants leaves a database whose
\* next boot fails, and a restart changes no answer.
RestartIsInvisible ==
  /\ LoadAccepts
  /\ children = LoadChildren
  /\ byName = LoadByName

\* The walks of the judge agree although some go up by parent and some down by the
\* children index: a user's searches reach a group exactly when they have an effective
\* role there, and exactly when the console shows the group as held or inherited.
JudgesAgree ==
  \A u \in Users, g \in Live :
    LET inScope == g \in RecallScope(u)
    IN  /\ inScope <=> EffectiveRole(u, g) # 0
        /\ inScope <=> direct[u][g] # 0 \/ g \in Inherited(u)
        /\ inScope <=> direct[u][g] # 0 \/ InheritsRead(u, g)

\* Automatic capture does not leak downwards: whoever holds only groups below one of
\* the author's write groups cannot recall the memory; and the author of a write group
\* always gets a tag that readers of that group's top see (CaptureTagSet refuses none).
CaptureStaysUp ==
  \A u \in Users :
    /\ \A w \in DirectWriteSet(u) : \A below \in Subtree(w) \ {w} :
         AutoTags(u) \cap Subtree(below) = {}
    /\ \A w \in DirectWriteSet(u) : \E t \in AutoTags(u) : w \in Subtree(t)

\* Access follows the grants: a read that was taken away does not come back by itself
\* (a group enters a user's recall scope only when a role on it, or on a group above it
\* that the user was not cut from below, is granted, or when the group is new), and
\* Revoke takes the group out of the scope whatever the user inherits, and no other group
\* when it was not held directly (a direct role takes what it passed down with it).
AccessFollowsGrants ==
  [][\A u \in Users :
       /\ \A g \in RecallScope(u)' \ RecallScope(u) :
            \/ parent[g] = Unborn
            \/ direct[u][g] = 0 /\ direct'[u][g] # 0
            \/ /\ g \notin excluded[u]
               /\ \E h \in Chain(parent[g]) : direct[u][h] = 0 /\ direct'[u][h] # 0
       /\ \A g \in Live :
            Revoke(u, g) => /\ g \notin RecallScope(u)'
                            /\ direct[u][g] = 0 => RecallScope(u)' = RecallScope(u) \ {g}]_vars
=============================================================================
