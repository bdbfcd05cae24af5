----------------------------- MODULE TeamMemory -----------------------------
(***************************************************************************)
(* Teams and their memory: the group store (module Groups) composed with   *)
(* the records of the tag engine, the capture and recall RPCs              *)
(* (src/internal/server/grpc.go) and the deletion of a team                *)
(* (src/internal/server/console_api_teamdelete.go).                        *)
(*                                                                         *)
(* The engine (runespace) is external: it keeps a set of tags with every   *)
(* record and is modelled by what src/internal/crypto/keys.go expects of   *)
(* it.  No lock spans a store call and an engine call, so capture is two   *)
(* steps (the tags are judged, then the record is stored) and a deletion   *)
(* up to four (two lookups, the memory, the team).  Teams are named by id. *)
(***************************************************************************)
EXTENDS Groups

CONSTANTS
  Records,    \* ids of captured records, each captured once
  Removals,   \* concurrent DELETE /teams/{id} requests
  MayStrip    \* whether RemoveTag of the engine strips a record's last tag: what it may do

ASSUME TeamMemoryAssumption ==
  /\ IsFiniteSet(Records) /\ IsFiniteSet(Removals)
  /\ MayStrip \subseteq BOOLEAN /\ MayStrip # {}

VARIABLES
  record,     \* the captures: in flight, or stored with their tags
  removal     \* the deletions in flight

store == <<parent, name, direct, excluded, children, byName, request>>
mvars == <<store, record, removal>>

-----------------------------------------------------------------------------
NoRecord == [pc |-> "none", tags |-> {}, missed |-> FALSE]
NoRemoval == [pc |-> "idle"]

\* missed is history: the record got a tag of a team whose memory had already been
\* dealt with, or a purge met it with no other tag.
Record == [pc : {"none", "tagged", "stored"}, tags : SUBSET Groups, missed : BOOLEAN]
Removal == [pc : {"target", "memory", "delete"}, team : Groups, target : Groups \cup {Gone}]

MemoryInit ==
  /\ Init
  /\ record = [r \in Records |-> NoRecord]
  /\ removal = [d \in Removals |-> NoRemoval]

Stored == {r \in Records : record[r].pc = "stored"}

\* The memory of this team has been dealt with: its tag should not be given any more.
Handled(g) ==
  g \notin Live \/ \E d \in Removals : removal[d].pc = "delete" /\ removal[d].team = g

-----------------------------------------------------------------------------
(* The tag engine                                                          *)

\* A search returns the records that share a tag with its scope, and untagged ones.
Hits(scope) == {r \in Stored : record[r].tags = {} \/ record[r].tags \cap scope # {}}

\* RetagAll: every record tagged from is tagged to instead.
RetagAll(from, to) ==
  [r \in Records |->
     IF r \in Stored /\ from \in record[r].tags
       THEN [record[r] EXCEPT !.tags = (@ \ {from}) \cup {to}, !.missed = @ \/ Handled(to)]
       ELSE record[r]]

\* RemoveTag strips the tag from every record that has it.  What happens to a last tag
\* is the engine's own policy (keys.go leaves it to the SDK): the record keeps it and
\* nobody recalls it any more, or loses it and is public.
RemoveTag(tag, strips) ==
  [r \in Records |->
     IF r \notin Stored \/ tag \notin record[r].tags THEN record[r]
     ELSE [record[r] EXCEPT !.tags = IF @ = {tag} /\ ~strips THEN @ ELSE @ \ {tag},
                            !.missed = @ \/ record[r].tags = {tag}]]

-----------------------------------------------------------------------------
(* Capture and recall                                                      *)

\* Insert: the judge gives the tags; nobody without a write group gets any.
CaptureTags(r, u) ==
  /\ record[r].pc = "none"
  /\ AutoTags(u) # {}
  /\ record' = [record EXCEPT ![r].pc = "tagged", ![r].tags = AutoTags(u)]
  /\ UNCHANGED <<store, removal>>

\* Then the engine stores the record under them, whatever became of the teams.
CaptureStores(r) ==
  /\ record[r].pc = "tagged"
  /\ record' = [record EXCEPT ![r].pc = "stored",
                              ![r].missed = \E g \in record[r].tags : Handled(g)]
  /\ UNCHANGED <<store, removal>>

\* No engine is attached, or it refuses: nothing is stored and the agent may retry.
CaptureFails(r) ==
  /\ record[r].pc = "tagged"
  /\ record' = [record EXCEPT ![r] = NoRecord]
  /\ UNCHANGED <<store, removal>>

\* Search: the scope is judged anew for every request; an empty one becomes a tag that
\* no record has (publicOnlyScopeSentinel).
Search(u) == Hits(IF RecallScope(u) = {} THEN {Gone} ELSE RecallScope(u))

-----------------------------------------------------------------------------
(* deleteTeam                                                              *)

RemovalGoes(d, pc) == removal' = [removal EXCEPT ![d].pc = pc]
RemovalReplies(d) == removal' = [removal EXCEPT ![d] = NoRemoval]

\* TeamDetail of the team: it exists and has no children.  A target of Gone stands
\* for memoryAction=purge.  A request that names no existing team is refused without
\* effect; the one it names may be deleted before it is looked up.
DeleteChecks(d, g, to) ==
  /\ removal[d] = NoRemoval
  /\ children[g] = {}
  /\ removal' = [removal EXCEPT ![d] = [pc |-> IF to = Gone THEN "memory" ELSE "target",
                                        team |-> g, target |-> to]]
  /\ UNCHANGED <<store, record>>

\* TeamDetail of the target: it exists and is another team.
TargetChecks(d) ==
  /\ removal[d].pc = "target"
  /\ IF removal[d].target \in Live \ {removal[d].team}
       THEN RemovalGoes(d, "memory") ELSE RemovalReplies(d)
  /\ UNCHANGED <<store, record>>

\* Mutant of Reassigned: the arguments of RetagAll are swapped.
ReassignedBackwards(d, strips) ==
  IF removal[d].target = Gone THEN RemoveTag(removal[d].team, strips)
  ELSE RetagAll(removal[d].target, removal[d].team)

\* ReassignGroupTag or RemoveGroupTag.
Reassigned(d, strips) ==
  IF removal[d].target = Gone THEN RemoveTag(removal[d].team, strips)
  ELSE RetagAll(removal[d].team, removal[d].target)

MemoryHandled(d) ==
  /\ removal[d].pc = "memory"
  /\ \E strips \in MayStrip : record' = Reassigned(d, strips)
  /\ RemovalGoes(d, "delete")
  /\ UNCHANGED store

\* Mutant of MemoryFails: the error is logged and the deletion goes on.
MemoryFailsGoesOn(d) ==
  /\ removal[d].pc = "memory"
  /\ \E strips \in MayStrip : record' \in {record, Reassigned(d, strips)}
  /\ RemovalGoes(d, "delete")
  /\ UNCHANGED store

\* The engine is missing or answers with an error, which may come after the fact: the
\* request fails and nothing is deleted.
MemoryFails(d) ==
  /\ removal[d].pc = "memory"
  /\ \E strips \in MayStrip : record' \in {record, Reassigned(d, strips)}
  /\ RemovalReplies(d)
  /\ UNCHANGED store

DeleteSucceeds(d) ==
  /\ removal[d].pc = "delete"
  /\ removal[d].team \in Live
  /\ DeleteGroupWithMembers(removal[d].team)
  /\ RemovalReplies(d)
  /\ UNCHANGED record

\* The team is gone, got a child meanwhile, or the commit is refused.
DeleteRefused(d) ==
  /\ removal[d].pc = "delete"
  /\ RemovalReplies(d)
  /\ UNCHANGED <<store, record>>

-----------------------------------------------------------------------------
MemoryNext ==
  \/ \E g \in Groups, p \in Live \cup {Top}, n \in Names :
       CreateGroup(g, p, n) /\ UNCHANGED <<record, removal>>
  \/ \E u \in Users, g \in Live, r \in Roles :
       Grant(u, g, r) /\ UNCHANGED <<tree, request, record, removal>>
  \/ \E u \in Users, g \in Live : Revoke(u, g) /\ UNCHANGED <<record, removal>>
  \/ \E r \in Records :
       \/ \E u \in Users : CaptureTags(r, u)
       \/ CaptureStores(r) \/ CaptureFails(r)
  \/ \E d \in Removals :
       \/ \E g \in Live, to \in Live \cup {Gone} : DeleteChecks(d, g, to)
       \/ TargetChecks(d) \/ MemoryHandled(d) \/ MemoryFails(d)
       \/ DeleteSucceeds(d) \/ DeleteRefused(d)

MemorySpec == MemoryInit /\ [][MemoryNext]_mvars

-----------------------------------------------------------------------------
(* Properties                                                              *)

\* Deleting a team shows a record to somebody who could not recall it before in two cases
\* only: it has the tag of the team that is deleted, and is transferred to a team they can
\* read, or is purged of that tag, its only one, by an engine that strips a last tag.
\* Neither a failure half way, nor a second deletion, nor losing every membership does.
DeletionExposesOnlyItsOwn ==
  [][\A r \in Stored, u \in Users : r \in Search(u)' /\ r \notin Search(u) =>
       \/ RecallScope(u)' \ RecallScope(u) # {}
       \/ \E d \in Removals :
            /\ removal[d].pc = "memory"
            /\ removal[d].team \in record[r].tags
            /\ \/ removal[d].target \in RecallScope(u)
               \/ /\ removal[d].target = Gone /\ record[r].tags = {removal[d].team}
                  /\ TRUE \in MayStrip]_mvars

\* A record is left with no tag of a living team only by a race with the deletion or by a
\* purge of its only tag, kept or stripped: a record that was stored in time is never
\* stranded, whatever engine call or commit fails.
OnlyRacesStrand ==
  /\ record \in [Records -> Record]
  /\ removal \in [Removals -> Removal \cup {NoRemoval}]
  /\ \A r \in Stored :
       record[r].tags \cap Live = {} => record[r].missed
=============================================================================
