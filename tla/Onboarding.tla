----------------------------- MODULE Onboarding -----------------------------
(***************************************************************************)
(* The lifecycle of one account across the member registry, the token      *)
(* registry, the invite store and its team membership, as the handlers     *)
(* that drive it: the console API (src/internal/server/                    *)
(* console_api_users.go), the operator's self-invite (selfinvite.go, its   *)
(* mail in src/internal/console/invite.go) and the agent's RPCs Unwrap and *)
(* ReportActivation (grpc.go).                                             *)
(*                                                                         *)
(* No lock spans a handler: each is a sequence of store calls, and every   *)
(* store call is one atomic step here (the modules Invites and Tokens show *)
(* what that atomicity rests on).  Handlers interleave at every call.  A   *)
(* store call may be refused (its transaction did not commit; nothing      *)
(* changed), a mail may fail, and the daemon may crash and restart.        *)
(*                                                                         *)
(* One email is modelled.  Member ids and secrets are numbered in the      *)
(* order they are drawn.  Tokens minted here never expire, and no          *)
(* production path disables a member.                                      *)
(***************************************************************************)
EXTENDS Naturals, Sequences, FiniteSets

CONSTANTS
  Admins,       \* concurrent console requests
  Agents,       \* concurrent agent RPCs
  MaxIds,       \* bound on members ever created
  MaxSecrets,   \* bound on tokens ever minted
  MaxFaults,    \* bound on refused store calls and failed mails
  MaxCrashes    \* bound on daemon crashes

ASSUME OnboardingAssumption ==
  /\ IsFiniteSet(Admins) /\ IsFiniteSet(Agents) /\ Admins \cap Agents = {}
  /\ MaxIds \in Nat /\ MaxSecrets \in Nat /\ MaxFaults \in Nat /\ MaxCrashes \in Nat

VARIABLES
  member,     \* the registry row of the email
  token,      \* the token row of the email
  codes,      \* the invites in issue order
  grants,     \* member ids with a direct membership of the team
  req,        \* the requests in flight and their local variables
  added,      \* number of member ids drawn
  minted,     \* number of secrets drawn
  faults,
  crashes,
  held,       \* secrets an Unwrap returned to an agent
  deleted,    \* history: ids whose delete was reported done
  undone      \* history: ids a failed request created and rolled back

stores == <<member, token, codes, grants>>
ledger == <<added, minted, crashes>>
vars == <<stores, req, ledger, faults, held, deleted, undone>>

-----------------------------------------------------------------------------
Requests == Admins \cup Agents

NoMember == [id |-> 0, status |-> "none", ended |-> FALSE]
NoToken == [secret |-> 0, for |-> 0, activated |-> FALSE]

\* Member ids and secrets, in the order they are drawn.
Ids == 1..MaxIds
Secrets == 1..MaxSecrets

\* The member statuses; disabled is unreachable (nothing calls Update).
MemberStatuses == {"registered", "invited", "active"}

Member == [id : Ids, status : MemberStatuses, ended : BOOLEAN]

\* for is history: the member the secret was minted for.
Token == [secret : Secrets, for : Ids, activated : BOOLEAN]

Kinds == {"none", "invite", "resend", "self", "cancel", "delete", "deactivate",
          "redeem", "report"}

\* aged is a pending row past its expiry; out: an agent may know the handle.
\* outcome and by are history: what became of the code, and the kind of request that
\* abandoned it, which is to end with neither a mail nor a try to void it.
Code == [id : Ids, secret : Secrets, out : BOOLEAN, by : Kinds,
         outcome : {"open", "sent", "abandoned", "unvoided", "crashed"},
         status : {"pending", "aged", "consumed", "revoked"}]

Idle == [pc |-> "idle", kind |-> "none", m |-> NoMember, isNew |-> FALSE,
         wasOnline |-> FALSE, rotated |-> FALSE, secret |-> 0, code |-> 0]

\* The calls a console request may be about to make, and those of an RPC.
MintingCalls == {"add", "conflict", "grant", "needsToken", "needsCode", "wasOnline",
                 "rotated", "selfRevoke", "mint"}
AdminCalls == MintingCalls \cup
  {"idle", "issue", "unmint", "advance", "mail", "pin", "selfMail", "voidAdvance",
   "voidMail", "undoGrant", "undoMember", "voidAll", "delToken", "delGrants", "delCodes",
   "delMember", "check", "endSession", "stampEnd"}
AgentCalls == {"idle", "unwrap", "activate", "mark"}

Request == [pc : AdminCalls \cup AgentCalls, kind : Kinds, m : Member \cup {NoMember},
            isNew : BOOLEAN, wasOnline : BOOLEAN, rotated : BOOLEAN,
            secret : Secrets \cup {0}, code : Secrets \cup {0}]

\* Every variable has its type; a code is issued for a minted secret only.
TypeOK ==
  /\ member \in Member \cup {NoMember}
  /\ token \in Token \cup {NoToken}
  /\ codes \in Seq(Code) /\ Len(codes) <= minted
  /\ grants \subseteq Ids
  /\ req \in [Requests -> Request]
  /\ added \in 0..MaxIds /\ minted \in 0..MaxSecrets
  /\ faults \in 0..MaxFaults /\ crashes \in 0..MaxCrashes
  /\ held \subseteq 1..minted
  /\ deleted \subseteq 1..added /\ undone \subseteq 1..added

Init ==
  /\ member = NoMember /\ token = NoToken /\ codes = <<>> /\ grants = {}
  /\ req = [r \in Requests |-> Idle]
  /\ added = 0 /\ minted = 0 /\ faults = 0 /\ crashes = 0
  /\ held = {} /\ deleted = {} /\ undone = {}

-----------------------------------------------------------------------------
(* The vocabulary of a handler step                                        *)

At(r, pc) == req[r].pc = pc
Goto(r, pc) == req' = [req EXCEPT ![r].pc = pc]
Done(r) == req' = [req EXCEPT ![r] = Idle]

\* A store call is refused or a mail fails.
Fault == faults < MaxFaults /\ faults' = faults + 1

\* Bounds: a request starts only if it can draw its id and its secret.
CanMint == minted + Cardinality({r \in Admins : req[r].pc \in MintingCalls}) < MaxSecrets
CanAdd == added + Cardinality({r \in Admins : req[r].pc = "add"}) < MaxIds

Present(id) == member # NoMember /\ member.id = id

\* LatestByMember and invitePendingLive.
OfMember(id) == {k \in DOMAIN codes : codes[k].id = id}
Latest(id) == CHOOSE k \in OfMember(id) : \A j \in OfMember(id) : j <= k
HasLiveCode(id) == OfMember(id) # {} /\ codes[Latest(id)].status = "pending"

\* RevokeAllPendingForMember.
AllVoided(id) ==
  [k \in DOMAIN codes |-> IF codes[k].id = id /\ codes[k].status = "pending"
                            THEN [codes[k] EXCEPT !.status = "revoked"] ELSE codes[k]]

\* Where issueCode and IssueSelfInvite go on failure.
AfterFailure(r) ==
  CASE req[r].kind = "invite" -> "undoGrant"
    [] req[r].kind = "self" /\ req[r].isNew -> "undoMember"
    [] OTHER -> "idle"

Fail(r) == IF AfterFailure(r) = "idle" THEN Done(r) ELSE Goto(r, AfterFailure(r))

-----------------------------------------------------------------------------
(* Requests begin                                                          *)

Begin(r, kind, pc) ==
  /\ At(r, "idle")
  /\ req' = [req EXCEPT ![r] = [Idle EXCEPT !.pc = pc, !.kind = kind, !.m = member]]
  /\ UNCHANGED <<stores, ledger, faults, held, deleted, undone>>

\* resendInvitation, cancelInvitation, usersDeleteBatch and userSessionDeactivate
\* look the member up first; an unknown one is 404.
Resend(r) == member # NoMember /\ CanMint /\ Begin(r, "resend", "wasOnline")
Cancel(r) == member # NoMember /\ Begin(r, "cancel", "voidAll")
Delete(r) == member # NoMember /\ Begin(r, "delete", "delToken")
Deactivate(r) == member # NoMember /\ Begin(r, "deactivate", "check")
UnknownUser(r) == member = NoMember /\ At(r, "idle") /\ UNCHANGED vars

\* createInvitation up to GetByEmail, and IssueSelfInvite's first lookup.
Invite(r) ==
  /\ CanMint /\ (member = NoMember => CanAdd)
  /\ Begin(r, "invite", IF member = NoMember THEN "add" ELSE "conflict")
SelfInvite(r) ==
  /\ CanMint /\ (member = NoMember => CanAdd)
  /\ Begin(r, "self", IF member = NoMember THEN "add" ELSE "selfRevoke")

-----------------------------------------------------------------------------
(* Members: the calls of the registry                                      *)

\* Mutant: a member starts out as invited.
NewMemberInvited == [id |-> added + 1, status |-> "invited", ended |-> FALSE]

\* Add enters the lifecycle at registered.
NewMember == [id |-> added + 1, status |-> "registered", ended |-> FALSE]

\* members.Add; a duplicate email or a refusal ends the request.
AddMember(r) ==
  /\ At(r, "add")
  /\ \/ /\ member = NoMember
        /\ member' = NewMember
        /\ added' = added + 1
        /\ req' = [req EXCEPT ![r].m = member', ![r].isNew = TRUE,
                              ![r].pc = IF req[r].kind = "invite" THEN "grant" ELSE "mint"]
        /\ UNCHANGED faults
     \/ /\ member # NoMember /\ Done(r)
        /\ UNCHANGED <<member, added, faults>>
     \/ /\ Fault /\ Done(r)
        /\ UNCHANGED <<member, added>>
  /\ UNCHANGED <<token, codes, grants, minted, crashes, held, deleted, undone>>

\* After issuing: an online member keeps its status, a copy that says active (and a
\* self-invite) calls Reinvite, anything else MarkInvited.
KeepsStatus(r) == req[r].kind # "self" /\ req[r].wasOnline
Reinvites(r) == req[r].kind = "self" \/ (~req[r].wasOnline /\ req[r].m.status = "active")

\* The call is accepted: the member still exists, and MarkInvited wants it
\* registered or invited.
AdvanceOK(r) ==
  KeepsStatus(r) \/ (Present(req[r].m.id) /\ (Reinvites(r) \/ member.status # "active"))

\* The call writes a row; MarkInvited of an invited member does not.
WritesStatus(r) ==
  ~KeepsStatus(r) /\ AdvanceOK(r) /\ (Reinvites(r) \/ member.status = "registered")

\* Mutant: a member invited again counts as active at once.
StatusAfterActive(r) == IF Reinvites(r) THEN member.status ELSE "active"

\* The status Reinvite and MarkInvited write.
StatusAfter(r) == IF Reinvites(r) \/ member.status = "registered" THEN "invited" ELSE member.status

\* Only Reinvite clears SessionExpiredAt.
Advance(r) ==
  /\ At(r, "advance")
  /\ \/ /\ AdvanceOK(r)
        /\ member' = IF WritesStatus(r)
                        THEN [member EXCEPT !.status = StatusAfter(r),
                                            !.ended = IF Reinvites(r) THEN FALSE ELSE @]
                        ELSE member
        /\ Goto(r, IF req[r].kind = "self" THEN "pin" ELSE "mail")
        /\ UNCHANGED faults
     \/ /\ ~AdvanceOK(r) /\ Goto(r, "voidAdvance")
        /\ UNCHANGED <<member, faults>>
     \/ /\ WritesStatus(r)
        /\ Fault /\ Goto(r, "voidAdvance")
        /\ UNCHANGED member
  /\ UNCHANGED <<token, codes, grants, ledger, held, deleted, undone>>

\* rollbackInvitation and dropIfNew: members.Remove, its error ignored.
UndoMember(r) ==
  /\ At(r, "undoMember")
  /\ Done(r)
  /\ undone' = undone \cup {req[r].m.id}
  /\ \/ /\ member' = IF Present(req[r].m.id) THEN NoMember ELSE member
        /\ UNCHANGED faults
     \/ /\ Fault /\ UNCHANGED member
  /\ UNCHANGED <<token, codes, grants, ledger, held, deleted>>

-----------------------------------------------------------------------------
(* createInvitation: membership and the decision to send a code            *)

\* 409 when the existing member already is on the team.
Conflict(r) ==
  /\ At(r, "conflict")
  /\ IF req[r].m.id \in grants THEN Done(r) ELSE Goto(r, "grant")
  /\ UNCHANGED <<stores, ledger, faults, held, deleted, undone>>

\* groups.Grant; it checks the id's format, not that the member exists.
Grant(r) ==
  /\ At(r, "grant")
  /\ \/ /\ grants' = grants \cup {req[r].m.id}
        /\ Goto(r, "needsToken")
        /\ UNCHANGED faults
     \/ /\ Fault /\ UNCHANGED grants
        /\ IF req[r].isNew THEN Goto(r, "undoMember") ELSE Done(r)
  /\ UNCHANGED <<member, token, codes, ledger, held, deleted, undone>>

\* needsCode reads the token registry, then the invites; m is the copy from the start.
NeedsToken(r) ==
  /\ At(r, "needsToken")
  /\ IF req[r].m.status = "active" /\ token # NoToken THEN Done(r) ELSE Goto(r, "needsCode")
  /\ UNCHANGED <<stores, ledger, faults, held, deleted, undone>>

NeedsCode(r) ==
  /\ At(r, "needsCode")
  /\ IF HasLiveCode(req[r].m.id) THEN Done(r) ELSE Goto(r, "wasOnline")
  /\ UNCHANGED <<stores, ledger, faults, held, deleted, undone>>

\* rollbackInvitation: RevokeDirectGrant, its error ignored.
UndoGrant(r) ==
  /\ At(r, "undoGrant")
  /\ \/ grants' = grants \ {req[r].m.id} /\ UNCHANGED faults
     \/ Fault /\ UNCHANGED grants
  /\ IF req[r].isNew THEN Goto(r, "undoMember") ELSE Done(r)
  /\ UNCHANGED <<member, token, codes, ledger, held, deleted, undone>>

-----------------------------------------------------------------------------
(* issueCode and IssueSelfInvite                                           *)

\* The two reads of issueCode before it mints.
WasOnline(r) ==
  /\ At(r, "wasOnline")
  /\ req' = [req EXCEPT ![r].pc = "rotated",
                        ![r].wasOnline = (req[r].m.status = "active" /\ token # NoToken)]
  /\ UNCHANGED <<stores, ledger, faults, held, deleted, undone>>

Rotated(r) ==
  /\ At(r, "rotated")
  /\ req' = [req EXCEPT ![r].pc = "mint", ![r].rotated = (token # NoToken)]
  /\ UNCHANGED <<stores, ledger, faults, held, deleted, undone>>

\* IssueSelfInvite clears the prior token of an existing member.
SelfRevoke(r) ==
  /\ At(r, "selfRevoke")
  /\ \/ token' = NoToken /\ Goto(r, "mint") /\ UNCHANGED faults
     \/ token # NoToken /\ Fault /\ Done(r) /\ UNCHANGED token
  /\ UNCHANGED <<member, codes, grants, ledger, held, deleted, undone>>

\* RotateToken needs a token, AddToken needs none: another request may have revoked
\* or minted one since the read.
Mint(r) ==
  /\ At(r, "mint")
  /\ \/ /\ req[r].rotated <=> token # NoToken
        /\ token' = [secret |-> minted + 1, for |-> req[r].m.id, activated |-> FALSE]
        /\ minted' = minted + 1
        /\ req' = [req EXCEPT ![r].pc = "issue", ![r].secret = minted + 1]
        /\ UNCHANGED faults
     \/ /\ ~(req[r].rotated <=> token # NoToken) /\ Fail(r)
        /\ UNCHANGED <<token, minted, faults>>
     \/ /\ Fault /\ Fail(r)
        /\ UNCHANGED <<token, minted>>
  /\ UNCHANGED <<member, codes, grants, added, crashes, held, deleted, undone>>

\* Mutant: the insert is retried after it had committed.
EnvelopedTwice(r) ==
  LET env == [id |-> req[r].m.id, secret |-> req[r].secret, out |-> FALSE,
              by |-> "none", outcome |-> "open", status |-> "pending"]
  IN  codes \o <<env, env>>

\* invites.Issue: the new envelope is the latest of its member.
Enveloped(r) ==
  Append(codes, [id |-> req[r].m.id, secret |-> req[r].secret, out |-> FALSE,
                 by |-> "none", outcome |-> "open", status |-> "pending"])

Issue(r) ==
  /\ At(r, "issue")
  /\ \/ /\ codes' = Enveloped(r)
        /\ req' = [req EXCEPT ![r].pc = "advance", ![r].code = Len(codes')]
        /\ UNCHANGED faults
     \/ /\ Fault /\ UNCHANGED codes
        /\ IF req[r].rotated THEN Fail(r) ELSE Goto(r, "unmint")
  /\ UNCHANGED <<member, token, grants, ledger, held, deleted, undone>>

\* Compensation: RevokeToken of whatever token the email now has, error ignored.
Unmint(r) ==
  /\ At(r, "unmint")
  /\ \/ token' = NoToken /\ UNCHANGED faults
     \/ Fault /\ UNCHANGED token
  /\ Fail(r)
  /\ UNCHANGED <<member, codes, grants, ledger, held, deleted, undone>>

\* SendInvite.  A mail reported as failed may have been delivered all the same.
Mail(r) ==
  /\ At(r, "mail")
  /\ \/ /\ codes' = [codes EXCEPT ![req[r].code].outcome = "sent", ![req[r].code].out = TRUE]
        /\ Done(r) /\ UNCHANGED faults
     \/ /\ Fault /\ Goto(r, "voidMail")
        /\ \E late \in BOOLEAN : codes' = [codes EXCEPT ![req[r].code].out = late]
  /\ UNCHANGED <<member, token, grants, ledger, held, deleted, undone>>

\* A self-invite that fails once its member has been advanced undoes nothing: its code
\* stays as it is, in a mail that may be on its way or in none.
Abandoned(r, out) ==
  [codes EXCEPT ![req[r].code] = [@ EXCEPT !.outcome = "abandoned", !.by = req[r].kind,
                                           !.out = out]]

\* The self-invite resolves the CA pin; failing that, it returns an error and
\* leaves everything in place.
Pin(r) ==
  /\ At(r, "pin")
  /\ \/ Goto(r, "selfMail") /\ UNCHANGED <<codes, faults>>
     \/ Fault /\ Done(r) /\ codes' = Abandoned(r, codes[req[r].code].out)
  /\ UNCHANGED <<member, token, grants, ledger, held, deleted, undone>>

\* handleInvite encodes the registration string and mails it; when either fails it
\* answers with the error and undoes nothing of what IssueSelfInvite did.
SelfMail(r) ==
  /\ At(r, "selfMail")
  /\ \/ /\ codes' = [codes EXCEPT ![req[r].code].outcome = "sent", ![req[r].code].out = TRUE]
        /\ UNCHANGED faults
     \/ Fault /\ \E late \in BOOLEAN : codes' = Abandoned(r, late)
  /\ Done(r)
  /\ UNCHANGED <<member, token, grants, ledger, held, deleted, undone>>

\* Mutant: only the code of a member created here is voided.
VoidForgets(r) ==
  /\ req[r].pc \in {"voidAdvance", "voidMail"}
  /\ \/ /\ codes' = IF req[r].isNew /\ codes[req[r].code].status = "pending"
                      THEN [codes EXCEPT ![req[r].code].status = "revoked"] ELSE codes
        /\ UNCHANGED faults
     \/ Fault /\ codes' = [codes EXCEPT ![req[r].code].outcome = "unvoided"]
  /\ IF At(r, "voidAdvance") /\ ~req[r].rotated THEN Goto(r, "unmint") ELSE Fail(r)
  /\ UNCHANGED <<member, token, grants, ledger, held, deleted, undone>>

\* RevokePending of the request's own code, error ignored; a code that was redeemed
\* meanwhile stays consumed.
Void(r) ==
  /\ req[r].pc \in {"voidAdvance", "voidMail"}
  /\ \/ /\ codes' = IF codes[req[r].code].status = "pending"
                      THEN [codes EXCEPT ![req[r].code].status = "revoked"] ELSE codes
        /\ UNCHANGED faults
     \/ Fault /\ codes' = [codes EXCEPT ![req[r].code].outcome = "unvoided"]
  /\ IF At(r, "voidAdvance") /\ ~req[r].rotated THEN Goto(r, "unmint") ELSE Fail(r)
  /\ UNCHANGED <<member, token, grants, ledger, held, deleted, undone>>

-----------------------------------------------------------------------------
(* cancelInvitation, usersDeleteBatch, userSessionDeactivate               *)

VoidAll(r) ==
  /\ At(r, "voidAll")
  /\ \/ codes' = AllVoided(req[r].m.id) /\ UNCHANGED faults
     \/ Fault /\ UNCHANGED codes
  /\ Done(r)
  /\ UNCHANGED <<member, token, grants, ledger, held, deleted, undone>>

\* Mutant: a refused revocation does not stop the cascade.
DeleteTokenGoesOn(r) ==
  /\ At(r, "delToken")
  /\ \/ token' = NoToken /\ UNCHANGED faults
     \/ Fault /\ UNCHANGED token
  /\ Goto(r, "delGrants")
  /\ UNCHANGED <<member, codes, grants, ledger, held, deleted, undone>>

\* The delete cascade; a refusal stops it where it is.
DeleteToken(r) ==
  /\ At(r, "delToken")
  /\ \/ token' = NoToken /\ Goto(r, "delGrants") /\ UNCHANGED faults
     \/ token # NoToken /\ Fault /\ Done(r) /\ UNCHANGED token
  /\ UNCHANGED <<member, codes, grants, ledger, held, deleted, undone>>

DeleteGrants(r) ==
  /\ At(r, "delGrants")
  /\ \/ grants' = grants \ {req[r].m.id} /\ Goto(r, "delCodes") /\ UNCHANGED faults
     \/ Fault /\ Done(r) /\ UNCHANGED grants
  /\ UNCHANGED <<member, token, codes, ledger, held, deleted, undone>>

DeleteCodes(r) ==
  /\ At(r, "delCodes")
  /\ \/ codes' = AllVoided(req[r].m.id) /\ Goto(r, "delMember") /\ UNCHANGED faults
     \/ Fault /\ Done(r) /\ UNCHANGED codes
  /\ UNCHANGED <<member, token, grants, ledger, held, deleted, undone>>

DeleteMember(r) ==
  /\ At(r, "delMember")
  /\ Done(r)
  /\ \/ /\ Present(req[r].m.id)
        /\ member' = NoMember
        /\ deleted' = deleted \cup {req[r].m.id}
        /\ UNCHANGED faults
     \/ /\ ~Present(req[r].m.id)
        /\ UNCHANGED <<member, deleted, faults>>
     \/ Fault /\ UNCHANGED <<member, deleted>>
  /\ UNCHANGED <<token, codes, grants, ledger, held, undone>>

\* statuses: online is an active member with an activated token.
CheckSession(r) ==
  /\ At(r, "check")
  /\ IF req[r].m.status = "active" /\ token.activated THEN Goto(r, "endSession") ELSE Done(r)
  /\ UNCHANGED <<stores, ledger, faults, held, deleted, undone>>

EndSession(r) ==
  /\ At(r, "endSession")
  /\ \/ /\ token # NoToken /\ token' = NoToken
        /\ Goto(r, "stampEnd") /\ UNCHANGED faults
     \/ token = NoToken /\ Done(r) /\ UNCHANGED <<token, faults>>
     \/ Fault /\ Done(r) /\ UNCHANGED token
  /\ UNCHANGED <<member, codes, grants, ledger, held, deleted, undone>>

\* SetSessionExpired; an error costs only the timestamp.
StampEnd(r) ==
  /\ At(r, "stampEnd")
  /\ Done(r)
  /\ \/ /\ member' = IF Present(req[r].m.id) THEN [member EXCEPT !.ended = TRUE] ELSE member
        /\ UNCHANGED faults
     \/ Fault /\ UNCHANGED member
  /\ UNCHANGED <<token, codes, grants, ledger, held, deleted, undone>>

-----------------------------------------------------------------------------
(* The agent                                                               *)

\* Unwrap: Lookup (the disabled check reads a status nobody has).
Redeem(a, k) ==
  /\ At(a, "idle")
  /\ codes[k].out /\ codes[k].status = "pending"
  /\ req' = [req EXCEPT ![a] = [Idle EXCEPT !.pc = "unwrap", !.kind = "redeem", !.code = k]]
  /\ UNCHANGED <<stores, ledger, faults, held, deleted, undone>>

\* invites.Unwrap burns the code.
Unwrap(a) ==
  /\ At(a, "unwrap")
  /\ LET k == req[a].code IN
       \/ /\ codes[k].status = "pending"
          /\ codes' = [codes EXCEPT ![k].status = "consumed"]
          /\ req' = [req EXCEPT ![a].pc = "activate", ![a].secret = codes[k].secret]
          /\ UNCHANGED faults
       \/ codes[k].status # "pending" /\ Done(a) /\ UNCHANGED <<codes, faults>>
       \/ Fault /\ Done(a) /\ UNCHANGED codes
  /\ UNCHANGED <<member, token, grants, ledger, held, deleted, undone>>

\* members.Activate, then the token is returned; without it the code is lost.
Activate(a) ==
  /\ At(a, "activate")
  /\ Done(a)
  /\ LET id == codes[req[a].code].id
         ok == Present(id) /\ member.status # "registered"
     IN \/ /\ ok
           /\ member' = [member EXCEPT !.status = "active"]
           /\ held' = held \cup {req[a].secret}
           /\ UNCHANGED faults
        \/ ~ok /\ UNCHANGED <<member, held, faults>>
        \/ ok /\ member.status # "active" /\ Fault /\ UNCHANGED <<member, held>>
  /\ UNCHANGED <<token, codes, grants, ledger, deleted, undone>>

\* ReportActivation: Validate the presented secret, then MarkActivated whatever
\* token the email has.
Report(a) ==
  /\ At(a, "idle")
  /\ token.secret \in held
  /\ req' = [req EXCEPT ![a] = [Idle EXCEPT !.pc = "mark", !.kind = "report"]]
  /\ UNCHANGED <<stores, ledger, faults, held, deleted, undone>>

Mark(a) ==
  /\ At(a, "mark")
  /\ Done(a)
  /\ \/ /\ token' = IF token = NoToken THEN token ELSE [token EXCEPT !.activated = TRUE]
        /\ UNCHANGED faults
     \/ Fault /\ UNCHANGED token
  /\ UNCHANGED <<member, codes, grants, ledger, held, deleted, undone>>

-----------------------------------------------------------------------------
\* A pending code passes its expiry.
Age(k) ==
  /\ codes[k].status = "pending"
  /\ codes' = [codes EXCEPT ![k].status = "aged"]
  /\ UNCHANGED <<member, token, grants, req, ledger, faults, held, deleted, undone>>

\* The daemon dies and restarts: requests are gone, every committed row is loaded.
Crash ==
  /\ crashes < MaxCrashes
  /\ crashes' = crashes + 1
  /\ req' = [r \in Requests |-> Idle]
  /\ codes' = [k \in DOMAIN codes |-> IF \E r \in Admins : req[r].code = k
                                        THEN [codes[k] EXCEPT !.outcome = "crashed"]
                                        ELSE codes[k]]
  /\ UNCHANGED <<member, token, grants, added, minted, faults, held, deleted, undone>>

AdminStart(r) ==
  \/ Resend(r) \/ Cancel(r) \/ Delete(r) \/ Deactivate(r) \/ UnknownUser(r)
  \/ Invite(r) \/ SelfInvite(r)

AdminStep(r) ==
  \/ AddMember(r) \/ Advance(r) \/ UndoMember(r)
  \/ Conflict(r) \/ Grant(r) \/ NeedsToken(r) \/ NeedsCode(r) \/ UndoGrant(r)
  \/ WasOnline(r) \/ Rotated(r) \/ SelfRevoke(r) \/ Mint(r) \/ Issue(r) \/ Unmint(r)
  \/ Mail(r) \/ Pin(r) \/ SelfMail(r) \/ Void(r)
  \/ VoidAll(r) \/ DeleteToken(r) \/ DeleteGrants(r) \/ DeleteCodes(r) \/ DeleteMember(r)
  \/ CheckSession(r) \/ EndSession(r) \/ StampEnd(r)

AgentStep(a) ==
  \/ \E k \in DOMAIN codes : Redeem(a, k)
  \/ Unwrap(a) \/ Activate(a) \/ Report(a) \/ Mark(a)

Next ==
  \/ \E r \in Admins : AdminStart(r) \/ AdminStep(r)
  \/ \E a \in Agents : AgentStep(a)
  \/ \E k \in DOMAIN codes : Age(k)
  \/ Crash

Spec == Init /\ [][Next]_vars

-----------------------------------------------------------------------------
(* Properties                                                              *)

\* Nobody is active who did not redeem a code of their own: some invite of the very
\* member id was burned, whatever requests and crashes came between.
ActiveWasRedeemed ==
  member.status = "active" => \E k \in OfMember(member.id) : codes[k].status = "consumed"

\* A member past registered has an invite on disk ("the member state only ever
\* reflects a real, persisted invite", MarkInvited).
InvitedHasCode == member.status \in {"invited", "active"} => OfMember(member.id) # {}

\* A member reported as deleted has left nothing: no membership, no redeemable code,
\* no live credential (usersDeleteBatch: "a pending code must not outlive its
\* member").
DeleteIsComplete ==
  \A id \in deleted :
    /\ id \notin grants
    /\ \A k \in OfMember(id) : codes[k].status # "pending"
    /\ token.for # id

\* When no request is in flight, the email's credential belongs to the member that
\* is registered ("a failed invite leaves no half-provisioned identity",
\* rollbackInvitation).
NoOrphanToken ==
  (\A r \in Admins : At(r, "idle")) /\ token # NoToken => Present(token.for)

\* A member that an invitation created and rolled back is gone with its membership and
\* its codes; and a code that can be redeemed was announced, or is still in the hands of
\* the request that issued it, unless RevokePending was refused or the daemon died.  A
\* self-invite that fails after its member was advanced (no pin, no mail) is the one
\* request that undoes nothing: handleInvite just answers, and its code stays.
FailedInviteLeavesNothing ==
  /\ \A id \in undone :
       /\ ~Present(id) /\ id \notin grants
       /\ \A k \in OfMember(id) : codes[k].status # "pending"
  /\ \A k \in DOMAIN codes : codes[k].status = "pending" =>
       \/ codes[k].outcome \in {"sent", "unvoided", "crashed"}
       \/ codes[k].outcome = "abandoned" /\ codes[k].by = "self"
       \/ \E r \in Admins : req[r].code = k
=============================================================================
