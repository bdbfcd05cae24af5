---------------------------- MODULE ConsoleLogin ----------------------------
(***************************************************************************)
(* Who may use the console and who administers it: the loopback login      *)
(* (src/internal/console/login.go), the claim of the console by its first  *)
(* account (owner.go), the cookie sessions (session.go), and the           *)
(* derivation of the organization admin at login and at boot (service.go). *)
(*                                                                         *)
(* The owner and the sessions are SQL rows; the login transactions and the *)
(* organization admin live in memory and are lost with the daemon.  A      *)
(* handler is a sequence of statements and cloud calls with no lock around *)
(* them.  The cloud is external.  Time is abstract: a session may lapse    *)
(* at any moment, and so may a login transaction.                          *)
(***************************************************************************)
EXTENDS Naturals, Sequences

CONSTANTS
  Accounts,     \* cloud accounts
  States,       \* the opaque state values of the logins that are started
  Browsers,     \* concurrent HTTP requests
  MaxFaults,    \* bound on statements the database refuses
  MaxCrashes    \* bound on crashes of the daemon

ASSUME ConsoleLoginAssumption ==
  /\ "none" \notin Accounts
  /\ MaxFaults \in Nat /\ MaxCrashes \in Nat

VARIABLES
  up,         \* the daemon serves
  owner,      \* console_owner: the account that claimed the console
  admin,      \* orgAdmin of the group store
  logins,     \* the login transactions by state
  signed,     \* cloud: the account that signed in for a state
  sessions,   \* console_session, in the order of creation
  req,        \* the requests in flight
  faults, crashes,
  unread      \* history: since the boot a failed read hid the claim

vars == <<up, owner, admin, logins, signed, sessions, req, faults, crashes, unread>>
memory == <<up, admin, logins>>
rows == <<owner, sessions>>

-----------------------------------------------------------------------------
None == "none"
Idle == [pc |-> "idle"]

\* A row is live, lapsed (past its twelve hours, not yet deleted) or deleted; cloud is
\* whether runespace-cloud still knows the session.
Session == [account : Accounts, state : States,
            row : {"live", "lapsed", "deleted"}, cloud : BOOLEAN]

Request ==
  {Idle} \cup [pc : {"exchange"}, state : States]
         \cup [pc : {"bind", "readback", "register", "create"}, state : States, account : Accounts]
         \cup [pc : {"revalidate", "drop"}, session : DOMAIN sessions]

Init ==
  /\ up = TRUE /\ owner = None /\ admin = None
  /\ logins = [s \in States |-> "new"]
  /\ signed = [s \in States |-> None]
  /\ sessions = <<>>
  /\ req = [b \in Browsers |-> Idle]
  /\ faults = 0 /\ crashes = 0 /\ unread = FALSE

At(b, pc) == req[b].pc = pc
Reply(b) == req' = [req EXCEPT ![b] = Idle]
Goes(b, pc) == req' = [req EXCEPT ![b].pc = pc]

\* A statement is refused.
Fault == faults < MaxFaults /\ faults' = faults + 1

-----------------------------------------------------------------------------
(* Login                                                                   *)

\* handleAuthStart: a fresh state; old transactions are evicted.
AuthStart(s) ==
  /\ up /\ logins[s] = "new"
  /\ \E old \in SUBSET {t \in States : logins[t] = "open"} :
       logins' = [t \in States |-> IF t = s THEN "open" ELSE IF t \in old THEN "gone" ELSE logins[t]]
  /\ UNCHANGED <<up, admin, rows, signed, req, faults, crashes, unread>>

\* The user signs in at the cloud, which redirects the browser to the callback.
SignIn(s, a) ==
  /\ logins[s] # "new" /\ signed[s] = None
  /\ signed' = [signed EXCEPT ![s] = a]
  /\ UNCHANGED <<memory, rows, req, faults, crashes, unread>>

\* Mutant of Callback: the transaction is looked up and not removed.
CallbackKeepsState(b, s) ==
  /\ up /\ At(b, "idle") /\ signed[s] # None
  /\ logins[s] = "open"
  /\ req' = [req EXCEPT ![b] = [pc |-> "exchange", state |-> s]]
  /\ UNCHANGED <<memory, rows, signed, faults, crashes, unread>>

\* handleCallback: take removes the transaction.  The browser may deliver the callback
\* more than once; a state that is not there is refused.
Callback(b, s) ==
  /\ up /\ At(b, "idle") /\ signed[s] # None
  /\ logins[s] = "open"
  /\ logins' = [logins EXCEPT ![s] = "gone"]
  /\ req' = [req EXCEPT ![b] = [pc |-> "exchange", state |-> s]]
  /\ UNCHANGED <<up, admin, rows, signed, faults, crashes, unread>>

\* ExchangeLocalToken and Me name the account; either may fail, and a principal
\* without an email is refused.
CloudNames(b) ==
  /\ At(b, "exchange")
  /\ \/ req' = [req EXCEPT ![b] = [pc |-> "bind", state |-> req[b].state,
                                   account |-> signed[req[b].state]]]
     \/ Reply(b)
  /\ UNCHANGED <<memory, rows, signed, faults, crashes, unread>>

\* Mutant of Bind: INSERT OR REPLACE.
BindReplaces(b) ==
  /\ At(b, "bind")
  /\ \/ /\ owner' = req[b].account
        /\ Goes(b, "readback") /\ UNCHANGED faults
     \/ Fault /\ Reply(b) /\ UNCHANGED owner
  /\ UNCHANGED <<memory, sessions, signed, crashes, unread>>

\* bindIfAbsent: INSERT OR IGNORE of the only row ...
Bind(b) ==
  /\ At(b, "bind")
  /\ \/ /\ owner' = IF owner = None THEN req[b].account ELSE owner
        /\ Goes(b, "readback") /\ UNCHANGED faults
     \/ Fault /\ Reply(b) /\ UNCHANGED owner
  /\ UNCHANGED <<memory, sessions, signed, crashes, unread>>

\* ... and reading it back; another account than the owner still gets a session.
ReadBack(b) ==
  /\ At(b, "readback")
  /\ \/ /\ Goes(b, IF owner = req[b].account THEN "register" ELSE "create")
        /\ UNCHANGED <<faults, unread>>
     \/ Fault /\ Reply(b) /\ unread' = TRUE
  /\ UNCHANGED <<memory, rows, signed, crashes>>

\* registerOwnerBestEffort: SetOrgAdmin.
Register(b) ==
  /\ At(b, "register")
  /\ admin' = req[b].account
  /\ Goes(b, "create")
  /\ UNCHANGED <<up, logins, rows, signed, faults, crashes, unread>>

CreateSession(b) ==
  /\ At(b, "create")
  /\ \/ /\ sessions' = Append(sessions, [account |-> req[b].account, state |-> req[b].state,
                                         row |-> "live", cloud |-> TRUE])
        /\ UNCHANGED faults
     \/ Fault /\ UNCHANGED sessions
  /\ Reply(b)
  /\ UNCHANGED <<memory, owner, signed, crashes, unread>>

-----------------------------------------------------------------------------
(* Sessions                                                                *)

\* sessionStore.delete: an error is only logged.
Deletes(k) ==
  \/ sessions' = [sessions EXCEPT ![k].row = "deleted"] /\ UNCHANGED faults
  \/ Fault /\ UNCHANGED sessions

\* get of a lapsed row: deleted in place, the answer is "logged out".
GetLapsed(b, k) ==
  /\ up /\ At(b, "idle") /\ sessions[k].row = "lapsed"
  /\ Deletes(k)
  /\ UNCHANGED <<memory, owner, signed, req, crashes, unread>>

\* handleSession finds a live row and asks the cloud.
SessionRead(b, k) ==
  /\ up /\ At(b, "idle") /\ sessions[k].row = "live"
  /\ req' = [req EXCEPT ![b] = [pc |-> "revalidate", session |-> k]]
  /\ UNCHANGED <<memory, rows, signed, faults, crashes, unread>>

\* Only a definite "no such session" ends it; a transient error keeps it.
Revalidate(b) ==
  /\ At(b, "revalidate")
  /\ \/ ~sessions[req[b].session].cloud /\ Deletes(req[b].session)
     \/ UNCHANGED <<sessions, faults>>
  /\ Reply(b)
  /\ UNCHANGED <<memory, owner, signed, crashes, unread>>

\* handleLogout: RevokeSession at the cloud, best effort, if the session is live ...
LogoutRevokes(b, k) ==
  /\ up /\ At(b, "idle") /\ sessions[k].row = "live"
  /\ sessions' \in {sessions, [sessions EXCEPT ![k].cloud = FALSE]}
  /\ req' = [req EXCEPT ![b] = [pc |-> "drop", session |-> k]]
  /\ UNCHANGED <<memory, owner, signed, faults, crashes, unread>>

\* ... then the row is deleted in any case.
LogoutDeletes(b) ==
  /\ At(b, "drop")
  /\ Deletes(req[b].session)
  /\ Reply(b)
  /\ UNCHANGED <<memory, owner, signed, crashes, unread>>

\* Twelve hours pass.
Lapse(k) ==
  /\ sessions[k].row = "live"
  /\ sessions' = [sessions EXCEPT ![k].row = "lapsed"]
  /\ UNCHANGED <<memory, owner, signed, req, faults, crashes, unread>>

\* The account is withdrawn at the cloud, with all its sessions.
Withdraw(a) ==
  /\ sessions' = [k \in DOMAIN sessions |-> IF sessions[k].account = a
                                             THEN [sessions[k] EXCEPT !.cloud = FALSE]
                                             ELSE sessions[k]]
  /\ UNCHANGED <<memory, owner, signed, req, faults, crashes, unread>>

-----------------------------------------------------------------------------
(* The daemon                                                              *)

Crash ==
  /\ up /\ crashes < MaxCrashes
  /\ up' = FALSE /\ crashes' = crashes + 1
  /\ admin' = None
  /\ logins' = [s \in States |-> IF logins[s] = "open" THEN "gone" ELSE logins[s]]
  /\ req' = [b \in Browsers |-> Idle]
  /\ UNCHANGED <<rows, signed, faults, unread>>

\* newSessionStore prunes lapsed rows, if it can.
Pruned == [k \in DOMAIN sessions |-> IF sessions[k].row = "lapsed"
                                       THEN [sessions[k] EXCEPT !.row = "deleted"]
                                       ELSE sessions[k]]

\* NewHandler: an existing claim is replayed to the group store; a claim that cannot be
\* read leaves the console without an admin.
Boot ==
  /\ ~up /\ up' = TRUE
  /\ sessions' \in {sessions, Pruned}
  /\ \/ admin' = owner /\ unread' = FALSE /\ UNCHANGED faults
     \/ Fault /\ unread' = TRUE /\ UNCHANGED admin
  /\ UNCHANGED <<owner, logins, signed, req, crashes>>

Step(b) ==
  \/ \E s \in States : Callback(b, s)
  \/ CloudNames(b) \/ Bind(b) \/ ReadBack(b) \/ Register(b) \/ CreateSession(b)
  \/ \E k \in DOMAIN sessions : GetLapsed(b, k) \/ SessionRead(b, k) \/ LogoutRevokes(b, k)
  \/ Revalidate(b) \/ LogoutDeletes(b)

Next ==
  \/ \E b \in Browsers : Step(b)
  \/ \E s \in States : AuthStart(s) \/ \E a \in Accounts : SignIn(s, a)
  \/ \E k \in DOMAIN sessions : Lapse(k)
  \/ \E a \in Accounts : Withdraw(a)
  \/ Crash \/ Boot

Spec == Init /\ [][Next]_vars

-----------------------------------------------------------------------------
(* Properties                                                              *)

\* Every variable has its type.
TypeOK ==
  /\ up \in BOOLEAN /\ unread \in BOOLEAN
  /\ owner \in Accounts \cup {None} /\ admin \in Accounts \cup {None}
  /\ logins \in [States -> {"new", "open", "gone"}]
  /\ signed \in [States -> Accounts \cup {None}]
  /\ sessions \in Seq(Session)
  /\ req \in [Browsers -> Request]
  /\ faults \in 0..MaxFaults /\ crashes \in 0..MaxCrashes

\* The organization admin is the account that claimed the console and nobody else,
\* whoever logs in concurrently and however often the daemon restarts; and a claimed
\* console that serves has its admin, unless the login that claimed it is about to
\* derive it or the claim could not be read since the boot.
AdminIsOwner ==
  /\ TypeOK
  /\ admin # None => admin = owner
  /\ up /\ owner # None /\ admin = None =>
       \/ unread
       \/ \E b \in Browsers : /\ req[b].pc \in {"readback", "register"}
                              /\ req[b].account = owner

\* One sign-in gives one session and of the account that signed in, however often the
\* browser delivers the callback and whatever it races with.
OneSessionPerLogin ==
  \A j, k \in DOMAIN sessions :
    /\ sessions[k].account = signed[sessions[k].state]
    /\ sessions[j].state = sessions[k].state => j = k
=============================================================================
