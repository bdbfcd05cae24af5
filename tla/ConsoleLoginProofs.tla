------------------------ MODULE ConsoleLoginProofs ------------------------
(***************************************************************************)
(* Proofs about login, claim and sessions, for every set of accounts,      *)
(* states and browsers and any number of refused statements and crashes.   *)
(***************************************************************************)
EXTENDS ConsoleLogin, SequenceTheorems, TLAPS

-----------------------------------------------------------------------------
(* The inductive invariant                                                 *)

\* The requests that carry the state of a login transaction they took.
HoldsState(b) == req[b].pc \in {"exchange", "bind", "readback", "register", "create"}
HoldsAccount(b) == req[b].pc \in {"bind", "readback", "register", "create"}

\* A transaction that was taken is gone, its user had signed in, and the request that
\* took it works on the account of that user.
TakenOnce ==
  /\ \A b \in Browsers : HoldsState(b) =>
       /\ signed[req[b].state] # None
       /\ logins[req[b].state] = "gone"
  /\ \A b \in Browsers : HoldsAccount(b) => req[b].account = signed[req[b].state]
  /\ \A b, c \in Browsers : HoldsState(b) /\ HoldsState(c) /\ req[b].state = req[c].state
       => b = c

\* No session exists yet for a request that is about to create one, and the login of
\* every session is over.
SessionsAreTaken ==
  /\ \A b \in Browsers, k \in 1..Len(sessions) :
       HoldsState(b) => sessions[k].state # req[b].state
  /\ \A k \in 1..Len(sessions) : logins[sessions[k].state] = "gone"
  /\ \A k \in 1..Len(sessions) : sessions[k].account = signed[sessions[k].state]
  /\ \A j, k \in 1..Len(sessions) : sessions[j].state = sessions[k].state => j = k

\* The organization admin is derived from the claim only.
AdminFromClaim ==
  /\ admin # None => admin = owner
  /\ \A b \in Browsers : req[b].pc = "register" => req[b].account = owner
  /\ up /\ owner # None /\ admin = None =>
       \/ unread
       \/ \E b \in Browsers : /\ req[b].pc \in {"readback", "register"}
                              /\ req[b].account = owner

IInv == TypeOK /\ TakenOnce /\ SessionsAreTaken /\ AdminFromClaim

-----------------------------------------------------------------------------
(* Facts about requests and rows                                           *)

LEMMA NoneIsNoAccount == None \notin Accounts
BY ConsoleLoginAssumption DEF None

\* The fields of a request follow from its program counter.
LEMMA RequestCases ==
  ASSUME NEW r \in Request
  PROVE  /\ r.pc \in {"idle", "exchange", "bind", "readback", "register", "create",
                      "revalidate", "drop"}
         /\ r.pc = "exchange" => r \in [pc : {"exchange"}, state : States]
         /\ r.pc \in {"bind", "readback", "register", "create"} =>
              r \in [pc : {"bind", "readback", "register", "create"},
                     state : States, account : Accounts]
         /\ r.pc \in {"revalidate", "drop"} =>
              r \in [pc : {"revalidate", "drop"}, session : DOMAIN sessions]
BY DEF Request, Idle

\* sessions is a sequence over 1..Len(sessions).
LEMMA SessionDomain ==
  ASSUME TypeOK
  PROVE  /\ DOMAIN sessions = 1..Len(sessions)
         /\ Len(sessions) \in Nat
         /\ \A k \in 1..Len(sessions) : sessions[k] \in Session
BY LenProperties, ElementOfSeq DEF TypeOK

\* What every step but the creation of a session does to the rows.
SameLogins ==
  /\ sessions' \in Seq(Session)
  /\ Len(sessions') = Len(sessions)
  /\ \A k \in 1..Len(sessions) : /\ sessions'[k].account = sessions[k].account
                                 /\ sessions'[k].state = sessions[k].state

\* Changing one row's own fields keeps its account and its state.
LEMMA RowChanged ==
  ASSUME TypeOK, NEW k \in 1..Len(sessions), NEW e \in Session,
         e.account = sessions[k].account, e.state = sessions[k].state,
         sessions' = [sessions EXCEPT ![k] = e]
  PROVE  SameLogins
<1>1. sessions \in Seq(Session)
  BY DEF TypeOK
<1> QED BY <1>1, ExceptSeq DEF SameLogins

LEMMA SameRows ==
  ASSUME TypeOK, sessions' = sessions
  PROVE  SameLogins
BY DEF SameLogins, TypeOK

\* Deletes, Lapse and the revocation of a logout change one row's own fields.
LEMMA DeletesSame ==
  ASSUME TypeOK, NEW k \in 1..Len(sessions), Deletes(k)
  PROVE  SameLogins /\ faults' \in 0..MaxFaults
<1>1. sessions[k] \in Session
  BY SessionDomain
<1>2. CASE sessions' = [sessions EXCEPT ![k].row = "deleted"] /\ UNCHANGED faults
  <2>1. sessions' = [sessions EXCEPT ![k] = [sessions[k] EXCEPT !.row = "deleted"]]
    BY <1>2
  <2>2. /\ [sessions[k] EXCEPT !.row = "deleted"] \in Session
        /\ [sessions[k] EXCEPT !.row = "deleted"].account = sessions[k].account
        /\ [sessions[k] EXCEPT !.row = "deleted"].state = sessions[k].state
    BY <1>1 DEF Session
  <2> QED BY <1>2, <2>1, <2>2, RowChanged DEF TypeOK
<1>3. CASE Fault /\ UNCHANGED sessions
  BY <1>3, SameRows, ConsoleLoginAssumption DEF Fault, TypeOK
<1> QED BY <1>2, <1>3 DEF Deletes

\* Rewriting every row in place keeps accounts and states.
LEMMA RowsRewritten ==
  ASSUME TypeOK, NEW f \in [1..Len(sessions) -> Session], sessions' = f,
         \A k \in 1..Len(sessions) : /\ f[k].account = sessions[k].account
                                     /\ f[k].state = sessions[k].state
  PROVE  SameLogins
<1>1. Len(sessions) \in Nat
  BY SessionDomain
<1>2. f \in Seq(Session) /\ Len(f) = Len(sessions)
  BY <1>1
<1> QED BY <1>2 DEF SameLogins

\* A request stays well typed while sessions are only added.
LEMMA RequestKept ==
  ASSUME TypeOK, sessions' \in Seq(Session), Len(sessions') >= Len(sessions),
         NEW r \in Request
  PROVE  r \in Request'
<1>1. DOMAIN sessions \subseteq DOMAIN sessions'
  BY SessionDomain, LenProperties
<1> QED BY <1>1 DEF Request, Idle

-----------------------------------------------------------------------------
(* The initial states                                                      *)

LEMMA InitIInv == Init => IInv
<1> SUFFICES ASSUME Init PROVE IInv
  OBVIOUS
<1>1. sessions \in Seq(Session) /\ Len(sessions) = 0
  BY EmptySeq DEF Init
<1>2. TypeOK
  <2>1. up \in BOOLEAN /\ unread \in BOOLEAN
    BY Zenon DEF Init
  <2>2. req \in [Browsers -> Request]
    BY DEF Init, Request
  <2> QED BY <1>1, <2>1, <2>2, ConsoleLoginAssumption DEF Init, TypeOK
<1>3. TakenOnce /\ SessionsAreTaken /\ AdminFromClaim
  BY <1>1 DEF Init, TakenOnce, SessionsAreTaken, AdminFromClaim, HoldsState, HoldsAccount, Idle
<1> QED BY <1>2, <1>3 DEF IInv

-----------------------------------------------------------------------------
(* One lemma per action                                                    *)

LEMMA AuthStartStep ==
  ASSUME IInv, NEW s \in States, AuthStart(s)
  PROVE  IInv'
<1>1. /\ UNCHANGED <<up, admin, owner, sessions, signed, req, faults, crashes, unread>>
      /\ logins' \in [States -> {"new", "open", "gone"}]
      /\ \A t \in States : logins[t] = "gone" => logins'[t] = "gone"
  BY DEF AuthStart, rows, IInv, TypeOK
<1>2. \A b \in Browsers : HoldsState(b) => req[b].state \in States
  BY RequestCases DEF IInv, TypeOK, HoldsState
<1>3. \A k \in 1..Len(sessions) : sessions[k].state \in States
  BY SessionDomain DEF IInv, Session
<1>4. TypeOK'
  BY <1>1 DEF IInv, TypeOK, Request
<1>5. TakenOnce'
  BY <1>1, <1>2 DEF IInv, TakenOnce, HoldsState, HoldsAccount
<1>6. SessionsAreTaken'
  BY <1>1, <1>3 DEF IInv, SessionsAreTaken, HoldsState
<1>7. AdminFromClaim'
  BY <1>1 DEF IInv, AdminFromClaim
<1> QED BY <1>4, <1>5, <1>6, <1>7 DEF IInv

LEMMA SignInStep ==
  ASSUME IInv, NEW s \in States, NEW a \in Accounts, SignIn(s, a)
  PROVE  IInv'
<1>1. /\ UNCHANGED <<up, admin, owner, logins, sessions, req, faults, crashes, unread>>
      /\ signed' \in [States -> Accounts \cup {None}]
      /\ \A t \in States : signed[t] # None => signed'[t] = signed[t]
  BY DEF SignIn, rows, memory, IInv, TypeOK
<1>2. \A b \in Browsers : HoldsState(b) => req[b].state \in States
  BY RequestCases DEF IInv, TypeOK, HoldsState
<1>3. \A k \in 1..Len(sessions) : /\ sessions[k].state \in States
                                  /\ sessions[k].account \in Accounts
  BY SessionDomain DEF IInv, Session
<1>4. TypeOK'
  BY <1>1 DEF IInv, TypeOK, Request
<1>5. TakenOnce'
  BY <1>1, <1>2 DEF IInv, TakenOnce, HoldsState, HoldsAccount
<1>6. SessionsAreTaken'
  BY <1>1, <1>3, NoneIsNoAccount DEF IInv, SessionsAreTaken, HoldsState
<1>7. AdminFromClaim'
  BY <1>1 DEF IInv, AdminFromClaim
<1> QED BY <1>4, <1>5, <1>6, <1>7 DEF IInv

\* The transaction is removed before anything else happens, so nobody else holds it.
LEMMA CallbackStep ==
  ASSUME IInv, NEW b \in Browsers, NEW s \in States, Callback(b, s)
  PROVE  IInv'
<1>1. /\ UNCHANGED <<up, admin, owner, sessions, signed, faults, crashes, unread>>
      /\ logins[s] = "open" /\ signed[s] # None
      /\ logins' = [logins EXCEPT ![s] = "gone"]
      /\ req[b].pc = "idle"
      /\ req' = [req EXCEPT ![b] = [pc |-> "exchange", state |-> s]]
  BY DEF Callback, rows, At
<1>2. \A c \in Browsers : HoldsState(c) => req[c].state \in States
  BY RequestCases DEF IInv, TypeOK, HoldsState
<1>3. \A k \in 1..Len(sessions) : sessions[k].state \in States
  BY SessionDomain DEF IInv, Session
<1>4. TypeOK'
  <2>1. [pc |-> "exchange", state |-> s] \in Request
    BY DEF Request
  <2> QED BY <1>1, <2>1 DEF IInv, TypeOK, Request
<1>5. \A c \in Browsers : c # b => req'[c] = req[c]
  BY <1>1 DEF IInv, TypeOK
<1>6. req'[b].pc = "exchange" /\ req'[b].state = s
  BY <1>1 DEF IInv, TypeOK
<1>7. logins' = [t \in States |-> IF t = s THEN "gone" ELSE logins[t]]
  BY <1>1 DEF IInv, TypeOK
<1>8. TakenOnce'
  BY <1>1, <1>2, <1>5, <1>6, <1>7 DEF IInv, TakenOnce, HoldsState, HoldsAccount
<1>9. SessionsAreTaken'
  BY <1>1, <1>3, <1>5, <1>6, <1>7 DEF IInv, SessionsAreTaken, HoldsState
<1>10. AdminFromClaim'
  BY <1>1, <1>5, <1>6 DEF IInv, AdminFromClaim
<1> QED BY <1>4, <1>8, <1>9, <1>10 DEF IInv

\* The account is the one that signed in, or the login ends.
LEMMA CloudNamesStep ==
  ASSUME IInv, NEW b \in Browsers, CloudNames(b)
  PROVE  IInv'
<1>1. /\ UNCHANGED <<up, admin, owner, logins, sessions, signed, faults, crashes, unread>>
      /\ req[b].pc = "exchange"
  BY DEF CloudNames, rows, memory, At
<1>2. req[b].state \in States /\ signed[req[b].state] \in Accounts
  BY <1>1, RequestCases DEF IInv, TypeOK, TakenOnce, HoldsState
<1>3. PICK r : /\ req' = [req EXCEPT ![b] = r]
               /\ \/ r = [pc |-> "bind", state |-> req[b].state, account |-> signed[req[b].state]]
                  \/ r = Idle
  BY DEF CloudNames, Reply
<1>4. r \in Request
  BY <1>2, <1>3 DEF Request
<1>5. TypeOK'
  BY <1>1, <1>3, <1>4 DEF IInv, TypeOK, Request
<1>6. \A c \in Browsers : req'[c] = IF c = b THEN r ELSE req[c]
  BY <1>3 DEF IInv, TypeOK
<1>7. r.pc \in {"bind", "idle"} /\ (r.pc = "bind" => /\ r.state = req[b].state
                                                     /\ r.account = signed[req[b].state])
  BY <1>3 DEF Idle
<1>8. TakenOnce'
  BY <1>1, <1>6, <1>7 DEF IInv, TakenOnce, HoldsState, HoldsAccount
<1>9. SessionsAreTaken'
  BY <1>1, <1>6, <1>7 DEF IInv, SessionsAreTaken, HoldsState
<1>10. AdminFromClaim'
  BY <1>1, <1>6, <1>7 DEF IInv, AdminFromClaim
<1> QED BY <1>5, <1>8, <1>9, <1>10 DEF IInv

\* A request that holds an account, and what it may become: another step of the same
\* login, or idle.
LEMMA HolderFacts ==
  ASSUME IInv, NEW b \in Browsers, HoldsAccount(b)
  PROVE  /\ req[b] \in [pc : {"bind", "readback", "register", "create"},
                        state : States, account : Accounts]
         /\ req[b] \in Request /\ Idle \in Request
         /\ req[b].account # None
         /\ \A pc \in {"bind", "readback", "register", "create"} :
              /\ [req[b] EXCEPT !.pc = pc] \in Request
              /\ [req[b] EXCEPT !.pc = pc].pc = pc
              /\ [req[b] EXCEPT !.pc = pc].state = req[b].state
              /\ [req[b] EXCEPT !.pc = pc].account = req[b].account
<1>1. req[b] \in Request
  BY DEF IInv, TypeOK
<1>2. req[b] \in [pc : {"bind", "readback", "register", "create"},
                  state : States, account : Accounts]
  BY <1>1, RequestCases DEF HoldsAccount
<1> QED BY <1>1, <1>2, NoneIsNoAccount DEF Request

\* A holder that moves on keeps what it holds; everything but the claim follows.
LEMMA HolderMoves ==
  ASSUME IInv, NEW b \in Browsers, HoldsAccount(b),
         UNCHANGED <<logins, sessions, signed>>,
         NEW pc \in {"readback", "register", "create", "idle"},
         req' = [req EXCEPT ![b] = IF pc = "idle" THEN Idle ELSE [req[b] EXCEPT !.pc = pc]]
  PROVE  /\ req' \in [Browsers -> Request']
         /\ \A c \in Browsers : c # b => req'[c] = req[c]
         /\ req'[b].pc = pc
         /\ pc # "idle" => req'[b].account = req[b].account
         /\ TakenOnce'
         /\ SessionsAreTaken'
<1> DEFINE r == IF pc = "idle" THEN Idle ELSE [req[b] EXCEPT !.pc = pc]
<1>1. /\ r \in Request
      /\ r.pc = pc
      /\ pc # "idle" => r.state = req[b].state /\ r.account = req[b].account
  BY HolderFacts DEF Idle
<1> HIDE DEF r
<1>2. req' = [req EXCEPT ![b] = r]
  BY DEF r
<1>3. \A c \in Browsers : req'[c] = IF c = b THEN r ELSE req[c]
  BY <1>2 DEF IInv, TypeOK
<1>4. req' \in [Browsers -> Request']
  BY <1>1, <1>2 DEF IInv, TypeOK, Request
<1>5. HoldsState(b)
  BY DEF HoldsState, HoldsAccount
<1>6. TakenOnce'
  BY <1>1, <1>3, <1>5 DEF IInv, TakenOnce, HoldsState, HoldsAccount
<1>7. SessionsAreTaken'
  BY <1>1, <1>3, <1>5 DEF IInv, SessionsAreTaken, HoldsState
<1> QED BY <1>1, <1>3, <1>4, <1>6, <1>7

LEMMA FaultCounted ==
  ASSUME TypeOK, Fault
  PROVE  faults' \in 0..MaxFaults
BY ConsoleLoginAssumption DEF TypeOK, Fault

LEMMA BindStep ==
  ASSUME IInv, NEW b \in Browsers, Bind(b)
  PROVE  IInv'
<1>1. /\ UNCHANGED <<up, admin, logins, sessions, signed, crashes, unread>>
      /\ req[b].pc = "bind" /\ HoldsAccount(b)
  BY DEF Bind, memory, At, HoldsAccount
<1>2. CASE /\ owner' = IF owner = None THEN req[b].account ELSE owner
           /\ Goes(b, "readback") /\ UNCHANGED faults
  <2>1. req' = [req EXCEPT ![b] = [req[b] EXCEPT !.pc = "readback"]]
    BY <1>2 DEF Goes, IInv, TypeOK
  <2>2. /\ req' \in [Browsers -> Request']
        /\ \A c \in Browsers : c # b => req'[c] = req[c]
        /\ req'[b].pc = "readback" /\ req'[b].account = req[b].account
        /\ TakenOnce' /\ SessionsAreTaken'
    BY <1>1, <2>1, HolderMoves
  <2>3. req[b].account \in Accounts
    BY <1>1, HolderFacts
  <2>4. TypeOK'
    BY <1>1, <1>2, <2>2, <2>3 DEF IInv, TypeOK
  <2>5. \A c \in Browsers : req[c].pc = "register" => req[c].account # None
    BY HolderFacts DEF HoldsAccount
  <2>6. AdminFromClaim'
    BY <1>1, <1>2, <2>2, <2>3, <2>5, NoneIsNoAccount DEF IInv, AdminFromClaim
  <2> QED BY <2>2, <2>4, <2>6 DEF IInv
<1>3. CASE Fault /\ Reply(b) /\ UNCHANGED owner
  <2>1. req' = [req EXCEPT ![b] = Idle]
    BY <1>3 DEF Reply
  <2>2. /\ req' \in [Browsers -> Request']
        /\ \A c \in Browsers : c # b => req'[c] = req[c]
        /\ req'[b].pc = "idle"
        /\ TakenOnce' /\ SessionsAreTaken'
    BY <1>1, <2>1, HolderMoves
  <2>3. TypeOK'
    BY <1>1, <1>3, <2>2, FaultCounted DEF IInv, TypeOK
  <2>4. AdminFromClaim'
    BY <1>1, <1>3, <2>2 DEF IInv, AdminFromClaim
  <2> QED BY <2>2, <2>3, <2>4 DEF IInv
<1> QED BY <1>2, <1>3 DEF Bind

\* A read-back that fails leaves a claim nobody administers: that is unread.
LEMMA ReadBackStep ==
  ASSUME IInv, NEW b \in Browsers, ReadBack(b)
  PROVE  IInv'
<1>1. /\ UNCHANGED <<up, admin, logins, owner, sessions, signed, crashes>>
      /\ req[b].pc = "readback" /\ HoldsAccount(b)
  BY DEF ReadBack, memory, rows, At, HoldsAccount
<1>2. CASE /\ Goes(b, IF owner = req[b].account THEN "register" ELSE "create")
           /\ UNCHANGED <<faults, unread>>
  <2>1. PICK pc \in {"register", "create"} :
           /\ pc = IF owner = req[b].account THEN "register" ELSE "create"
           /\ req' = [req EXCEPT ![b] = [req[b] EXCEPT !.pc = pc]]
    BY <1>2 DEF Goes, IInv, TypeOK
  <2>2. /\ req' \in [Browsers -> Request']
        /\ \A c \in Browsers : c # b => req'[c] = req[c]
        /\ req'[b].pc = pc /\ req'[b].account = req[b].account
        /\ TakenOnce' /\ SessionsAreTaken'
    BY <1>1, <2>1, HolderMoves
  <2>3. TypeOK'
    BY <1>1, <1>2, <2>2 DEF IInv, TypeOK
  <2>4. AdminFromClaim'
    BY <1>1, <1>2, <2>1, <2>2 DEF IInv, AdminFromClaim
  <2> QED BY <2>2, <2>3, <2>4 DEF IInv
<1>3. CASE Fault /\ Reply(b) /\ unread' = TRUE
  <2>1. req' = [req EXCEPT ![b] = Idle]
    BY <1>3 DEF Reply
  <2>2. /\ req' \in [Browsers -> Request']
        /\ \A c \in Browsers : c # b => req'[c] = req[c]
        /\ req'[b].pc = "idle"
        /\ TakenOnce' /\ SessionsAreTaken'
    BY <1>1, <2>1, HolderMoves
  <2>3. TypeOK'
    <3>1. unread' \in BOOLEAN
      BY <1>3, Zenon
    <3> QED BY <1>1, <1>3, <2>2, <3>1, FaultCounted DEF IInv, TypeOK
  <2>4. AdminFromClaim'
    BY <1>1, <1>3, <2>2 DEF IInv, AdminFromClaim
  <2> QED BY <2>2, <2>3, <2>4 DEF IInv
<1> QED BY <1>2, <1>3 DEF ReadBack

LEMMA RegisterStep ==
  ASSUME IInv, NEW b \in Browsers, Register(b)
  PROVE  IInv'
<1>1. /\ UNCHANGED <<up, logins, owner, sessions, signed, faults, crashes, unread>>
      /\ req[b].pc = "register" /\ HoldsAccount(b)
      /\ admin' = req[b].account
  BY DEF Register, rows, At, HoldsAccount
<1>2. req' = [req EXCEPT ![b] = [req[b] EXCEPT !.pc = "create"]]
  BY DEF Register, Goes, IInv, TypeOK
<1>3. /\ req' \in [Browsers -> Request']
      /\ \A c \in Browsers : c # b => req'[c] = req[c]
      /\ req'[b].pc = "create"
      /\ TakenOnce' /\ SessionsAreTaken'
  BY <1>1, <1>2, HolderMoves
<1>4. req[b].account \in Accounts
  BY <1>1, HolderFacts
<1>5. TypeOK'
  BY <1>1, <1>3, <1>4 DEF IInv, TypeOK
<1>6. AdminFromClaim'
  BY <1>1, <1>3, <1>4, NoneIsNoAccount DEF IInv, AdminFromClaim
<1> QED BY <1>3, <1>5, <1>6 DEF IInv

\* The new row has the state of a transaction nobody else holds and no other row has.
LEMMA CreateSessionStep ==
  ASSUME IInv, NEW b \in Browsers, CreateSession(b)
  PROVE  IInv'
<1>1. /\ UNCHANGED <<up, admin, logins, owner, signed, crashes, unread>>
      /\ req[b].pc = "create" /\ HoldsAccount(b)
      /\ req' = [req EXCEPT ![b] = Idle]
  BY DEF CreateSession, memory, At, HoldsAccount, Reply
<1>2. \A c \in Browsers : req'[c] = IF c = b THEN Idle ELSE req[c]
  BY <1>1 DEF IInv, TypeOK
<1>3. AdminFromClaim'
  BY <1>1, <1>2 DEF IInv, AdminFromClaim, Idle
<1>4. TakenOnce'
  BY <1>1, <1>2 DEF IInv, TakenOnce, HoldsState, HoldsAccount, Idle
<1>5. CASE Fault /\ UNCHANGED sessions
  <2>1. req' \in [Browsers -> Request'] /\ SessionsAreTaken'
    BY <1>1, <1>5, HolderMoves
  <2>2. TypeOK'
    BY <1>1, <1>5, <2>1, FaultCounted DEF IInv, TypeOK
  <2> QED BY <1>3, <1>4, <2>1, <2>2 DEF IInv
<1>6. CASE /\ sessions' = Append(sessions, [account |-> req[b].account, state |-> req[b].state,
                                            row |-> "live", cloud |-> TRUE])
           /\ UNCHANGED faults
  <2> DEFINE new == [account |-> req[b].account, state |-> req[b].state,
                     row |-> "live", cloud |-> TRUE]
  <2>1. req[b] \in [pc : {"bind", "readback", "register", "create"},
                    state : States, account : Accounts]
    BY <1>1, HolderFacts
  <2>2. new \in Session
    <3>1. TRUE \in BOOLEAN
      OBVIOUS
    <3> QED BY <2>1, <3>1 DEF Session
  <2>3. new.account = req[b].account /\ new.state = req[b].state
    OBVIOUS
  <2> HIDE DEF new
  <2>4. sessions' = Append(sessions, new)
    BY <1>6 DEF new
  <2>5. sessions \in Seq(Session) /\ Len(sessions) \in Nat
    BY SessionDomain DEF IInv, TypeOK
  <2>6. /\ sessions' \in Seq(Session)
        /\ Len(sessions') = Len(sessions) + 1
        /\ \A k \in 1..Len(sessions) : sessions'[k] = sessions[k]
        /\ sessions'[Len(sessions) + 1] = new
    BY <2>2, <2>4, <2>5
  <2>7. TypeOK'
    <3>1. ASSUME NEW c \in Browsers
          PROVE  req'[c] \in Request'
      <4>1. req'[c] \in Request
        BY <1>2 DEF IInv, TypeOK, Request
      <4> QED BY <2>5, <2>6, <4>1, RequestKept DEF IInv
    <3>2. req' \in [Browsers -> Request']
      BY <1>1, <3>1 DEF IInv, TypeOK
    <3> QED BY <1>1, <1>6, <2>6, <3>2 DEF IInv, TypeOK
  <2>8. HoldsState(b)
    BY <1>1 DEF HoldsState, HoldsAccount
  <2>9. SessionsAreTaken'
    <3>1. \A k \in 1..Len(sessions') : k \in 1..Len(sessions) \/ k = Len(sessions) + 1
      BY <2>5, <2>6
    <3>2. \A k \in 1..Len(sessions) : k # Len(sessions) + 1
      BY <2>5
    <3>3. ASSUME NEW c \in Browsers, NEW k \in 1..Len(sessions'), HoldsState(c)'
          PROVE  sessions'[k].state # req'[c].state
      <4>1. c # b /\ req'[c] = req[c] /\ HoldsState(c)
        BY <1>2, <3>3 DEF HoldsState, Idle
      <4> QED BY <2>3, <2>6, <2>8, <3>1, <4>1 DEF IInv, SessionsAreTaken, TakenOnce
    <3>4. ASSUME NEW k \in 1..Len(sessions')
          PROVE  /\ logins'[sessions'[k].state] = "gone"
                 /\ sessions'[k].account = signed'[sessions'[k].state]
      BY <1>1, <2>3, <2>6, <2>8, <3>1 DEF IInv, SessionsAreTaken, TakenOnce
    <3>5. ASSUME NEW j \in 1..Len(sessions'), NEW k \in 1..Len(sessions'),
                 sessions'[j].state = sessions'[k].state
          PROVE  j = k
      BY <2>3, <2>6, <2>8, <3>1, <3>2, <3>5 DEF IInv, SessionsAreTaken
    <3> QED BY <3>3, <3>4, <3>5 DEF SessionsAreTaken
  <2> QED BY <1>3, <1>4, <2>7, <2>9 DEF IInv
<1> QED BY <1>5, <1>6 DEF CreateSession

\* Steps that rewrite rows in place, with a request that starts or ends beside them.
LEMMA RowStep ==
  ASSUME IInv, SameLogins, UNCHANGED <<up, admin, logins, owner, signed, crashes, unread>>,
         faults' \in 0..MaxFaults,
         req' \in [Browsers -> Request'],
         \A c \in Browsers : \/ req'[c] = req[c]
                             \/ /\ ~HoldsState(c)
                                /\ req'[c].pc \in {"idle", "revalidate", "drop"}
  PROVE  IInv'
<1>1. TypeOK'
  BY DEF IInv, TypeOK, SameLogins
<1>2. TakenOnce'
  BY DEF IInv, TakenOnce, HoldsState, HoldsAccount
<1>3. SessionsAreTaken'
  BY DEF IInv, SessionsAreTaken, HoldsState, SameLogins
<1>4. AdminFromClaim'
  BY DEF IInv, AdminFromClaim, HoldsState
<1> QED BY <1>1, <1>2, <1>3, <1>4 DEF IInv

\* The requests that are not about a login: their type survives a rewrite of rows.
LEMMA RequestsKept ==
  ASSUME IInv, SameLogins, NEW b \in Browsers, NEW r \in Request,
         req' = req \/ req' = [req EXCEPT ![b] = r]
  PROVE  /\ req' \in [Browsers -> Request']
         /\ \A c \in Browsers : c # b => req'[c] = req[c]
         /\ req'[b] = req[b] \/ req'[b] = r
<1>1. Len(sessions') >= Len(sessions) /\ sessions' \in Seq(Session)
  BY SessionDomain DEF IInv, SameLogins
<1>2. \A q \in Request : q \in Request'
  BY <1>1, RequestKept DEF IInv
<1> QED BY <1>2 DEF IInv, TypeOK

\* The handlers of sessions that exist: none of them touches a login.
LEMMA SessionHandlerStep ==
  ASSUME IInv, NEW b \in Browsers,
         \/ \E k \in DOMAIN sessions : GetLapsed(b, k) \/ SessionRead(b, k) \/ LogoutRevokes(b, k)
         \/ Revalidate(b) \/ LogoutDeletes(b)
  PROVE  IInv'
<1>1. TypeOK /\ DOMAIN sessions = 1..Len(sessions) /\ faults \in 0..MaxFaults
  BY SessionDomain DEF IInv, TypeOK
<1>2. \A c \in Browsers : req[c].pc \in {"idle", "revalidate", "drop"} => ~HoldsState(c)
  BY DEF HoldsState
<1>3. Idle \in Request /\ Idle.pc = "idle"
  BY DEF Request, Idle
<1>4. ASSUME NEW k \in DOMAIN sessions, GetLapsed(b, k)
      PROVE  IInv'
  <2>1. SameLogins /\ faults' \in 0..MaxFaults
    BY <1>1, <1>4, DeletesSame DEF GetLapsed
  <2>2. req' = req
    BY <1>4 DEF GetLapsed
  <2>3. req' \in [Browsers -> Request']
    BY <1>3, <2>1, <2>2, RequestsKept
  <2> QED BY <1>4, <2>1, <2>2, <2>3, RowStep DEF GetLapsed, memory
<1>5. ASSUME NEW k \in DOMAIN sessions, SessionRead(b, k)
      PROVE  IInv'
  <2>1. SameLogins
    BY <1>1, <1>5, SameRows DEF SessionRead, rows
  <2>2. [pc |-> "revalidate", session |-> k] \in Request
    BY <1>5 DEF Request
  <2>3. /\ req' \in [Browsers -> Request']
        /\ \A c \in Browsers : c # b => req'[c] = req[c]
        /\ req'[b] = req[b] \/ req'[b].pc = "revalidate"
    BY <1>5, <2>1, <2>2, RequestsKept DEF SessionRead
  <2>4. ~HoldsState(b)
    BY <1>2, <1>5 DEF SessionRead, At
  <2> QED BY <1>1, <1>5, <2>1, <2>3, <2>4, RowStep DEF SessionRead, memory, rows
<1>6. ASSUME NEW k \in DOMAIN sessions, LogoutRevokes(b, k)
      PROVE  IInv'
  <2>1. SameLogins
    <3>1. CASE sessions' = sessions
      BY <1>1, <3>1, SameRows
    <3>2. CASE sessions' = [sessions EXCEPT ![k].cloud = FALSE]
      <4>1. sessions[k] \in Session
        BY <1>1, SessionDomain
      <4>2. sessions' = [sessions EXCEPT ![k] = [sessions[k] EXCEPT !.cloud = FALSE]]
        BY <3>2
      <4>3. /\ [sessions[k] EXCEPT !.cloud = FALSE] \in Session
            /\ [sessions[k] EXCEPT !.cloud = FALSE].account = sessions[k].account
            /\ [sessions[k] EXCEPT !.cloud = FALSE].state = sessions[k].state
        BY <4>1 DEF Session
      <4> QED BY <1>1, <4>2, <4>3, RowChanged
    <3> QED BY <1>6, <3>1, <3>2 DEF LogoutRevokes
  <2>2. [pc |-> "drop", session |-> k] \in Request
    BY <1>6 DEF Request
  <2>3. /\ req' \in [Browsers -> Request']
        /\ \A c \in Browsers : c # b => req'[c] = req[c]
        /\ req'[b] = req[b] \/ req'[b].pc = "drop"
    BY <1>6, <2>1, <2>2, RequestsKept DEF LogoutRevokes
  <2>4. ~HoldsState(b)
    BY <1>2, <1>6 DEF LogoutRevokes, At
  <2> QED BY <1>1, <1>6, <2>1, <2>3, <2>4, RowStep DEF LogoutRevokes, memory
<1>7. CASE Revalidate(b) \/ LogoutDeletes(b)
  <2>1. /\ req[b].pc \in {"revalidate", "drop"}
        /\ req' = [req EXCEPT ![b] = Idle]
        /\ Deletes(req[b].session) \/ UNCHANGED <<sessions, faults>>
        /\ UNCHANGED <<up, admin, logins, owner, signed, crashes, unread>>
    BY <1>7 DEF Revalidate, LogoutDeletes, At, Reply, memory
  <2>2. req[b].session \in 1..Len(sessions)
    BY <1>1, <2>1, RequestCases DEF TypeOK
  <2>3. SameLogins /\ faults' \in 0..MaxFaults
    BY <1>1, <2>1, <2>2, DeletesSame, SameRows
  <2>4. /\ req' \in [Browsers -> Request']
        /\ \A c \in Browsers : c # b => req'[c] = req[c]
        /\ req'[b] = req[b] \/ req'[b].pc = "idle"
    BY <1>3, <2>1, <2>3, RequestsKept
  <2> QED BY <1>2, <2>1, <2>3, <2>4, RowStep
<1> QED BY <1>4, <1>5, <1>6, <1>7

\* Time and the cloud change rows behind the daemon's back.
LEMMA OutsideStep ==
  ASSUME IInv, \/ \E k \in DOMAIN sessions : Lapse(k)
               \/ \E a \in Accounts : Withdraw(a)
  PROVE  IInv'
<1>1. /\ TypeOK /\ DOMAIN sessions = 1..Len(sessions) /\ faults \in 0..MaxFaults
      /\ \A k \in 1..Len(sessions) : sessions[k] \in Session
  BY SessionDomain DEF IInv, TypeOK
<1>2. UNCHANGED <<up, admin, logins, owner, signed, req, faults, crashes, unread>>
  BY DEF Lapse, Withdraw, memory
<1>3. SameLogins
  <2>1. ASSUME NEW k \in DOMAIN sessions, Lapse(k)
        PROVE  SameLogins
    <3>1. sessions' = [sessions EXCEPT ![k] = [sessions[k] EXCEPT !.row = "lapsed"]]
      BY <2>1 DEF Lapse
    <3>2. /\ [sessions[k] EXCEPT !.row = "lapsed"] \in Session
          /\ [sessions[k] EXCEPT !.row = "lapsed"].account = sessions[k].account
          /\ [sessions[k] EXCEPT !.row = "lapsed"].state = sessions[k].state
      BY <1>1 DEF Session
    <3> QED BY <1>1, <3>1, <3>2, RowChanged
  <2>2. ASSUME NEW a \in Accounts, Withdraw(a)
        PROVE  SameLogins
    <3>1. \A k \in 1..Len(sessions) :
             /\ [sessions[k] EXCEPT !.cloud = FALSE] \in Session
             /\ [sessions[k] EXCEPT !.cloud = FALSE].account = sessions[k].account
             /\ [sessions[k] EXCEPT !.cloud = FALSE].state = sessions[k].state
      BY <1>1 DEF Session
    <3>2. /\ sessions' \in [1..Len(sessions) -> Session]
          /\ \A k \in 1..Len(sessions) : /\ sessions'[k].account = sessions[k].account
                                         /\ sessions'[k].state = sessions[k].state
      BY <1>1, <2>2, <3>1 DEF Withdraw
    <3> QED BY <1>1, <3>2, RowsRewritten
  <2> QED BY <2>1, <2>2
<1>4. Len(sessions') >= Len(sessions) /\ sessions' \in Seq(Session)
  BY <1>1, <1>3, SessionDomain DEF SameLogins
<1>5. req' \in [Browsers -> Request']
  BY <1>1, <1>2, <1>4, RequestKept DEF TypeOK
<1> QED BY <1>1, <1>2, <1>3, <1>5, RowStep

\* A crash loses the transactions and the admin, and no request survives it.
LEMMA CrashStep ==
  ASSUME IInv, Crash
  PROVE  IInv'
<1>1. /\ UNCHANGED <<owner, sessions, signed, faults, unread>>
      /\ up' = FALSE /\ admin' = None
      /\ crashes' = crashes + 1 /\ crashes < MaxCrashes
      /\ req' = [b \in Browsers |-> Idle]
      /\ logins' = [s \in States |-> IF logins[s] = "open" THEN "gone" ELSE logins[s]]
  BY DEF Crash, rows
<1>2. \A k \in 1..Len(sessions) : sessions[k].state \in States
  BY SessionDomain DEF IInv, Session
<1>3. TypeOK'
  <2>1. up' \in BOOLEAN
    BY <1>1, Zenon
  <2>2. req' \in [Browsers -> Request']
    BY <1>1 DEF Request
  <2>3. logins' \in [States -> {"new", "open", "gone"}]
    BY <1>1 DEF IInv, TypeOK
  <2>4. crashes' \in 0..MaxCrashes
    BY <1>1, ConsoleLoginAssumption DEF IInv, TypeOK
  <2> QED BY <1>1, <2>1, <2>2, <2>3, <2>4 DEF IInv, TypeOK
<1>4. \A b \in Browsers : req'[b].pc = "idle"
  BY <1>1 DEF Idle
<1>5. TakenOnce'
  BY <1>4 DEF TakenOnce, HoldsState, HoldsAccount
<1>6. SessionsAreTaken'
  BY <1>1, <1>2, <1>4 DEF IInv, SessionsAreTaken, HoldsState, TypeOK
<1>7. AdminFromClaim'
  BY <1>1, <1>4 DEF AdminFromClaim
<1> QED BY <1>3, <1>5, <1>6, <1>7 DEF IInv

\* At boot the claim is replayed, or it could not be read.
LEMMA BootStep ==
  ASSUME IInv, Boot
  PROVE  IInv'
<1>1. /\ UNCHANGED <<owner, logins, signed, req, crashes>>
      /\ sessions' = sessions \/ sessions' = Pruned
      /\ \/ admin' = owner /\ unread' = FALSE /\ UNCHANGED faults
         \/ Fault /\ unread' = TRUE /\ UNCHANGED admin
  BY DEF Boot
<1>2. /\ TypeOK /\ DOMAIN sessions = 1..Len(sessions)
      /\ \A k \in 1..Len(sessions) : sessions[k] \in Session
  BY SessionDomain DEF IInv
<1>3. SameLogins
  <2>1. CASE sessions' = Pruned
    <3>1. \A k \in 1..Len(sessions) :
             /\ [sessions[k] EXCEPT !.row = "deleted"] \in Session
             /\ [sessions[k] EXCEPT !.row = "deleted"].account = sessions[k].account
             /\ [sessions[k] EXCEPT !.row = "deleted"].state = sessions[k].state
      BY <1>2 DEF Session
    <3>2. /\ sessions' \in [1..Len(sessions) -> Session]
          /\ \A k \in 1..Len(sessions) : /\ sessions'[k].account = sessions[k].account
                                         /\ sessions'[k].state = sessions[k].state
      BY <1>2, <2>1, <3>1 DEF Pruned
    <3> QED BY <1>2, <3>2, RowsRewritten
  <2> QED BY <1>1, <1>2, <2>1, SameRows
<1>4. Len(sessions') >= Len(sessions) /\ sessions' \in Seq(Session)
  BY <1>2, <1>3, SessionDomain DEF SameLogins
<1>5. TypeOK'
  <2>1. req' \in [Browsers -> Request']
    BY <1>1, <1>2, <1>4, RequestKept DEF TypeOK
  <2>2. up' \in BOOLEAN /\ unread' \in BOOLEAN
    BY <1>1, Zenon DEF Boot
  <2>3. faults' \in 0..MaxFaults /\ admin' \in Accounts \cup {None}
    BY <1>1, <1>2, FaultCounted DEF TypeOK
  <2> QED BY <1>1, <1>2, <1>4, <2>1, <2>2, <2>3 DEF TypeOK
<1>6. TakenOnce'
  BY <1>1 DEF IInv, TakenOnce, HoldsState, HoldsAccount
<1>7. SessionsAreTaken'
  BY <1>1, <1>3 DEF IInv, SessionsAreTaken, HoldsState, SameLogins
<1>8. AdminFromClaim'
  BY <1>1 DEF IInv, AdminFromClaim
<1> QED BY <1>5, <1>6, <1>7, <1>8 DEF IInv

-----------------------------------------------------------------------------
(* Theorems                                                                *)

LEMMA IInvStep == IInv /\ [Next]_vars => IInv'
<1> SUFFICES ASSUME IInv, [Next]_vars PROVE IInv'
  OBVIOUS
<1>1. ASSUME NEW b \in Browsers, Step(b)
      PROVE  IInv'
  BY <1>1, CallbackStep, CloudNamesStep, BindStep, ReadBackStep, RegisterStep,
     CreateSessionStep, SessionHandlerStep DEF Step
<1>2. ASSUME NEW s \in States, AuthStart(s) \/ \E a \in Accounts : SignIn(s, a)
      PROVE  IInv'
  BY <1>2, AuthStartStep, SignInStep
<1>3. CASE UNCHANGED vars
  BY <1>3 DEF vars, IInv, TypeOK, TakenOnce, SessionsAreTaken, AdminFromClaim,
     HoldsState, HoldsAccount, Request
<1> QED BY <1>1, <1>2, <1>3, OutsideStep, CrashStep, BootStep DEF Next

\* The inductive invariant holds in every reachable state.
THEOREM Inductive == Spec => []IInv
BY InitIInv, IInvStep, PTL DEF Spec

\* The organization admin is the account that claimed the console and nobody else, and
\* a claimed console that serves has its admin unless a read of the claim failed or the
\* claiming login is still under way (bindIfAbsent, registerOwnerBestEffort, NewHandler).
THEOREM AdminIsTheClaimer == Spec => []AdminIsOwner
<1>1. IInv => AdminIsOwner
  BY DEF IInv, AdminFromClaim, AdminIsOwner
<1> QED BY Inductive, <1>1, PTL

\* A sign-in gives at most one session and of the account that signed in, however often
\* the callback is delivered and whatever it races with (loginStore.take).
THEOREM LoginGivesOneSession == Spec => []OneSessionPerLogin
<1>1. ASSUME IInv PROVE OneSessionPerLogin
  <2>1. DOMAIN sessions = 1..Len(sessions)
    BY <1>1, SessionDomain DEF IInv
  <2> QED BY <1>1, <2>1 DEF IInv, SessionsAreTaken, OneSessionPerLogin
<1> QED BY Inductive, <1>1, PTL
=============================================================================
