----------------------------- MODULE Dataplane -----------------------------
(***************************************************************************)
(* The console's one connection to its runespace engine                    *)
(* (src/internal/console/dataplane.go): the handlers that connect, stop,   *)
(* start and delete the workspace (workspace.go), the persisted refresh    *)
(* credential, the attach slot that single-flights an attach, and the      *)
(* background goroutines: the connect loop that retries until it attached  *)
(* and the refresh loop that dials again before the access token expires.  *)
(*                                                                         *)
(* Handlers and goroutines interleave at every network call and at every   *)
(* section under d.mu.  A cancelled context fails the calls that have not  *)
(* been answered yet; an answer that is already there is still processed.  *)
(* The cloud is external: it answers 401 to every refresh token but the    *)
(* last one it minted.                                                     *)
(***************************************************************************)
EXTENDS Naturals, FiniteSets

CONSTANTS
  Handlers,      \* handler goroutines that may be under way at once
  Loops,         \* background goroutines that may be alive at once
  MaxTokens,     \* bound on bootstrapped refresh tokens
  MaxSpaces,     \* bound on runespaces created in the cloud
  MaxRequests,   \* bound on console requests
  MaxRestarts    \* bound on restarts of the daemon

ASSUME DataplaneConstants ==
  /\ IsFiniteSet(Handlers) /\ IsFiniteSet(Loops) /\ "nobody" \notin Loops
  /\ MaxTokens \in Nat /\ MaxSpaces \in Nat /\ MaxRequests \in Nat /\ MaxRestarts \in Nat

VARIABLES
  space, up,    \* the cloud's runespace (0: none) and whether it is running
  valid,        \* the refresh token the cloud accepts, 0 if none
  minted,       \* tokens minted so far
  spaces,       \* runespaces created so far
  cred,         \* the persisted credential
  engine,       \* runespace the gRPC server's engine is attached to, 0 if none
  attached,     \* attachedID
  target,       \* attachTarget
  connecting,   \* the attach slot is taken
  expired,      \* authExpired
  cancel,       \* the goroutine whose context d.cancel cancels
  op,           \* what every handler does next
  loop,         \* what every background goroutine does next
  requests, restarts,
  paused        \* history: a stop or delete had the data plane to itself

cloudVars == <<space, up, valid, minted, spaces>>
localVars == <<attached, target, connecting, expired, cancel>>
countVars == <<requests, restarts, paused>>
vars == <<cloudVars, cred, engine, localVars, op, loop, countVars>>

-----------------------------------------------------------------------------
NoCred == [tok |-> 0, space |-> 0]
NoOp == [kind |-> "none", at |-> "none", tok |-> 0, space |-> 0]
NoLoop == [kind |-> "none", at |-> "none", tok |-> 0, space |-> 0, cancelled |-> FALSE]
Nobody == "nobody"

Tokens == 0..MaxTokens
Spaces == 0..MaxSpaces

HandlerStates ==
  [kind : {"none", "connect", "resume", "boot", "stop", "delete"},
   at : {"none", "acquire", "stale", "held", "bootstrap", "save", "uncred", "detach", "clear"},
   tok : Tokens, space : Spaces]

LoopStates ==
  [kind : {"none", "connect", "refresh"},
   at : {"none", "exchange", "granted", "rejected", "flag", "dial", "attach",
         "record", "wait"},
   tok : Tokens, space : Spaces, cancelled : BOOLEAN]

\* Every variable has its type, and no loop exchanges a credential it has not got.
TypeOK ==
  /\ space \in Spaces /\ up \in BOOLEAN /\ valid \in Tokens
  /\ minted \in Tokens /\ spaces \in Spaces
  /\ cred \in [tok : Tokens, space : Spaces]
  /\ engine \in Spaces /\ attached \in Spaces /\ target \in Spaces
  /\ connecting \in BOOLEAN /\ expired \in BOOLEAN
  /\ cancel \in Loops \cup {Nobody}
  /\ op \in [Handlers -> HandlerStates]
  /\ loop \in [Loops -> LoopStates]
  /\ \A l \in Loops : loop[l].at = "exchange" => loop[l].tok # 0
  /\ requests \in 0..MaxRequests /\ restarts \in 0..MaxRestarts
  /\ paused \in {"no", "so far", "yes"}

Init ==
  /\ space = 0 /\ up = FALSE /\ valid = 0 /\ minted = 0 /\ spaces = 0
  /\ cred = NoCred /\ engine = 0 /\ attached = 0 /\ target = 0
  /\ connecting = FALSE /\ expired = FALSE /\ cancel = Nobody
  /\ op = [h \in Handlers |-> NoOp]
  /\ loop = [l \in Loops |-> NoLoop]
  /\ requests = 0 /\ restarts = 0 /\ paused = "no"

-----------------------------------------------------------------------------
(* Contexts                                                                *)

\* loop with the context d.cancel belongs to cancelled.
Cancelled(loops) ==
  IF cancel = Nobody THEN loops ELSE [loops EXCEPT ![cancel].cancelled = TRUE]

\* Dataplane.Stop.
StopLoops == loop' = Cancelled(loop) /\ cancel' = Nobody

\* Mutant: the new loop does not cancel the one before it.
SpawnBeside(l, r) ==
  /\ loop' = [loop EXCEPT ![l] = r]
  /\ cancel' = l

\* startConnectLoop and startRefreshLoop: the context before is cancelled and
\* goroutine l gets a new one.
Spawn(l, r) ==
  /\ loop' = [Cancelled(loop) EXCEPT ![l] = r]
  /\ cancel' = l

NewLoop(kind, at, tok, sp) ==
  [kind |-> kind, at |-> at, tok |-> tok, space |-> sp, cancelled |-> FALSE]

\* releaseAttachSlot.
Release == target' = 0 /\ connecting' = FALSE
KeepSlot == UNCHANGED <<target, connecting>>

\* Goroutine l ends; a connect loop releases the slot as it does.
Ends(l) ==
  /\ loop' = [loop EXCEPT ![l] = NoLoop]
  /\ cancel' = IF cancel = l THEN Nobody ELSE cancel
  /\ IF loop[l].kind = "connect" THEN Release ELSE KeepSlot

Moves(l, at) ==
  /\ loop' = [loop EXCEPT ![l].at = at]
  /\ UNCHANGED <<cancel, target, connecting>>

-----------------------------------------------------------------------------
(* Requests arrive                                                         *)

Attached(sp) == engine # 0 /\ attached = sp /\ ~expired

\* POST /api/v1/workspace: the runespace is read, or created; a stopped one
\* is not connectable, one that is attached already needs nothing.
ConnectCalled(h) ==
  /\ op[h] = NoOp
  /\ requests < MaxRequests
  /\ requests' = requests + 1
  /\ \/ /\ space = 0 /\ spaces < MaxSpaces
        /\ space' = spaces + 1 /\ spaces' = spaces + 1 /\ up' = TRUE
     \/ space # 0 /\ up /\ UNCHANGED <<space, spaces, up>>
  /\ ~Attached(space')
  /\ op' = [op EXCEPT ![h] = [kind |-> "connect", at |-> "acquire", tok |-> 0,
                              space |-> space']]
  /\ paused' = "no"
  /\ UNCHANGED <<valid, minted, cred, engine, localVars, loop, restarts>>

\* POST /workspace/start: the cloud starts it; Resume reads the credential and
\* goes on in the background.
StartCalled(h) ==
  /\ op[h] = NoOp
  /\ requests < MaxRequests
  /\ requests' = requests + 1
  /\ space # 0
  /\ up' = TRUE
  /\ op' = IF cred = NoCred THEN op
           ELSE [op EXCEPT ![h] = [kind |-> "resume", at |-> "acquire", tok |-> cred.tok,
                                   space |-> cred.space]]
  /\ paused' = "no"
  /\ UNCHANGED <<space, valid, minted, spaces, cred, engine, localVars, loop, restarts>>

\* No other request is being handled, and no dial has been answered that is
\* still to be attached and recorded.
Alone(h) ==
  /\ \A g \in Handlers \ {h} : op[g] = NoOp
  /\ \A l \in Loops : loop[l].at \notin {"attach", "record"}

\* POST /workspace/stop: the cloud stops it, then Pause.
StopCalled(h) ==
  /\ op[h] = NoOp
  /\ requests < MaxRequests
  /\ requests' = requests + 1
  /\ space # 0 /\ up
  /\ up' = FALSE
  /\ StopLoops
  /\ paused' = IF Alone(h) THEN "so far" ELSE "no"
  /\ op' = [op EXCEPT ![h] = [kind |-> "stop", at |-> "detach", tok |-> 0, space |-> 0]]
  /\ UNCHANGED <<space, valid, minted, spaces, cred, engine, attached, target,
                 connecting, expired, restarts>>

\* DELETE /workspace: the local teardown follows whether the cloud deleted it
\* or not.
DeleteCalled(h) ==
  /\ op[h] = NoOp
  /\ requests < MaxRequests
  /\ requests' = requests + 1
  /\ \/ space' = 0 /\ up' = FALSE
     \/ UNCHANGED <<space, up>>
  /\ StopLoops
  /\ paused' = IF Alone(h) THEN "so far" ELSE "no"
  /\ op' = [op EXCEPT ![h] = [kind |-> "delete", at |-> "uncred", tok |-> 0, space |-> 0]]
  /\ UNCHANGED <<valid, minted, spaces, cred, engine, attached, target, connecting,
                 expired, restarts>>

-----------------------------------------------------------------------------
(* acquireAttachSlot                                                       *)

AtAcquire(h) == op[h].at = "acquire"

\* The slot is free.
SlotTaken(h) ==
  /\ AtAcquire(h) /\ ~connecting
  /\ connecting' = TRUE
  /\ target' = op[h].space
  /\ op' = [op EXCEPT ![h].at = "held"]
  /\ UNCHANGED <<cloudVars, cred, engine, attached, expired, cancel, loop, countVars>>

\* It is held for the same runespace: that attach is live.
SlotRefused(h) ==
  /\ AtAcquire(h) /\ connecting
  /\ target = op[h].space
  /\ op' = [op EXCEPT ![h] = NoOp]
  /\ UNCHANGED <<cloudVars, cred, engine, localVars, loop, countVars>>

\* It is held for another: that attach is stale.  The mutex is released.
SlotAwaited(h) ==
  /\ AtAcquire(h) /\ connecting
  /\ target # op[h].space
  /\ op' = [op EXCEPT ![h].at = "stale"]
  /\ UNCHANGED <<cloudVars, cred, engine, localVars, loop, countVars>>

\* Stop: it cancels whatever loop runs by now.  The slot is tried again, until fifty
\* ticks have passed or the request is over.
StaleStopped(h) ==
  /\ op[h].at = "stale"
  /\ StopLoops
  /\ \/ op' = [op EXCEPT ![h].at = "acquire"]
     \/ op' = [op EXCEPT ![h] = NoOp]
  /\ UNCHANGED <<cloudVars, cred, engine, attached, target, connecting, expired, countVars>>

-----------------------------------------------------------------------------
(* Connect with the slot                                                   *)

\* The workspace is read again; when that fails, or there is none any more, the
\* copy read before the slot is used.  Nothing to do releases the slot; an engine
\* on another runespace is detached first (Stop here, then Detach, ConnectClears).
ConnectRereads(h) ==
  /\ op[h].kind = "connect" /\ op[h].at = "held"
  /\ \E read \in BOOLEAN :
       LET found == read /\ space # 0
           ws    == IF found THEN space ELSE op[h].space
       IN  IF (found => up) /\ ~Attached(ws)
             THEN /\ op' = [op EXCEPT ![h] = [@ EXCEPT !.space = ws,
                             !.at = IF engine # 0 THEN "detach" ELSE "bootstrap"]]
                  /\ target' = ws
                  /\ IF engine # 0 THEN StopLoops ELSE UNCHANGED <<loop, cancel>>
                  /\ UNCHANGED connecting
             ELSE /\ op' = [op EXCEPT ![h] = NoOp]
                  /\ Release
                  /\ UNCHANGED <<loop, cancel>>
  /\ UNCHANGED <<cloudVars, cred, engine, attached, expired, countVars>>

\* The detached engine's id is dropped.
ConnectClears(h) ==
  /\ op[h].kind = "connect" /\ op[h].at = "clear"
  /\ attached' = 0
  /\ op' = [op EXCEPT ![h].at = "bootstrap"]
  /\ UNCHANGED <<cloudVars, cred, engine, target, connecting, expired, cancel, loop,
                 countVars>>

\* BootstrapAccess mints a refresh token and revokes the one before it.
ConnectBootstraps(h) ==
  /\ op[h].at = "bootstrap"
  /\ \/ /\ minted < MaxTokens
        /\ minted' = minted + 1
        /\ valid' = minted + 1
        /\ op' = [op EXCEPT ![h] = [@ EXCEPT !.at = "save", !.tok = minted + 1]]
        /\ KeepSlot
     \/ /\ op' = [op EXCEPT ![h] = NoOp]
        /\ Release
        /\ UNCHANGED <<minted, valid>>
  /\ UNCHANGED <<space, up, spaces, cred, engine, attached, expired, cancel, loop,
                 countVars>>

\* saveCred, and the connect loop takes the slot over; a save that fails gives
\* the slot back and leaves the minted token unused.
ConnectSaves(h) ==
  /\ op[h].at = "save"
  /\ op' = [op EXCEPT ![h] = NoOp]
  /\ \/ /\ cred' = [tok |-> op[h].tok, space |-> op[h].space]
        /\ \E l \in Loops :
             /\ loop[l] = NoLoop
             /\ Spawn(l, NewLoop("connect", "exchange", op[h].tok, op[h].space))
        /\ KeepSlot
     \/ Release /\ UNCHANGED <<cred, loop, cancel>>
  /\ UNCHANGED <<cloudVars, engine, attached, expired, countVars>>

\* Resume and Start with the slot.  Resume looks at the credential and at the
\* engine again; Start goes ahead.
ResumeHolds(h) ==
  /\ op[h].kind \in {"resume", "boot"} /\ op[h].at = "held"
  /\ op' = [op EXCEPT ![h] = NoOp]
  /\ IF op[h].kind = "resume"
          /\ (cred.tok # op[h].tok \/ (engine # 0 /\ attached = op[h].space))
       THEN Release /\ UNCHANGED <<loop, cancel>>
       ELSE /\ \E l \in Loops :
                 /\ loop[l] = NoLoop
                 /\ Spawn(l, NewLoop("connect", "exchange", op[h].tok, op[h].space))
            /\ KeepSlot
  /\ UNCHANGED <<cloudVars, cred, engine, attached, expired, countVars>>

-----------------------------------------------------------------------------
(* Pause and Disconnect                                                    *)

\* clearCred of Disconnect.
DeleteClearsCred(h) ==
  /\ op[h].at = "uncred"
  /\ cred' = NoCred
  /\ op' = [op EXCEPT ![h].at = "detach"]
  /\ UNCHANGED <<cloudVars, engine, localVars, loop, countVars>>

\* DisconnectEngine.
Detach(h) ==
  /\ op[h].at = "detach"
  /\ engine' = 0
  /\ op' = [op EXCEPT ![h].at = "clear"]
  /\ UNCHANGED <<cloudVars, cred, localVars, loop, countVars>>

\* The section under d.mu at the end.
ClearLocal(h) ==
  /\ op[h].kind # "connect" /\ op[h].at = "clear"
  /\ attached' = 0
  /\ target' = 0
  /\ expired' = IF op[h].kind = "delete" THEN FALSE ELSE expired
  /\ op' = [op EXCEPT ![h] = NoOp]
  /\ paused' = IF paused = "so far" THEN "yes" ELSE "no"
  /\ UNCHANGED <<cloudVars, cred, engine, connecting, cancel, loop, requests, restarts>>

-----------------------------------------------------------------------------
(* The connect loop and the refresh loop                                   *)

Dataless == UNCHANGED <<cloudVars, op, countVars>>

\* Mutant: the connect loop never looks at its context.
ContextIgnored(l) == FALSE

\* ctx.Err() # nil, and ctx.Done() in the select of the retry timer.
ContextDone(l) == loop[l].cancelled

\* The call failed for now: the connect loop waits for its retry unless its
\* context is gone, the refresh loop for its next tick.
FailedForNow(l) ==
  IF loop[l].kind = "connect" /\ ContextDone(l) THEN Ends(l) ELSE Moves(l, "wait")

\* The cloud answers the token exchange.
ExchangeAnswered(l) ==
  /\ loop[l].at = "exchange"
  /\ ~loop[l].cancelled
  /\ Moves(l, IF loop[l].tok = valid THEN "granted" ELSE "rejected")
  /\ UNCHANGED <<cred, engine, attached, expired>> /\ Dataless

ExchangeFails(l) ==
  /\ loop[l].at = "exchange"
  /\ FailedForNow(l)
  /\ UNCHANGED <<cred, engine, attached, expired>> /\ Dataless

\* Mutant: a successful exchange leaves the badge up.
GrantedKeepsBadge(l) ==
  /\ loop[l].at = "granted"
  /\ Moves(l, "dial")
  /\ UNCHANGED <<cred, engine, attached, expired>> /\ Dataless

\* A successful exchange lowers authExpired.
ExchangeGranted(l) ==
  /\ loop[l].at = "granted"
  /\ expired' = FALSE
  /\ Moves(l, "dial")
  /\ UNCHANGED <<cred, engine, attached>> /\ Dataless

\* Mutant: any 401 drops the stored credential.
RejectedClears(l) ==
  /\ loop[l].at = "rejected"
  /\ cred' = NoCred /\ Moves(l, "flag")
  /\ UNCHANGED <<engine, attached, expired>> /\ Dataless

\* The stored credential still carries this refresh token.
CredIsStill(tok) == cred.tok = tok

\* A 401 drops the stored credential only while it is the rejected one
\* (clearCredIf, one statement) ...
ExchangeRejected(l) ==
  /\ loop[l].at = "rejected"
  /\ IF CredIsStill(loop[l].tok)
       THEN cred' = NoCred /\ Moves(l, "flag")
       ELSE Ends(l) /\ UNCHANGED cred
  /\ UNCHANGED <<engine, attached, expired>> /\ Dataless

\* ... and then, in a step of its own, raises the badge.
RaiseExpired(l) ==
  /\ loop[l].at = "flag"
  /\ expired' = TRUE
  /\ Ends(l)
  /\ UNCHANGED <<cred, engine, attached>> /\ Dataless

\* Mutant: a dial goes on after its context was cancelled.
DialUncancelled(l) ==
  /\ loop[l].at = "dial"
  /\ up /\ loop[l].space = space
  /\ Moves(l, "attach")
  /\ UNCHANGED <<cred, engine, attached, expired>> /\ Dataless

\* OpenEngine: the keys are registered with a runespace that is up.
DialSucceeds(l) ==
  /\ loop[l].at = "dial"
  /\ ~loop[l].cancelled
  /\ up /\ loop[l].space = space
  /\ Moves(l, "attach")
  /\ UNCHANGED <<cred, engine, attached, expired>> /\ Dataless

DialFails(l) ==
  /\ loop[l].at = "dial"
  /\ FailedForNow(l)
  /\ UNCHANGED <<cred, engine, attached, expired>> /\ Dataless

\* ConnectEngine: the new engine replaces whatever is there; the context is not
\* looked at again.
EngineAttached(l) ==
  /\ loop[l].at = "attach"
  /\ engine' = loop[l].space
  /\ Moves(l, IF loop[l].kind = "connect" THEN "record" ELSE "wait")
  /\ UNCHANGED <<cred, attached, expired>> /\ Dataless

\* reconnect succeeded: attachedID, the refresh loop takes over, the slot is free.
AttachRecorded(l) ==
  /\ loop[l].at = "record"
  /\ attached' = loop[l].space
  /\ Spawn(l, NewLoop("refresh", "wait", 0, 0))
  /\ Release
  /\ UNCHANGED <<cred, engine, expired>> /\ Dataless

\* The retry timer of connectLoop.
Retry(l) ==
  /\ loop[l].kind = "connect" /\ loop[l].at = "wait"
  /\ IF ContextDone(l) \/ ~CredIsStill(loop[l].tok)
       THEN Ends(l) ELSE Moves(l, "exchange")
  /\ UNCHANGED <<cred, engine, attached, expired>> /\ Dataless

\* The ticker of refreshLoop.
RefreshTick(l) ==
  /\ loop[l].kind = "refresh" /\ loop[l].at = "wait"
  /\ IF loop[l].cancelled \/ cred = NoCred
       THEN Ends(l)
       ELSE /\ loop' = [loop EXCEPT ![l] = [@ EXCEPT !.at = "exchange", !.tok = cred.tok,
                                                     !.space = cred.space]]
            /\ UNCHANGED <<cancel, target, connecting>>
  /\ UNCHANGED <<cred, engine, attached, expired>> /\ Dataless

-----------------------------------------------------------------------------
(* The world                                                               *)

\* The credential is revoked or expires in the cloud.
Revoked ==
  /\ valid # 0
  /\ valid' = 0
  /\ UNCHANGED <<space, up, minted, spaces, cred, engine, localVars, op, loop, countVars>>

\* The daemon restarts and Start resumes from the persisted credential.
Restart ==
  /\ restarts < MaxRestarts
  /\ restarts' = restarts + 1
  /\ engine' = 0 /\ attached' = 0 /\ target' = 0
  /\ connecting' = FALSE /\ expired' = FALSE /\ cancel' = Nobody
  /\ loop' = [l \in Loops |-> NoLoop]
  /\ \E boot \in Handlers :
       op' = [h \in Handlers |->
                IF h = boot /\ cred # NoCred
                  THEN [kind |-> "boot", at |-> "acquire", tok |-> cred.tok,
                        space |-> cred.space]
                  ELSE NoOp]
  /\ paused' = "no"
  /\ UNCHANGED <<cloudVars, cred, requests>>

Called(h) == ConnectCalled(h) \/ StartCalled(h) \/ StopCalled(h) \/ DeleteCalled(h)

HandlerStep(h) ==
  \/ SlotTaken(h) \/ SlotRefused(h) \/ StaleStopped(h)
  \/ ConnectRereads(h) \/ ConnectClears(h) \/ ConnectBootstraps(h) \/ ConnectSaves(h)
  \/ ResumeHolds(h)
  \/ DeleteClearsCred(h) \/ Detach(h) \/ ClearLocal(h)

LoopStep(l) ==
  \/ ExchangeAnswered(l) \/ ExchangeFails(l) \/ ExchangeGranted(l) \/ ExchangeRejected(l)
  \/ RaiseExpired(l) \/ DialSucceeds(l) \/ DialFails(l) \/ EngineAttached(l)
  \/ AttachRecorded(l) \/ Retry(l) \/ RefreshTick(l)

Next ==
  \/ \E h \in Handlers : Called(h) \/ HandlerStep(h) \/ SlotAwaited(h)
  \/ \E l \in Loops : LoopStep(l)
  \/ Revoked
  \/ Restart

\* Handlers and goroutines keep running, timers fire, and a cloud that is asked
\* again and again answers, and so does a runespace that is up.
Fairness ==
  /\ \A h \in Handlers : WF_vars(HandlerStep(h))
  /\ \A l \in Loops : /\ WF_vars(LoopStep(l))
                      /\ SF_vars(ExchangeAnswered(l))
                      /\ SF_vars(DialSucceeds(l))

Spec == Init /\ [][Next]_vars /\ Fairness

-----------------------------------------------------------------------------
(* Properties                                                              *)

SlotHolders ==
  {h \in Handlers : /\ op[h].kind \in {"connect", "resume", "boot"}
                    /\ op[h].at \notin {"acquire", "stale"}}
  \cup {l \in Loops : loop[l].kind = "connect"}

\* The attach slot is taken exactly while one handler or one connect loop holds
\* it: no early return leaks it, no second upload of the keys starts beside the
\* first (connecting, "single-flights").
SlotHeldOnce == Cardinality(SlotHolders) = IF connecting THEN 1 ELSE 0

\* At most one background loop has a live context ("so there is exactly one").
OneLiveLoop ==
  Cardinality({l \in Loops : loop[l].kind # "none" /\ ~loop[l].cancelled}) <= 1

\* Every variable has its type, and an attach never runs beside another, whether
\* the two were started by handlers, by a retry or by the refresh ticker.
AttachesAreSerial == TypeOK /\ SlotHeldOnce /\ OneLiveLoop

\* Unless the workspace is being deleted, a credential the cloud still accepts
\* is never dropped: a late 401 for an older token leaves it alone (exchange).
LiveCredentialKept ==
  [][cred # NoCred /\ cred' = NoCred /\ cred.tok = valid
       => \E h \in Handlers : op[h].at = "uncred"]_vars

\* The slot is freed again, however handlers, cancellations and answers
\* interleave, unless the loop that holds it retries a runespace that is not up.
SlotIsFreed ==
  connecting ~> \/ ~connecting
                \/ \E l \in Loops : /\ loop[l].kind = "connect"
                                    /\ ~(up /\ loop[l].space = space)

\* An expired badge over a credential that works goes away by itself as long as
\* a loop is alive.
FalseBadgeClears ==
  (expired /\ cred.tok # 0 /\ cred.tok = valid)
    ~> \/ ~expired
       \/ cred.tok # valid
       \/ cred = NoCred
       \/ \A l \in Loops : loop[l].kind = "none" \/ loop[l].cancelled

\* A stop or delete leaves the engine detached until the next request, whatever
\* goroutines outlive its cancellation; only a dial that was already answered, or
\* a request beside it, can attach it again (reconnect does not look at its
\* context after ConnectRunespace).
PausedStaysDetached == paused = "yes" => engine = 0
=============================================================================
