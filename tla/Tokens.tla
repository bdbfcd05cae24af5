------------------------------- MODULE Tokens -------------------------------
(***************************************************************************)
(* The token registry (src/internal/tokens/store.go) with its asynchronous *)
(* last_used writer, and the one RPC that takes its lock twice,            *)
(* ReportActivation (src/internal/server/grpc.go).                         *)
(*                                                                         *)
(* Mutators run under the store lock in two steps, commit and publish.     *)
(* Validate runs under the lock without SQL; the stamp it makes is handed  *)
(* to the writer's queue only after the lock is released.  The daemon may  *)
(* crash anywhere; queue, writer and calls are lost then.                  *)
(*                                                                         *)
(* Secrets are 128-bit random: a newly minted one was never used before.   *)
(* One clock unit stands for a stamp interval fraction and for a day alike *)
(* (throttles and expiry only compare).  Time 0 is "never".                *)
(***************************************************************************)
EXTENDS Naturals, Sequences, FiniteSets

CONSTANTS
  Users,        \* person keys, one token each
  Secrets,      \* token strings
  Calls,        \* concurrent data-plane RPCs
  Spans,        \* lifetimes AddToken is called with; 0 is "never expires"
  Throttle,     \* lastUsedThrottle = lastUsedPersistInterval
  QueueDepth,   \* lastUsedQueueDepth
  MaxTime       \* bound on the clock

ASSUME TokensAssumption ==
  /\ "none" \notin Secrets /\ "nobody" \notin Users
  /\ Spans \subseteq Nat /\ Throttle \in Nat /\ QueueDepth \in Nat /\ MaxTime \in Nat \ {0}

VARIABLES
  clock,
  up,         \* the daemon runs
  disk,       \* the tokens table, keyed by user
  byUser,     \* tokensByUser
  byToken,    \* tokens: secret -> user whose shared record it is
  op,         \* the mutator that holds the lock
  queue,      \* lastUsedCh
  persisted,  \* the writer's lastPersisted
  call,       \* the RPCs between Validate and their reply
  minted,     \* history: secrets ever minted
  dead        \* history: secrets a revocation or rotation replaced

vars == <<clock, up, disk, byUser, byToken, op, queue, persisted, call,
          minted, dead>>
history == <<minted, dead>>

-----------------------------------------------------------------------------
NoToken == [secret |-> "none", lastUsed |-> 0]
NoUser == "nobody"
NoOp == [kind |-> "none"]
Idle == [pc |-> "idle"]

NoSecret == "none"

\* activated_at and last_used are abstracted to what the properties compare: the
\* secret whose agent reported (activatedBy), the time of the stamp (lastUsed) and
\* the secret that was used (usedBy).
Token == [secret : Secrets, issued : Nat, expires : Nat, lastUsed : Nat,
          usedBy : Secrets \cup {NoSecret}, activatedBy : Secrets \cup {NoSecret}]

Stamp == [user : Users, secret : Secrets, at : Nat]

\* Every variable has its type.
TypeOK ==
  /\ clock \in 1..MaxTime
  /\ up \in BOOLEAN
  /\ disk \in [Users -> Token \cup {NoToken}]
  /\ byUser \in [Users -> Token \cup {NoToken}]
  /\ byToken \in [Secrets -> Users \cup {NoUser}]
  /\ op \in {NoOp} \cup [kind : {"put", "revoke", "activate"}, user : Users,
                         token : Token \cup {NoToken}, phase : {"locked", "committed"}]
  /\ queue \in Seq(Stamp) /\ Len(queue) <= QueueDepth
  /\ persisted \in [Users -> Nat]
  /\ call \in [Calls -> {Idle} \cup
                 [pc : {"stamped", "activating"}, user : Users, secret : Secrets, at : Nat,
                  report : BOOLEAN]]
  /\ minted \subseteq Secrets /\ dead \subseteq minted

\* IsExpiredAt: the expiry day itself is still valid.
IsExpiredAt(t, now) == t.expires # 0 /\ t.expires < now

\* A fresh token; 0 days is the nil expiry.
Fresh(s, span) == [secret |-> s, issued |-> clock, lastUsed |-> 0,
                   usedBy |-> NoSecret, activatedBy |-> NoSecret,
                   expires |-> IF span = 0 THEN 0 ELSE clock + span]

Init ==
  /\ clock = 1 /\ up = TRUE
  /\ disk = [u \in Users |-> NoToken] /\ byUser = disk
  /\ byToken = [s \in Secrets |-> NoUser]
  /\ op = NoOp
  /\ queue = <<>>
  /\ persisted = [u \in Users |-> 0]
  /\ call = [c \in Calls |-> Idle]
  /\ minted = {} /\ dead = {}

-----------------------------------------------------------------------------
(* Mutators                                                                *)

Free == up /\ op = NoOp

Lock(o) ==
  /\ Free
  /\ op' = o
  /\ UNCHANGED <<clock, up, disk, byUser, byToken, queue, persisted, dead>>

\* AddToken: one token per user.
AddToken(u, s, span) ==
  /\ byUser[u] = NoToken
  /\ s \notin minted /\ minted' = minted \cup {s}
  /\ Lock([kind |-> "put", user |-> u, token |-> Fresh(s, span), phase |-> "locked"])
  /\ UNCHANGED call

\* RotateToken: the expiry span is re-anchored at today.
RotateToken(u, s) ==
  /\ byUser[u] # NoToken
  /\ s \notin minted /\ minted' = minted \cup {s}
  /\ LET old  == byUser[u]
         span == IF old.expires = 0 THEN 0 ELSE old.expires - old.issued
     IN  Lock([kind |-> "put", user |-> u, token |-> Fresh(s, span), phase |-> "locked"])
  /\ UNCHANGED call

\* RevokeToken: nothing to do for a user without a token.
RevokeToken(u) ==
  /\ byUser[u] # NoToken
  /\ Lock([kind |-> "revoke", user |-> u, token |-> NoToken, phase |-> "locked"])
  /\ UNCHANGED <<call, minted>>

\* MarkActivated, second half of ReportActivation: it looks up whatever token the
\* user holds now; an unknown user is a no-op.
MarkActivated(c) ==
  /\ call[c].pc = "activating"
  /\ Free
  /\ LET t == byUser[call[c].user] IN
       op' = IF t = NoToken THEN NoOp
             ELSE [kind |-> "activate", user |-> call[c].user,
                   token |-> [t EXCEPT !.activatedBy = call[c].secret], phase |-> "locked"]
  /\ call' = [call EXCEPT ![c] = Idle]
  /\ UNCHANGED <<clock, up, disk, byUser, byToken, queue, persisted, history>>

\* Mutant: the delete is not written through.
NewRowRevokeInMemory(o) ==
  CASE o.kind = "put" -> o.token
    [] o.kind = "revoke" -> disk[o.user]
    [] o.kind = "activate" -> [disk[o.user] EXCEPT !.activatedBy = o.token.activatedBy]

\* The row a mutator writes: MarkActivated touches activated_at only, and only if
\* the row still has the secret it looked up.
NewRow(o) ==
  CASE o.kind = "put" -> o.token
    [] o.kind = "revoke" -> NoToken
    [] o.kind = "activate" ->
         IF disk[o.user] # NoToken /\ disk[o.user].secret = o.token.secret
           THEN [disk[o.user] EXCEPT !.activatedBy = o.token.activatedBy]
           ELSE disk[o.user]

\* persist commits.
Commit ==
  /\ op # NoOp /\ op.phase = "locked"
  /\ disk' = [disk EXCEPT ![op.user] = NewRow(op)]
  /\ op' = [op EXCEPT !.phase = "committed"]
  /\ UNCHANGED <<clock, up, byUser, byToken, queue, persisted, call, history>>

\* persist fails: nothing changed, the credential stays as it was.
Rollback ==
  /\ op # NoOp /\ op.phase = "locked"
  /\ op' = NoOp
  /\ UNCHANGED <<clock, up, disk, byUser, byToken, queue, persisted, call, history>>

\* Mutant: the rotated secret is not deleted from the index.
ReindexedKeepsOld(o) ==
  [s \in Secrets |-> IF o.token # NoToken /\ s = o.token.secret THEN o.user ELSE byToken[s]]

\* The secret index after a put or a revocation: the old secret leaves, the new one
\* enters.
Reindexed(o) ==
  [s \in Secrets |->
     CASE o.token # NoToken /\ s = o.token.secret -> o.user
       [] byUser[o.user] # NoToken /\ s = byUser[o.user].secret -> NoUser
       [] OTHER -> byToken[s]]

\* The maps change and the call returns.
Return ==
  /\ op # NoOp /\ op.phase = "committed"
  /\ byUser' = [byUser EXCEPT ![op.user] = op.token]
  /\ byToken' = IF op.kind = "activate" THEN byToken ELSE Reindexed(op)
  /\ dead' = IF op.kind = "activate" \/ byUser[op.user] = NoToken
               THEN dead ELSE dead \cup {byUser[op.user].secret}
  /\ op' = NoOp
  /\ UNCHANGED <<clock, up, disk, queue, persisted, call, minted>>

-----------------------------------------------------------------------------
(* Validate and the asynchronous writer                                    *)

\* The stamp is rewritten when none was made yet or the throttle has passed.
Stamps(t) == t.lastUsed = 0 \/ clock - t.lastUsed >= Throttle

\* Validate under the lock, for an ordinary RPC or for ReportActivation.  Unknown
\* and expired tokens are refused.
Validate(c, s, report) ==
  /\ Free
  /\ call[c] = Idle
  /\ byToken[s] # NoUser
  /\ LET u == byToken[s]
         t == byUser[u]
     IN /\ ~IsExpiredAt(t, clock)
        /\ byUser' = IF Stamps(t)
                       THEN [byUser EXCEPT ![u].lastUsed = clock, ![u].usedBy = s]
                       ELSE byUser
        /\ call' = [call EXCEPT ![c] =
             IF Stamps(t) \/ report
               THEN [pc |-> IF Stamps(t) THEN "stamped" ELSE "activating",
                     user |-> u, secret |-> s, at |-> clock, report |-> report]
               ELSE Idle]
  /\ UNCHANGED <<clock, up, disk, byToken, op, queue, persisted, history>>

\* Mutant: the stamp is queued without looking at the queue's capacity.
EnqueueUnbounded(c) ==
  /\ up /\ call[c].pc = "stamped"
  /\ queue' = Append(queue, [user |-> call[c].user, secret |-> call[c].secret,
                             at |-> call[c].at])
  /\ call' = [call EXCEPT ![c] = IF call[c].report THEN [@ EXCEPT !.pc = "activating"] ELSE Idle]
  /\ UNCHANGED <<clock, up, disk, byUser, byToken, op, persisted, history>>

\* Outside the lock: the stamp is queued, or dropped when the queue is full.
Enqueue(c) ==
  /\ up /\ call[c].pc = "stamped"
  /\ queue' = IF Len(queue) < QueueDepth
                THEN Append(queue, [user |-> call[c].user, secret |-> call[c].secret,
                                    at |-> call[c].at])
                ELSE queue
  /\ call' = [call EXCEPT ![c] = IF call[c].report THEN [@ EXCEPT !.pc = "activating"] ELSE Idle]
  /\ UNCHANGED <<clock, up, disk, byUser, byToken, op, persisted, history>>

\* Mutant: the writer forgets its throttle, and with it the order of the stamps.
ThrottledNever(ev) == FALSE /\ ev.at = 0

\* The writer's throttle: at most one write per user and interval, and none for a
\* stamp older than the last one written.
Throttled(ev) == persisted[ev.user] # 0 /\ ev.at < persisted[ev.user] + Throttle

\* Mutant: the UPDATE is keyed on the user alone.
StampedTableByUser(ev) ==
  IF disk[ev.user] # NoToken
    THEN [disk EXCEPT ![ev.user].lastUsed = ev.at, ![ev.user].usedBy = ev.secret]
    ELSE disk

\* UPDATE tokens SET last_used WHERE user AND token.
StampedTable(ev) ==
  IF disk[ev.user] # NoToken /\ disk[ev.user].secret = ev.secret
    THEN [disk EXCEPT ![ev.user].lastUsed = ev.at, ![ev.user].usedBy = ev.secret]
    ELSE disk

\* runLastUsedWriter handles one event: skipped, written, or lost to a write error.
WriterStep ==
  /\ up /\ queue # <<>>
  /\ queue' = Tail(queue)
  /\ LET ev == Head(queue) IN
       \/ /\ ~Throttled(ev)
          /\ disk' = StampedTable(ev)
          /\ persisted' = [persisted EXCEPT ![ev.user] = ev.at]
       \/ UNCHANGED <<disk, persisted>>    \* throttled, or the write failed
  /\ UNCHANGED <<clock, up, byUser, byToken, op, call, history>>

-----------------------------------------------------------------------------
(* The daemon                                                              *)

\* Queue, writer and calls are abandoned; only the table survives.
Crash ==
  /\ up
  /\ up' = FALSE
  /\ byUser' = [u \in Users |-> NoToken]
  /\ byToken' = [s \in Secrets |-> NoUser]
  /\ op' = NoOp
  /\ queue' = <<>>
  /\ persisted' = [u \in Users |-> 0]
  /\ call' = [c \in Calls |-> Idle]
  /\ UNCHANGED <<clock, disk, history>>

\* LoadFromDB: both indexes are built from the rows.
Boot ==
  /\ ~up
  /\ up' = TRUE
  /\ byUser' = disk
  /\ byToken' = [s \in Secrets |->
       IF \E u \in Users : disk[u].secret = s
         THEN CHOOSE u \in Users : disk[u].secret = s
         ELSE NoUser]
  /\ UNCHANGED <<clock, disk, op, queue, persisted, call, history>>

Tick ==
  /\ clock < MaxTime
  /\ clock' = clock + 1
  /\ UNCHANGED <<up, disk, byUser, byToken, op, queue, persisted, call, history>>

Next ==
  \/ \E u \in Users, s \in Secrets, span \in Spans : AddToken(u, s, span)
  \/ \E u \in Users, s \in Secrets : RotateToken(u, s)
  \/ \E u \in Users : RevokeToken(u)
  \/ \E c \in Calls : MarkActivated(c) \/ Enqueue(c)
  \/ \E c \in Calls, s \in Secrets, report \in BOOLEAN : Validate(c, s, report)
  \/ Commit \/ Rollback \/ Return \/ WriterStep
  \/ Crash \/ Boot \/ Tick

Spec == Init /\ [][Next]_vars

-----------------------------------------------------------------------------
(* Properties                                                              *)

\* A revoked or rotated secret is gone for good: it validates no more and no row
\* can bring it back at the next boot.
DeadStaysDead ==
  \A s \in dead : byToken[s] = NoUser /\ \A u \in Users : disk[u].secret # s

\* The two indexes describe the same tokens, so a secret validates exactly when it
\* is its user's current one; and whenever the lock is free the cached token is the row,
\* where only last_used may lag on disk, and never lead.
CacheMatchesTable ==
  /\ up => \A s \in Secrets, u \in Users : byToken[s] = u <=> byUser[u].secret = s
  /\ Free => \A u \in Users :
       \/ byUser[u] = disk[u]
       \/ /\ byUser[u] # NoToken /\ disk[u] # NoToken
          /\ disk[u].lastUsed < byUser[u].lastUsed
          /\ byUser[u] = [disk[u] EXCEPT !.lastUsed = byUser[u].lastUsed,
                                          !.usedBy = byUser[u].usedBy]

\* A row's last_used is a use of the very secret in the row: a stamp queued before a
\* rotation never backdates the new secret (lastUsedEvent.token).
StampIsOwn ==
  \A u \in Users : disk[u].lastUsed # 0 => disk[u].usedBy = disk[u].secret

\* While a secret stays in its row, its last_used only moves forward, although two
\* calls may queue their stamps in the wrong order.
LastUsedForward ==
  [][\A u \in Users :
       disk[u] # NoToken /\ disk'[u] # NoToken /\ disk'[u].secret = disk[u].secret
         => disk'[u].lastUsed >= disk[u].lastUsed]_vars
=============================================================================
