---------------------------- MODULE TokensProofs ----------------------------
(***************************************************************************)
(* Proofs about the token registry, for every set of users, secrets and    *)
(* calls, every throttle, queue depth and clock bound.                     *)
(***************************************************************************)
EXTENDS Tokens, SequenceTheorems, TLAPS

-----------------------------------------------------------------------------
(* The inductive invariant                                                 *)

\* A token the registry holds or is about to hold: its secret was minted and never
\* replaced, its stamp is a past use of that secret, its expiry follows its issue.
Sound(t) ==
  t # NoToken =>
    /\ t.secret \in minted /\ t.secret \notin dead
    /\ t.lastUsed <= clock
    /\ t.usedBy = IF t.lastUsed = 0 THEN NoSecret ELSE t.secret
    /\ t.expires # 0 => t.issued <= t.expires

\* The rows and the cached tokens are sound, and no two rows share a secret.
RowsSound ==
  /\ \A u \in Users : Sound(disk[u]) /\ Sound(byUser[u])
  /\ \A u, v \in Users : disk[u] # NoToken /\ disk[u].secret = disk[v].secret => u = v

\* A token in memory against its row: the same but for a last_used the row lags behind.
Lags(row, t) ==
  \/ row = NoToken /\ t = NoToken
  \/ /\ row # NoToken /\ t # NoToken
     /\ row.secret = t.secret /\ row.issued = t.issued /\ row.expires = t.expires
     /\ row.activatedBy = t.activatedBy
     /\ row.lastUsed <= t.lastUsed

\* While the daemon runs, each row belongs to the cached token, or after the commit of
\* the mutator in progress to the token it is about to publish.
Committed(u) == op # NoOp /\ op.phase = "committed" /\ op.user = u

RowsFollow ==
  up => \A u \in Users : Lags(disk[u], IF Committed(u) THEN op.token ELSE byUser[u])

\* Both indexes list the same tokens; a daemon that is down holds nothing.
IndexesAgree ==
  /\ up => \A s \in Secrets, u \in Users : byToken[s] = u <=> byUser[u].secret = s
  /\ ~up => /\ op = NoOp /\ queue = <<>>
            /\ byUser = [u \in Users |-> NoToken]
            /\ byToken = [s \in Secrets |-> NoUser]
            /\ persisted = [u \in Users |-> 0]
            /\ call = [c \in Calls |-> Idle]

\* What the mutator in progress carries: a put a secret no token has, a revocation
\* nothing, an activation the cached token with its mark changed.
OpSound ==
  op # NoOp =>
    /\ Sound(op.token)
    /\ op.kind = "put" =>
         /\ op.token # NoToken /\ op.token.lastUsed = 0
         /\ byToken[op.token.secret] = NoUser
         /\ \A u \in Users : byUser[u].secret # op.token.secret
         /\ op.phase = "locked" => \A u \in Users : disk[u].secret # op.token.secret
    /\ op.kind = "revoke" => op.token = NoToken
    /\ op.kind = "activate" =>
         /\ byUser[op.user] # NoToken /\ op.token # NoToken
         /\ op.token = [byUser[op.user] EXCEPT !.activatedBy = op.token.activatedBy]

\* A stamp on its way to the table: in a call that has not queued it yet, or queued.
InFlight(u, s, a) ==
  \/ \E c \in Calls : /\ call[c].pc = "stamped" /\ call[c].user = u
                      /\ call[c].secret = s /\ call[c].at = a
  \/ \E i \in 1..Len(queue) : /\ queue[i].user = u /\ queue[i].secret = s
                              /\ queue[i].at = a

\* A stamp in flight is a past use of a minted secret which the cached token has seen;
\* until the writer's first write for the user it is no older than the row.
StampsSound ==
  \A u \in Users, s \in Secrets, a \in Nat : InFlight(u, s, a) =>
    /\ s \in minted /\ 0 < a /\ a <= clock
    /\ byUser[u].secret = s => a <= byUser[u].lastUsed
    /\ op # NoOp /\ op.kind = "put" => s # op.token.secret
    /\ persisted[u] = 0 => disk[u].lastUsed <= a

\* The writer remembers a time no older than the stamp in the row.
WriterAhead == \A u \in Users : persisted[u] # 0 => disk[u].lastUsed <= persisted[u]

IInv ==
  /\ TypeOK /\ DeadStaysDead
  /\ RowsSound /\ RowsFollow /\ IndexesAgree /\ OpSound /\ StampsSound /\ WriterAhead

-----------------------------------------------------------------------------
(* Facts about tokens and stamps                                           *)

Op == [kind : {"put", "revoke", "activate"}, user : Users,
       token : Token \cup {NoToken}, phase : {"locked", "committed"}]

Busy == [pc : {"stamped", "activating"}, user : Users, secret : Secrets, at : Nat,
         report : BOOLEAN]

LEMMA TokenCases ==
  ASSUME NEW t \in Token \cup {NoToken}
  PROVE  /\ t.lastUsed \in Nat
         /\ t = NoToken <=> t.secret = NoSecret
         /\ t # NoToken => t \in Token /\ t.secret \in Secrets
         /\ t = NoToken => t.lastUsed = 0
BY TokensAssumption DEF Token, NoToken, NoSecret

\* Two tokens of which one lags the other are equal when their stamps are.
LEMMA LagIsStamp ==
  ASSUME NEW r \in Token \cup {NoToken}, NEW t \in Token \cup {NoToken},
         Sound(r), Sound(t), Lags(r, t)
  PROVE  \/ t = r
         \/ /\ t # NoToken /\ r # NoToken
            /\ r.lastUsed < t.lastUsed
            /\ t = [r EXCEPT !.lastUsed = t.lastUsed, !.usedBy = t.usedBy]
<1>1. CASE r = NoToken \/ t = NoToken
  BY <1>1 DEF Lags
<1>2. CASE r # NoToken /\ t # NoToken
  <2>1. r \in Token /\ t \in Token
    BY <1>2
  <2>2. t = [r EXCEPT !.lastUsed = t.lastUsed, !.usedBy = t.usedBy]
    BY <1>2, <2>1 DEF Lags, Token
  <2>3. CASE r.lastUsed = t.lastUsed
    BY <1>2, <2>1, <2>2, <2>3 DEF Lags, Sound, Token
  <2>4. CASE r.lastUsed # t.lastUsed
    BY <1>2, <2>1, <2>2, <2>4 DEF Lags, Token
  <2> QED BY <2>3, <2>4
<1> QED BY <1>1, <1>2

\* The invariant gives what the two properties of the registry state.
LEMMA CacheMatches == IInv => CacheMatchesTable
<1> SUFFICES ASSUME IInv PROVE CacheMatchesTable
  OBVIOUS
<1>1. ASSUME Free, NEW u \in Users
      PROVE  \/ byUser[u] = disk[u]
             \/ /\ byUser[u] # NoToken /\ disk[u] # NoToken
                /\ disk[u].lastUsed < byUser[u].lastUsed
                /\ byUser[u] = [disk[u] EXCEPT !.lastUsed = byUser[u].lastUsed,
                                                !.usedBy = byUser[u].usedBy]
  <2>1. Lags(disk[u], byUser[u])
    BY <1>1 DEF IInv, RowsFollow, Committed, Free
  <2>2. Sound(disk[u]) /\ Sound(byUser[u])
    BY DEF IInv, RowsSound
  <2>3. disk[u] \in Token \cup {NoToken} /\ byUser[u] \in Token \cup {NoToken}
    BY DEF IInv, TypeOK
  <2> QED BY <2>1, <2>2, <2>3, LagIsStamp
<1> QED BY <1>1 DEF CacheMatchesTable, IInv, IndexesAgree

LEMMA OwnStamps == IInv => StampIsOwn
<1> SUFFICES ASSUME IInv, NEW u \in Users, disk[u].lastUsed # 0
             PROVE  disk[u].usedBy = disk[u].secret
  BY DEF StampIsOwn
<1>1. disk[u] \in Token \cup {NoToken} /\ Sound(disk[u])
  BY DEF IInv, TypeOK, RowsSound
<1> QED BY <1>1, TokenCases DEF Sound

LEMMA InitIInv == Init => IInv
<1> SUFFICES ASSUME Init PROVE IInv
  OBVIOUS
<1>1. queue \in Seq(Stamp) /\ Len(queue) = 0
  BY EmptySeq DEF Init
<1>2. TypeOK
  <2>1. up \in BOOLEAN
    BY Zenon DEF Init
  <2> QED BY <1>1, <2>1, TokensAssumption DEF Init, TypeOK
<1>3. RowsSound /\ RowsFollow /\ OpSound /\ WriterAhead
  BY TokensAssumption DEF Init, RowsSound, RowsFollow, OpSound, WriterAhead, Sound, Lags, Committed, NoToken
<1>4. IndexesAgree /\ DeadStaysDead
  BY TokensAssumption DEF Init, IndexesAgree, NoToken, NoUser, DeadStaysDead
<1>5. StampsSound
  BY <1>1 DEF Init, StampsSound, InFlight, Idle
<1> QED BY <1>2, <1>3, <1>4, <1>5 DEF IInv

-----------------------------------------------------------------------------
(* Steps that keep the invariant: taking the lock                          *)

\* A token stays sound while secrets are only minted and time only passes.
LEMMA SoundKept ==
  ASSUME NEW t, Sound(t), minted \subseteq minted', dead' = dead, clock' = clock
  PROVE  Sound(t)'
BY DEF Sound

\* Taking the lock with a sound operation, whose secret is fresh for a put.
LEMMA LockKeeps ==
  ASSUME IInv, Free, NEW o \in Op, op' = o, o.phase = "locked",
         UNCHANGED <<clock, up, disk, byUser, byToken, queue, persisted, dead>>,
         minted \subseteq minted', minted' \subseteq Secrets,
         call' \in [Calls -> {Idle} \cup Busy],
         \A c \in Calls : call'[c] = call[c] \/ call'[c] = Idle,
         o.kind = "put" => o.token.secret \notin minted,
         OpSound'
  PROVE  IInv'
<1>1. TypeOK'
  BY DEF IInv, TypeOK, Op, Busy
<1>2. DeadStaysDead'
  BY DEF IInv, DeadStaysDead
<1>3. RowsSound'
  BY SoundKept DEF IInv, RowsSound, Sound
<1>4. RowsFollow' /\ IndexesAgree' /\ WriterAhead'
  BY DEF IInv, RowsFollow, Committed, IndexesAgree, WriterAhead, Lags, Free, Op, NoOp
<1>5. StampsSound'
  <2> SUFFICES ASSUME NEW u \in Users, NEW s \in Secrets, NEW a \in Nat,
                      InFlight(u, s, a)'
               PROVE  (/\ s \in minted /\ 0 < a /\ a <= clock
                       /\ byUser[u].secret = s => a <= byUser[u].lastUsed
                       /\ op # NoOp /\ op.kind = "put" => s # op.token.secret
                       /\ persisted[u] = 0 => disk[u].lastUsed <= a)'
    BY DEF StampsSound
  <2>1. InFlight(u, s, a)
    BY DEF InFlight, Idle
  <2> QED BY <2>1 DEF IInv, StampsSound
<1> QED BY <1>1, <1>2, <1>3, <1>4, <1>5 DEF IInv

\* A minted secret is in no row, no index and no cached token.
LEMMA FreshIsNowhere ==
  ASSUME IInv, Free, NEW s \in Secrets, s \notin minted
  PROVE  /\ s \notin dead
         /\ \A u \in Users : byUser[u].secret # s /\ disk[u].secret # s
         /\ byToken[s] = NoUser
<1>1. \A u \in Users : byUser[u].secret # s /\ disk[u].secret # s
  <2> SUFFICES ASSUME NEW u \in Users PROVE byUser[u].secret # s /\ disk[u].secret # s
    OBVIOUS
  <2>1. disk[u] \in Token \cup {NoToken} /\ byUser[u] \in Token \cup {NoToken}
    BY DEF IInv, TypeOK
  <2>2. Sound(disk[u]) /\ Sound(byUser[u])
    BY DEF IInv, RowsSound
  <2> QED BY <2>1, <2>2, TokenCases, TokensAssumption DEF Sound, NoSecret
<1>2. byToken[s] = NoUser
  BY <1>1 DEF IInv, IndexesAgree, Free, TypeOK
<1> QED BY <1>1, <1>2 DEF IInv, TypeOK

\* A fresh token is a sound token.
LEMMA FreshIsSound ==
  ASSUME IInv, NEW s \in Secrets, s \notin minted, NEW span \in Nat
  PROVE  /\ Fresh(s, span) \in Token
         /\ Fresh(s, span).secret = s /\ Fresh(s, span).lastUsed = 0
         /\ Fresh(s, span).usedBy = NoSecret
         /\ Fresh(s, span).expires # 0 => Fresh(s, span).issued <= Fresh(s, span).expires
<1>1. clock \in Nat
  BY TokensAssumption DEF IInv, TypeOK
<1> QED BY <1>1 DEF Fresh, Token

\* A put of a fresh secret, AddToken's or RotateToken's.
LEMMA PutKeeps ==
  ASSUME IInv, NEW u \in Users, NEW s \in Secrets, NEW span \in Nat, s \notin minted,
         minted' = minted \cup {s}, UNCHANGED call,
         Lock([kind |-> "put", user |-> u, token |-> Fresh(s, span), phase |-> "locked"])
  PROVE  IInv'
<1> DEFINE o == [kind |-> "put", user |-> u, token |-> Fresh(s, span), phase |-> "locked"]
<1>1. /\ Free /\ op' = o
      /\ UNCHANGED <<clock, up, disk, byUser, byToken, queue, persisted, dead>>
  BY DEF Lock
<1>2. o \in Op /\ o.phase = "locked" /\ o.kind = "put" /\ o.token = Fresh(s, span)
  BY FreshIsSound DEF Op
<1>3. /\ s \notin dead /\ byToken[s] = NoUser
      /\ \A v \in Users : byUser[v].secret # s /\ disk[v].secret # s
  BY <1>1, FreshIsNowhere
<1>4. o.token # NoToken
  BY <1>2, FreshIsSound, TokensAssumption DEF NoToken
<1>5. /\ o.token.secret = s /\ o.token.lastUsed = 0 /\ o.token.usedBy = NoSecret
      /\ o.token.expires # 0 => o.token.issued <= o.token.expires
  BY <1>2, FreshIsSound
<1> HIDE DEF o
<1>6. OpSound'
  <2>1. clock \in Nat
    BY TokensAssumption DEF IInv, TypeOK
  <2>2. Sound(op.token)'
    BY <1>1, <1>3, <1>5, <2>1 DEF Sound
  <2> QED BY <1>1, <1>2, <1>3, <1>4, <1>5, <2>2 DEF OpSound
<1>7. call' \in [Calls -> {Idle} \cup Busy] /\ minted \subseteq Secrets
  BY DEF IInv, TypeOK, Busy
<1> QED BY <1>1, <1>2, <1>6, <1>7, FreshIsSound, LockKeeps

LEMMA AddTokenKeeps ==
  ASSUME IInv, NEW u \in Users, NEW s \in Secrets, NEW span \in Spans, AddToken(u, s, span)
  PROVE  IInv'
BY PutKeeps, TokensAssumption DEF AddToken

LEMMA RotateTokenKeeps ==
  ASSUME IInv, NEW u \in Users, NEW s \in Secrets, RotateToken(u, s)
  PROVE  IInv'
<1> DEFINE old  == byUser[u]
           span == IF old.expires = 0 THEN 0 ELSE old.expires - old.issued
<1>1. old \in Token /\ Sound(old)
  BY DEF RotateToken, IInv, TypeOK, RowsSound
<1>2. span \in Nat
  BY <1>1 DEF RotateToken, Sound, Token
<1>3. /\ s \notin minted /\ minted' = minted \cup {s} /\ UNCHANGED call
      /\ Lock([kind |-> "put", user |-> u, token |-> Fresh(s, span), phase |-> "locked"])
  BY DEF RotateToken
<1> QED BY <1>2, <1>3, PutKeeps

LEMMA RevokeTokenKeeps ==
  ASSUME IInv, NEW u \in Users, RevokeToken(u)
  PROVE  IInv'
<1> DEFINE o == [kind |-> "revoke", user |-> u, token |-> NoToken, phase |-> "locked"]
<1>1. /\ Free /\ op' = o /\ UNCHANGED <<call, minted>>
      /\ UNCHANGED <<clock, up, disk, byUser, byToken, queue, persisted, dead>>
  BY DEF RevokeToken, Lock
<1>2. o \in Op /\ o.phase = "locked" /\ o.kind = "revoke" /\ o.token = NoToken
  BY DEF Op
<1> HIDE DEF o
<1>3. OpSound'
  BY <1>1, <1>2 DEF OpSound, Sound
<1>4. call' \in [Calls -> {Idle} \cup Busy] /\ minted \subseteq Secrets
  BY <1>1 DEF IInv, TypeOK, Busy
<1> QED BY <1>1, <1>2, <1>3, <1>4, LockKeeps

\* Only calls and queue change, and no stamp comes into being.
LEMMA CallsKeep ==
  ASSUME IInv, up, call' \in [Calls -> {Idle} \cup Busy],
         queue' \in Seq(Stamp), Len(queue') <= QueueDepth,
         \A u \in Users, s \in Secrets, a \in Nat : InFlight(u, s, a)' => InFlight(u, s, a),
         UNCHANGED <<clock, up, disk, byUser, byToken, op, persisted, history>>
  PROVE  IInv'
<1>1. TypeOK' /\ DeadStaysDead' /\ RowsSound' /\ WriterAhead'
  BY DEF IInv, TypeOK, Busy, DeadStaysDead, RowsSound, Sound, WriterAhead, history
<1>2. RowsFollow' /\ IndexesAgree' /\ OpSound'
  BY DEF IInv, RowsFollow, Committed, IndexesAgree, Lags, OpSound, Sound, history
<1>3. StampsSound'
  BY DEF IInv, StampsSound, history
<1> QED BY <1>1, <1>2, <1>3 DEF IInv

LEMMA MarkActivatedKeeps ==
  ASSUME IInv, NEW c \in Calls, MarkActivated(c)
  PROVE  IInv'
<1> DEFINE u == call[c].user
           t == byUser[u]
           mark == call[c].secret
           o == [kind |-> "activate", user |-> u,
                 token |-> [t EXCEPT !.activatedBy = mark], phase |-> "locked"]
<1>1. /\ Free /\ op' = (IF t = NoToken THEN NoOp ELSE o)
      /\ call' = [call EXCEPT ![c] = Idle]
      /\ UNCHANGED <<clock, up, disk, byUser, byToken, queue, persisted, minted, dead>>
  BY DEF MarkActivated, history
<1>2. call[c] \in Busy
  BY DEF MarkActivated, IInv, TypeOK, Busy, Idle
<1>3. u \in Users /\ mark \in Secrets
  BY <1>2 DEF Busy
<1>4. /\ call' \in [Calls -> {Idle} \cup Busy]
      /\ \A d \in Calls : call'[d] = call[d] \/ call'[d] = Idle
  BY <1>1 DEF IInv, TypeOK, Busy
<1>5. CASE t = NoToken
  <2>1. op' = op
    BY <1>1, <1>5 DEF Free
  <2>2. \A v \in Users, s \in Secrets, a \in Nat : InFlight(v, s, a)' => InFlight(v, s, a)
    BY <1>1, <1>4 DEF InFlight, Idle
  <2>3. up /\ queue' \in Seq(Stamp) /\ Len(queue') <= QueueDepth
    BY <1>1 DEF Free, IInv, TypeOK
  <2> QED BY <1>1, <1>4, <2>1, <2>2, <2>3, CallsKeep DEF history
<1>6. CASE t # NoToken
  <2>1. t \in Token /\ Sound(t)
    BY <1>3, <1>6 DEF IInv, TypeOK, RowsSound
  <2> DEFINE n == [t EXCEPT !.activatedBy = mark]
  <2>2. /\ n \in Token /\ n.secret = t.secret /\ n.lastUsed = t.lastUsed
        /\ n.usedBy = t.usedBy /\ n.expires = t.expires /\ n.issued = t.issued
        /\ n.activatedBy = mark
    BY <1>3, <2>1 DEF Token
  <2>3. n # NoToken
    BY <2>2, TokensAssumption DEF Token, NoToken
  <2>5. n = [t EXCEPT !.activatedBy = n.activatedBy]
    BY <2>2
  <2>6. /\ o \in Op /\ o.phase = "locked" /\ o.kind = "activate" /\ o.token = n
        /\ o.user = u
    BY <1>3, <2>2 DEF Op
  <2>7. op' = o
    BY <1>1, <1>6
  <2> HIDE DEF o, n
  <2>4. Sound(op.token)'
    BY <1>1, <1>6, <2>1, <2>2, <2>6, <2>7 DEF Sound
  <2>8. OpSound'
    BY <1>1, <1>6, <2>3, <2>4, <2>5, <2>6, <2>7 DEF OpSound
  <2>9. minted' \subseteq Secrets
    BY <1>1 DEF IInv, TypeOK
  <2> QED BY <1>1, <1>4, <2>6, <2>7, <2>8, <2>9, LockKeeps
<1> QED BY <1>5, <1>6

-----------------------------------------------------------------------------
(* Steps that keep the invariant: commit, rollback and publication         *)

\* The mutator in progress is well formed, and its daemon runs.
LEMMA OpFacts ==
  ASSUME IInv, op # NoOp
  PROVE  /\ op \in Op /\ up
         /\ op.user \in Users /\ op.token \in Token \cup {NoToken}
         /\ op.kind \in {"put", "revoke", "activate"}
         /\ op.phase \in {"locked", "committed"}
<1>1. op \in Op
  BY DEF IInv, TypeOK, Op
<1> QED BY <1>1 DEF IInv, IndexesAgree, Op

\* The row a mutator writes.
LEMMA NewRowFacts ==
  ASSUME IInv, op # NoOp, op.phase = "locked"
  PROVE  /\ NewRow(op) \in Token \cup {NoToken}
         /\ Sound(NewRow(op))
         /\ NewRow(op).lastUsed <= disk[op.user].lastUsed
         /\ Lags(NewRow(op), op.token)
         /\ \/ NewRow(op) = NoToken
            \/ op.kind = "put" /\ NewRow(op).secret = op.token.secret
            \/ disk[op.user] # NoToken /\ NewRow(op).secret = disk[op.user].secret
<1> DEFINE d == disk[op.user]
<1>1. /\ op.user \in Users /\ op.token \in Token \cup {NoToken} /\ up
      /\ op.kind \in {"put", "revoke", "activate"}
  BY OpFacts
<1>2. d \in Token \cup {NoToken} /\ Sound(d) /\ d.lastUsed \in Nat
  BY <1>1, TokenCases DEF IInv, TypeOK, RowsSound
<1>3. CASE op.kind = "put"
  <2>1. NewRow(op) = op.token
    BY <1>3 DEF NewRow
  <2>2. op.token \in Token /\ op.token # NoToken /\ Sound(op.token) /\ op.token.lastUsed = 0
    BY <1>1, <1>3 DEF IInv, OpSound
  <2> QED BY <1>1, <1>2, <1>3, <2>1, <2>2 DEF Lags
<1>4. CASE op.kind = "revoke"
  <2>1. NewRow(op) = NoToken /\ op.token = NoToken
    BY <1>4 DEF NewRow, IInv, OpSound
  <2> QED BY <1>2, <2>1 DEF Lags, Sound, NoToken
<1>5. CASE op.kind = "activate"
  <2> DEFINE t == byUser[op.user]
             k == op.token.activatedBy
  <2>1. /\ t \in Token /\ op.token \in Token /\ op.token # NoToken
        /\ op.token = [t EXCEPT !.activatedBy = k]
    BY <1>1, <1>5 DEF IInv, OpSound, TypeOK
  <2>2. Lags(d, t)
    BY <1>1 DEF IInv, RowsFollow, Committed
  <2>3. d # NoToken /\ d \in Token /\ d.secret = op.token.secret
    BY <1>1, <1>2, <1>5, <2>1, <2>2 DEF Lags, IInv, OpSound, Token
  <2>4. NewRow(op) = [d EXCEPT !.activatedBy = k]
    BY <1>5, <2>3 DEF NewRow
  <2> DEFINE n == [d EXCEPT !.activatedBy = k]
  <2>5. /\ n \in Token /\ n.secret = d.secret /\ n.lastUsed = d.lastUsed
        /\ n.usedBy = d.usedBy /\ n.expires = d.expires /\ n.issued = d.issued
        /\ n.activatedBy = k
    BY <2>1, <2>3 DEF Token
  <2>6. n # NoToken
    BY <2>5, TokensAssumption DEF Token, NoToken
  <2>7. /\ op.token.secret = t.secret /\ op.token.lastUsed = t.lastUsed
        /\ op.token.expires = t.expires /\ op.token.issued = t.issued
    BY <2>1 DEF Token
  <2> HIDE DEF n
  <2>8. Lags(n, op.token)
    BY <2>1, <2>2, <2>3, <2>5, <2>6, <2>7 DEF Lags
  <2>9. Sound(n)
    BY <1>2, <2>3, <2>5 DEF Sound
  <2> QED BY <1>2, <2>3, <2>4, <2>5, <2>8, <2>9 DEF n
<1> QED BY <1>1, <1>3, <1>4, <1>5

LEMMA CommitKeeps ==
  ASSUME IInv, Commit
  PROVE  IInv'
<1> DEFINE n == NewRow(op)
           w == op.user
<1>1. /\ op # NoOp /\ op.phase = "locked"
      /\ disk' = [disk EXCEPT ![w] = n]
      /\ op' = [op EXCEPT !.phase = "committed"]
      /\ UNCHANGED <<clock, up, byUser, byToken, queue, persisted, call, minted, dead>>
  BY DEF Commit, history
<1>2. /\ w \in Users /\ op \in Op /\ up
      /\ disk \in [Users -> Token \cup {NoToken}]
  BY <1>1, OpFacts DEF IInv, TypeOK
<1>3. /\ n \in Token \cup {NoToken} /\ Sound(n)
      /\ n.lastUsed <= disk[w].lastUsed
      /\ Lags(n, op.token)
      /\ \/ n = NoToken
         \/ op.kind = "put" /\ n.secret = op.token.secret
         \/ disk[w] # NoToken /\ n.secret = disk[w].secret
  BY <1>1, NewRowFacts
<1>4. /\ op' \in Op /\ op'.kind = op.kind /\ op'.user = w /\ op'.token = op.token
      /\ op'.phase = "committed"
  BY <1>1, <1>2 DEF Op
<1>5. op' # NoOp
  BY <1>4 DEF Op, NoOp
<1>6. disk'[w] = n /\ \A u \in Users : u # w => disk'[u] = disk[u]
  BY <1>1, <1>2
<1> HIDE DEF n, w
<1>7. TypeOK'
  BY <1>1, <1>2, <1>3, <1>4 DEF IInv, TypeOK, Op
<1>8. \A u \in Users : Sound(disk[u])'
  <2> SUFFICES ASSUME NEW u \in Users PROVE Sound(disk[u])'
    OBVIOUS
  <2>1. CASE u = w
    BY <1>1, <1>3, <1>6, <2>1 DEF Sound
  <2>2. CASE u # w
    BY <1>1, <1>6, <2>2 DEF IInv, RowsSound, Sound
  <2> QED BY <2>1, <2>2
<1>9. DeadStaysDead'
  <2> SUFFICES ASSUME NEW s \in dead, NEW u \in Users
               PROVE  disk'[u].secret # s
    BY <1>1 DEF IInv, DeadStaysDead
  <2>1. disk'[u] \in Token \cup {NoToken} /\ s \in Secrets
    BY <1>7 DEF TypeOK, IInv
  <2>2. Sound(disk[u])'
    BY <1>8
  <2> QED BY <1>1, <2>1, <2>2, TokenCases, TokensAssumption DEF Sound, IInv, DeadStaysDead, NoSecret
<1>10. RowsSound'
  <2>1. \A u \in Users : Sound(byUser[u])'
    BY <1>1 DEF IInv, RowsSound, Sound
  <2>2. ASSUME NEW u \in Users, NEW v \in Users, disk'[u] # NoToken,
               disk'[u].secret = disk'[v].secret
        PROVE  u = v
    <3>1. op.kind = "put" => \A x \in Users : disk[x].secret # op.token.secret
      BY <1>1 DEF IInv, OpSound
    <3>2. disk'[v] # NoToken
      BY <1>7, <2>2, TokenCases DEF TypeOK
    <3>3. \A x, y \in Users : disk[x] # NoToken /\ disk[x].secret = disk[y].secret => x = y
      BY DEF IInv, RowsSound
    <3> QED BY <1>2, <1>3, <1>6, <2>2, <3>1, <3>2, <3>3
  <2> QED BY <1>8, <2>1, <2>2 DEF RowsSound
<1>11. RowsFollow'
  <2> SUFFICES ASSUME NEW u \in Users
               PROVE  Lags(disk'[u], IF Committed(u)' THEN op'.token ELSE byUser'[u])
    BY DEF RowsFollow, Lags
  <2>1. CASE u = w
    BY <1>3, <1>4, <1>5, <1>6, <2>1 DEF Committed
  <2>2. CASE u # w
    BY <1>1, <1>2, <1>4, <1>6, <2>2 DEF Committed, IInv, RowsFollow
  <2> QED BY <2>1, <2>2
<1>12. IndexesAgree'
  BY <1>1, <1>2 DEF IInv, IndexesAgree
<1>13. OpSound'
  BY <1>1, <1>2, <1>4 DEF IInv, OpSound, Sound, w
<1>14. WriterAhead'
  <2> SUFFICES ASSUME NEW u \in Users, persisted[u] # 0 PROVE disk'[u].lastUsed <= persisted[u]
    BY <1>1 DEF WriterAhead
  <2>1. disk[u].lastUsed \in Nat /\ disk'[u].lastUsed \in Nat /\ persisted[u] \in Nat
    BY <1>7, TokenCases DEF TypeOK, IInv
  <2> QED BY <1>3, <1>6, <2>1 DEF IInv, WriterAhead
<1>15. StampsSound'
  <2> SUFFICES ASSUME NEW u \in Users, NEW s \in Secrets, NEW a \in Nat,
                      InFlight(u, s, a)'
               PROVE  (/\ s \in minted /\ 0 < a /\ a <= clock
                       /\ byUser[u].secret = s => a <= byUser[u].lastUsed
                       /\ op # NoOp /\ op.kind = "put" => s # op.token.secret
                       /\ persisted[u] = 0 => disk[u].lastUsed <= a)'
    BY DEF StampsSound
  <2>1. InFlight(u, s, a)
    BY <1>1 DEF InFlight
  <2>2. disk[u].lastUsed \in Nat /\ disk'[u].lastUsed \in Nat
    BY <1>7, TokenCases DEF TypeOK, IInv
  <2>3. disk'[u].lastUsed <= disk[u].lastUsed
    BY <1>3, <1>6, <2>2
  <2> QED BY <1>1, <1>4, <2>1, <2>2, <2>3 DEF IInv, StampsSound
<1> QED BY <1>7, <1>9, <1>10, <1>11, <1>12, <1>13, <1>14, <1>15 DEF IInv

LEMMA RollbackKeeps ==
  ASSUME IInv, Rollback
  PROVE  IInv'
<1>1. /\ op # NoOp /\ op.phase = "locked" /\ op' = NoOp
      /\ UNCHANGED <<clock, up, disk, byUser, byToken, queue, persisted, call, minted, dead>>
  BY DEF Rollback, history
<1>2. up
  BY <1>1, OpFacts
<1>3. TypeOK' /\ DeadStaysDead' /\ RowsSound' /\ WriterAhead' /\ OpSound'
  BY <1>1 DEF IInv, TypeOK, DeadStaysDead, RowsSound, Sound, WriterAhead, OpSound
<1>4. RowsFollow' /\ IndexesAgree'
  BY <1>1, <1>2 DEF IInv, RowsFollow, Committed, IndexesAgree, Lags
<1>5. StampsSound'
  <2>1. ASSUME NEW u, NEW s, NEW a, InFlight(u, s, a)' PROVE InFlight(u, s, a)
    BY <1>1, <2>1 DEF InFlight
  <2> QED BY <1>1, <2>1 DEF IInv, StampsSound
<1> QED BY <1>3, <1>4, <1>5 DEF IInv

LEMMA TickKeeps ==
  ASSUME IInv, Tick
  PROVE  IInv'
<1>1. /\ clock < MaxTime /\ clock' = clock + 1
      /\ UNCHANGED <<up, disk, byUser, byToken, op, queue, persisted, call, minted, dead>>
  BY DEF Tick, history
<1>2. clock \in Nat
  BY TokensAssumption DEF IInv, TypeOK
<1>3. TypeOK'
  BY <1>1, TokensAssumption DEF IInv, TypeOK
<1>4. ASSUME NEW t \in Token \cup {NoToken}, Sound(t) PROVE Sound(t)'
  <2>1. t.lastUsed \in Nat
    BY <1>4, TokenCases
  <2> QED BY <1>1, <1>2, <1>4, <2>1 DEF Sound
<1>5. RowsSound'
  BY <1>1, <1>4 DEF IInv, TypeOK, RowsSound, Sound
<1>6. OpSound'
  <2>1. op # NoOp => Sound(op.token)'
    BY <1>1, <1>4, OpFacts DEF IInv, OpSound, Sound
  <2> QED BY <1>1, <2>1 DEF IInv, OpSound
<1>7. DeadStaysDead' /\ RowsFollow' /\ IndexesAgree' /\ WriterAhead'
  BY <1>1 DEF IInv, DeadStaysDead, RowsFollow, Committed, Lags, IndexesAgree, WriterAhead
<1>8. StampsSound'
  <2>1. ASSUME NEW u, NEW s, NEW a, InFlight(u, s, a)' PROVE InFlight(u, s, a)
    BY <1>1, <2>1 DEF InFlight
  <2> QED BY <1>1, <1>2, <2>1 DEF IInv, StampsSound
<1> QED BY <1>3, <1>5, <1>6, <1>7, <1>8 DEF IInv

\* What the maps hold once the mutator has published.
LEMMA ReturnFacts ==
  ASSUME IInv, Return
  PROVE  /\ op # NoOp /\ up
         /\ byUser' \in [Users -> Token \cup {NoToken}]
         /\ \A u \in Users : Lags(disk[u], byUser'[u])
         /\ \A u \in Users : u # op.user => byUser'[u] = byUser[u]
         /\ byUser'[op.user] = op.token
<1>1. op # NoOp /\ op.phase = "committed" /\ byUser' = [byUser EXCEPT ![op.user] = op.token]
  BY DEF Return
<1>2. op.user \in Users /\ op.token \in Token \cup {NoToken} /\ up
  BY <1>1, OpFacts
<1>3. byUser \in [Users -> Token \cup {NoToken}]
  BY DEF IInv, TypeOK
<1>4. \A u \in Users : Lags(disk[u], byUser'[u])
  BY <1>1, <1>2, <1>3 DEF IInv, RowsFollow, Committed
<1> QED BY <1>1, <1>2, <1>3, <1>4

\* The secret index after publication.
LEMMA ReturnIndex ==
  ASSUME IInv, Return
  PROVE  /\ byToken' \in [Secrets -> Users \cup {NoUser}]
         /\ \A s \in Secrets, u \in Users : byToken'[s] = u <=> byUser'[u].secret = s
<1> DEFINE w == op.user
           old == byUser[w]
<1>1. /\ op # NoOp /\ w \in Users /\ op.token \in Token \cup {NoToken} /\ up
      /\ op.kind \in {"put", "revoke", "activate"}
  BY OpFacts DEF Return
<1>2. /\ \A u \in Users : u # w => byUser'[u] = byUser[u]
      /\ byUser'[w] = op.token
  BY ReturnFacts
<1>3. /\ \A s \in Secrets, u \in Users : byToken[s] = u <=> byUser[u].secret = s
      /\ byToken \in [Secrets -> Users \cup {NoUser}]
  BY <1>1 DEF IInv, IndexesAgree, TypeOK
<1>4. old \in Token \cup {NoToken}
  BY <1>1 DEF IInv, TypeOK
<1>5. CASE op.kind = "activate"
  <2>1. byToken' = byToken
    BY <1>5 DEF Return
  <2>2. op.token.secret = old.secret
    BY <1>1, <1>4, <1>5 DEF IInv, OpSound, Token
  <2> QED BY <1>1, <1>2, <1>3, <2>1, <2>2
<1>6. CASE op.kind # "activate"
  <2>1. byToken' = [s \in Secrets |->
                      CASE op.token # NoToken /\ s = op.token.secret -> w
                        [] old # NoToken /\ s = old.secret -> NoUser
                        [] OTHER -> byToken[s]]
    BY <1>6 DEF Return, Reindexed
  <2>2. op.token # NoToken => op.kind = "put" /\ \A u \in Users : byUser[u].secret # op.token.secret
    BY <1>1, <1>6 DEF IInv, OpSound
  <2>3. ASSUME NEW s \in Secrets
        PROVE  byToken'[s] = IF op.token # NoToken /\ s = op.token.secret THEN w
                             ELSE IF old # NoToken /\ s = old.secret THEN NoUser
                             ELSE byToken[s]
    BY <1>1, <2>1, <2>2
  <2>4. byToken' \in [Secrets -> Users \cup {NoUser}]
    <3>1. DOMAIN byToken' = Secrets /\ byToken' = [s \in Secrets |-> byToken'[s]]
      BY <2>1
    <3>2. \A s \in Secrets : byToken'[s] \in Users \cup {NoUser}
      BY <1>1, <1>3, <2>3
    <3> QED BY <3>1, <3>2
  <2>5. ASSUME NEW s \in Secrets, NEW u \in Users
        PROVE  byToken'[s] = u <=> byUser'[u].secret = s
    <3>1. u # NoUser /\ s # NoSecret
      BY <2>5, TokensAssumption DEF NoUser, NoSecret
    <3>2. /\ op.token = NoToken <=> op.token.secret = NoSecret
          /\ old = NoToken <=> old.secret = NoSecret
      BY <1>1, <1>4, TokenCases
    <3>3. byToken[s] = u <=> byUser[u].secret = s
      BY <1>3
    <3>4. old.secret = s <=> byToken[s] = w
      BY <1>1, <1>3
    <3>5. CASE op.token # NoToken /\ s = op.token.secret
      BY <1>1, <1>2, <2>2, <2>3, <3>5
    <3>6. CASE ~(op.token # NoToken /\ s = op.token.secret)
      BY <1>1, <1>2, <2>3, <3>1, <3>2, <3>3, <3>4, <3>6
    <3> QED BY <3>5, <3>6
  <2> QED BY <2>4, <2>5
<1> QED BY <1>5, <1>6

LEMMA ReturnKeeps ==
  ASSUME IInv, Return
  PROVE  IInv'
<1> DEFINE w == op.user
           old == byUser[w]
<1>1. /\ op # NoOp /\ up /\ op' = NoOp
      /\ byUser' \in [Users -> Token \cup {NoToken}]
      /\ byToken' \in [Secrets -> Users \cup {NoUser}]
      /\ UNCHANGED <<clock, up, disk, queue, persisted, call, minted>>
  BY ReturnFacts, ReturnIndex DEF Return
<1>2. w \in Users /\ op.kind \in {"put", "revoke", "activate"} /\ op.token \in Token \cup {NoToken}
  BY <1>1, OpFacts
<1>3. old \in Token \cup {NoToken} /\ Sound(old)
  BY <1>2 DEF IInv, TypeOK, RowsSound
<1>4. \A u \in Users : Lags(disk[u], byUser'[u])
  BY ReturnFacts
<1>5. \A s \in Secrets, u \in Users : byToken'[s] = u <=> byUser'[u].secret = s
  BY ReturnIndex
<1>6. \A u \in Users : u # w => byUser'[u] = byUser[u]
  BY ReturnFacts
<1>7. byUser'[w] = op.token
  BY ReturnFacts
<1>8. \/ dead' = dead
      \/ op.kind # "activate" /\ old # NoToken /\ dead' = dead \cup {old.secret}
  BY DEF Return
<1>9. dead' \subseteq minted'
  BY <1>1, <1>3, <1>8 DEF Sound, IInv, TypeOK
<1>10. TypeOK'
  BY <1>1, <1>9 DEF IInv, TypeOK
<1>11. \A s \in dead', u \in Users : byUser'[u].secret # s
  <2> SUFFICES ASSUME NEW s \in dead', NEW u \in Users PROVE byUser'[u].secret # s
    OBVIOUS
  <2>1. s \in Secrets
    BY <1>10 DEF TypeOK
  <2>2. CASE s \in dead
    <3>1. byUser[u] \in Token \cup {NoToken} /\ Sound(byUser[u]) /\ Sound(op.token)
      BY <1>1 DEF IInv, TypeOK, RowsSound, OpSound
    <3> QED BY <1>2, <1>6, <1>7, <2>1, <2>2, <3>1, TokenCases, TokensAssumption DEF Sound, NoSecret
  <2>3. CASE s \notin dead
    <3>1. s = old.secret /\ op.kind # "activate"
      BY <1>8, <2>3
    <3>2. op.token.secret # s
      <4>1. CASE op.kind = "put"
        BY <1>1, <1>2, <3>1, <4>1 DEF IInv, OpSound
      <4>2. CASE op.kind = "revoke"
        BY <1>1, <2>1, <4>2, TokensAssumption DEF IInv, OpSound, NoToken
      <4> QED BY <1>2, <3>1, <4>1, <4>2
    <3>3. u # w => byUser[u].secret # s
      BY <1>1, <1>2, <2>1, <3>1 DEF IInv, IndexesAgree
    <3> QED BY <1>6, <1>7, <3>2, <3>3
  <2> QED BY <2>2, <2>3
<1>12. \A s \in dead', u \in Users : disk[u].secret # s
  <2> SUFFICES ASSUME NEW s \in dead', NEW u \in Users PROVE disk[u].secret # s
    OBVIOUS
  <2>1. Lags(disk[u], byUser'[u]) /\ byUser'[u].secret # s
    BY <1>4, <1>11
  <2> QED BY <2>1 DEF Lags
<1>13. DeadStaysDead'
  <2>1. ASSUME NEW s \in dead' PROVE byToken'[s] = NoUser
    <3>1. s \in Secrets
      BY <1>10 DEF TypeOK
    <3> QED BY <1>1, <1>5, <1>11, <3>1
  <2> QED BY <1>1, <1>12, <2>1 DEF DeadStaysDead
<1>14. RowsSound'
  <2>1. ASSUME NEW u \in Users PROVE Sound(disk[u])' /\ Sound(byUser[u])'
    <3>1. Sound(disk[u]) /\ Sound(byUser[u]) /\ Sound(op.token)
      BY <1>1 DEF IInv, RowsSound, OpSound
    <3>2. byUser'[u] = byUser[u] \/ byUser'[u] = op.token
      BY <1>6, <1>7
    <3>3. disk[u].secret \notin dead' /\ byUser'[u].secret \notin dead'
      BY <1>11, <1>12
    <3> QED BY <1>1, <3>1, <3>2, <3>3 DEF Sound
  <2> QED BY <1>1, <2>1 DEF IInv, RowsSound
<1>15. RowsFollow' /\ IndexesAgree' /\ OpSound' /\ WriterAhead'
  BY <1>1, <1>4, <1>5 DEF IInv, RowsFollow, Lags, Committed, IndexesAgree, OpSound, WriterAhead
<1>16. StampsSound'
  <2> SUFFICES ASSUME NEW u \in Users, NEW s \in Secrets, NEW a \in Nat,
                      InFlight(u, s, a)'
               PROVE  (/\ s \in minted /\ 0 < a /\ a <= clock
                       /\ byUser[u].secret = s => a <= byUser[u].lastUsed
                       /\ op # NoOp /\ op.kind = "put" => s # op.token.secret
                       /\ persisted[u] = 0 => disk[u].lastUsed <= a)'
    BY DEF StampsSound
  <2>1. InFlight(u, s, a)
    BY <1>1 DEF InFlight
  <2>2. /\ s \in minted /\ 0 < a /\ a <= clock
        /\ byUser[u].secret = s => a <= byUser[u].lastUsed
        /\ op.kind = "put" => s # op.token.secret
        /\ persisted[u] = 0 => disk[u].lastUsed <= a
    BY <1>1, <2>1 DEF IInv, StampsSound
  <2>3. ASSUME byUser'[u].secret = s PROVE a <= byUser'[u].lastUsed
    <3>1. CASE u # w
      BY <1>6, <2>2, <2>3, <3>1
    <3>2. CASE u = w
      <4>1. op.token.secret = s
        BY <1>7, <2>3, <3>2
      <4>2. op.kind # "revoke"
        BY <1>1, <4>1, TokensAssumption DEF IInv, OpSound, NoToken
      <4>3. op.kind = "activate"
        BY <1>2, <2>2, <4>1, <4>2
      <4>4. op.token.secret = old.secret /\ op.token.lastUsed = old.lastUsed
        BY <1>1, <1>3, <4>3 DEF IInv, OpSound, Token
      <4> QED BY <1>7, <2>2, <3>2, <4>1, <4>4
    <3> QED BY <3>1, <3>2
  <2> QED BY <1>1, <2>2, <2>3
<1> QED BY <1>10, <1>13, <1>14, <1>15, <1>16 DEF IInv

-----------------------------------------------------------------------------
(* Steps that keep the invariant: Validate and the writer                  *)

LEMMA ValidateKeeps ==
  ASSUME IInv, NEW c \in Calls, NEW s \in Secrets, NEW report \in BOOLEAN,
         Validate(c, s, report)
  PROVE  IInv'
<1> DEFINE u == byToken[s]
           t == byUser[u]
           n == [t EXCEPT !.lastUsed = clock, !.usedBy = s]
           r == [pc |-> IF Stamps(t) THEN "stamped" ELSE "activating",
                 user |-> u, secret |-> s, at |-> clock, report |-> report]
<1>1. /\ up /\ op = NoOp /\ call[c] = Idle /\ u # NoUser
      /\ byUser' = (IF Stamps(t)
                      THEN [byUser EXCEPT ![u].lastUsed = clock, ![u].usedBy = s]
                      ELSE byUser)
      /\ call' = [call EXCEPT ![c] = IF Stamps(t) \/ report THEN r ELSE Idle]
      /\ UNCHANGED <<clock, up, disk, byToken, op, queue, persisted, minted, dead>>
  BY DEF Validate, Free, history
<1>2. u \in Users /\ t.secret = s
  BY <1>1 DEF IInv, TypeOK, IndexesAgree
<1>3. t \in Token /\ t # NoToken /\ Sound(t)
  <2>1. t \in Token \cup {NoToken} /\ Sound(t)
    BY <1>2 DEF IInv, TypeOK, RowsSound
  <2> QED BY <1>2, <2>1, TokenCases, TokensAssumption DEF NoSecret
<1>4. clock \in Nat /\ 0 < clock
  BY TokensAssumption DEF IInv, TypeOK
<1>5. /\ n \in Token /\ n.secret = s /\ n.issued = t.issued /\ n.expires = t.expires
      /\ n.activatedBy = t.activatedBy /\ n.lastUsed = clock /\ n.usedBy = s
  BY <1>2, <1>3, <1>4 DEF Token
<1>6. n # NoToken
  BY <1>5, TokensAssumption DEF Token, NoToken
<1>7. Stamps(t) => byUser' = [byUser EXCEPT ![u] = n]
  BY <1>1, <1>2 DEF IInv, TypeOK
<1>8. /\ \A v \in Users : v # u => byUser'[v] = byUser[v]
      /\ byUser'[u] = IF Stamps(t) THEN n ELSE t
      /\ byUser' \in [Users -> Token \cup {NoToken}]
  BY <1>1, <1>2, <1>5, <1>7 DEF IInv, TypeOK
<1>9. r \in Busy /\ r.user = u /\ r.secret = s /\ r.at = clock /\ (r.pc = "stamped" => Stamps(t))
  BY <1>2, <1>4 DEF Busy
<1> HIDE DEF n, r
<1>10. /\ call' \in [Calls -> {Idle} \cup Busy]
       /\ \A d \in Calls : d # c => call'[d] = call[d]
       /\ call'[c] = r \/ call'[c] = Idle
  BY <1>1, <1>9 DEF IInv, TypeOK, Busy
<1>11. TypeOK'
  BY <1>1, <1>8, <1>10 DEF IInv, TypeOK, Busy
<1>12. \A v \in Users : byUser'[v].secret = byUser[v].secret
  BY <1>2, <1>5, <1>8
<1>13. \A v \in Users : /\ byUser[v].lastUsed \in Nat /\ byUser'[v].lastUsed \in Nat
                        /\ byUser[v].lastUsed <= byUser'[v].lastUsed
  <2> SUFFICES ASSUME NEW v \in Users
               PROVE  /\ byUser[v].lastUsed \in Nat /\ byUser'[v].lastUsed \in Nat
                      /\ byUser[v].lastUsed <= byUser'[v].lastUsed
    OBVIOUS
  <2>1. byUser[v].lastUsed \in Nat /\ byUser'[v].lastUsed \in Nat
    BY <1>11, TokenCases DEF IInv, TypeOK
  <2>2. t.lastUsed <= clock
    BY <1>3 DEF Sound
  <2> QED BY <1>5, <1>8, <2>1, <2>2
<1>14. DeadStaysDead' /\ WriterAhead' /\ OpSound'
  BY <1>1 DEF IInv, DeadStaysDead, WriterAhead, OpSound
<1>15. IndexesAgree'
  <2>1. up' /\ byToken' = byToken
    BY <1>1
  <2>2. \A x \in Secrets, v \in Users : byToken[x] = v <=> byUser[v].secret = x
    BY <1>1 DEF IInv, IndexesAgree
  <2> QED BY <1>12, <2>1, <2>2 DEF IndexesAgree
<1>16. RowsSound'
  <2>1. ASSUME NEW v \in Users PROVE Sound(disk[v])'
    BY <1>1, <2>1 DEF IInv, RowsSound, Sound
  <2>2. ASSUME NEW v \in Users PROVE Sound(byUser[v])'
    <3>1. CASE v = u /\ Stamps(t)
      BY <1>1, <1>2, <1>3, <1>4, <1>5, <1>8, <3>1 DEF Sound
    <3>2. CASE ~(v = u /\ Stamps(t))
      <4>1. byUser'[v] = byUser[v]
        BY <1>8, <3>2
      <4>2. Sound(byUser[v])
        BY <2>2 DEF IInv, RowsSound
      <4>3. UNCHANGED <<clock, minted, dead>>
        BY <1>1
      <4> QED BY <4>1, <4>2, <4>3 DEF Sound
    <3> QED BY <3>1, <3>2
  <2> QED BY <1>1, <2>1, <2>2 DEF IInv, RowsSound
<1>17. RowsFollow'
  <2> SUFFICES ASSUME NEW v \in Users PROVE Lags(disk[v], byUser'[v])
    BY <1>1 DEF RowsFollow, Committed, Lags
  <2>1. Lags(disk[v], byUser[v])
    BY <1>1 DEF IInv, RowsFollow, Committed
  <2>2. CASE v = u /\ Stamps(t)
    <3>1. disk[u] # NoToken /\ disk[u].lastUsed \in Nat
      BY <1>2, <1>3, <2>1, <2>2, TokenCases DEF Lags, IInv, TypeOK
    <3>2. disk[u].lastUsed <= clock
      BY <1>2, <3>1 DEF IInv, RowsSound, Sound
    <3> QED BY <1>2, <1>3, <1>5, <1>6, <1>8, <2>1, <2>2, <3>1, <3>2 DEF Lags
  <2>3. CASE ~(v = u /\ Stamps(t))
    BY <1>8, <2>1, <2>3
  <2> QED BY <2>2, <2>3
<1>18. StampsSound'
  <2> SUFFICES ASSUME NEW v \in Users, NEW x \in Secrets, NEW a \in Nat,
                      InFlight(v, x, a)'
               PROVE  /\ x \in minted /\ 0 < a /\ a <= clock
                      /\ byUser'[v].secret = x => a <= byUser'[v].lastUsed
                      /\ persisted[v] = 0 => disk[v].lastUsed <= a
    BY <1>1 DEF StampsSound
  <2>1. CASE InFlight(v, x, a)
    <3>1. /\ x \in minted /\ 0 < a /\ a <= clock
          /\ byUser[v].secret = x => a <= byUser[v].lastUsed
          /\ persisted[v] = 0 => disk[v].lastUsed <= a
      BY <2>1 DEF IInv, StampsSound
    <3>2. /\ byUser'[v].secret = byUser[v].secret
          /\ byUser[v].lastUsed \in Nat /\ byUser'[v].lastUsed \in Nat
          /\ byUser[v].lastUsed <= byUser'[v].lastUsed
      BY <1>12, <1>13
    <3> QED BY <3>1, <3>2
  <2>2. CASE ~InFlight(v, x, a)
    <3>1. call'[c] = r /\ r.pc = "stamped" /\ v = u /\ x = s /\ a = clock
      BY <1>1, <1>9, <1>10, <2>2 DEF InFlight, Idle
    <3>2. s \in minted
      BY <1>2, <1>3 DEF Sound
    <3>3. disk[u].lastUsed <= clock
      <4>1. disk[u] \in Token \cup {NoToken} /\ Sound(disk[u])
        BY <1>2 DEF IInv, TypeOK, RowsSound
      <4> QED BY <1>4, <4>1, TokenCases DEF Sound
    <3> QED BY <1>4, <1>5, <1>8, <1>9, <3>1, <3>2, <3>3
  <2> QED BY <2>1, <2>2
<1> QED BY <1>11, <1>14, <1>15, <1>16, <1>17, <1>18 DEF IInv

LEMMA EnqueueKeeps ==
  ASSUME IInv, NEW c \in Calls, Enqueue(c)
  PROVE  IInv'
<1> DEFINE ev == [user |-> call[c].user, secret |-> call[c].secret, at |-> call[c].at]
           n == IF call[c].report THEN [call[c] EXCEPT !.pc = "activating"] ELSE Idle
<1>1. /\ up /\ call[c].pc = "stamped"
      /\ queue' = (IF Len(queue) < QueueDepth THEN Append(queue, ev) ELSE queue)
      /\ call' = [call EXCEPT ![c] = n]
      /\ UNCHANGED <<clock, up, disk, byUser, byToken, op, persisted, history>>
  BY DEF Enqueue
<1>2. call[c] \in Busy
  BY <1>1 DEF IInv, TypeOK, Busy, Idle
<1>3. ev \in Stamp
  BY <1>2 DEF Busy, Stamp
<1>4. n \in {Idle} \cup Busy /\ n.pc # "stamped"
  BY <1>2 DEF Busy, Idle
<1>5. queue \in Seq(Stamp) /\ Len(queue) \in Nat /\ Len(queue) <= QueueDepth
  BY LenProperties DEF IInv, TypeOK
<1>6. /\ queue' \in Seq(Stamp) /\ Len(queue') <= QueueDepth
      /\ \A i \in 1..Len(queue') : \/ i \in 1..Len(queue) /\ queue'[i] = queue[i]
                                   \/ queue'[i] = ev
  <2>1. CASE Len(queue) < QueueDepth
    BY <1>1, <1>3, <1>5, <2>1, AppendProperties, TokensAssumption
  <2>2. CASE ~(Len(queue) < QueueDepth)
    BY <1>1, <1>5, <2>2
  <2> QED BY <2>1, <2>2
<1>7. call' \in [Calls -> {Idle} \cup Busy]
  BY <1>1, <1>4 DEF IInv, TypeOK, Busy
<1>8. \A d \in Calls : call'[d] = call[d] \/ call'[d].pc # "stamped"
  BY <1>1, <1>4 DEF IInv, TypeOK
<1>9. ev.user = call[c].user /\ ev.secret = call[c].secret /\ ev.at = call[c].at
  OBVIOUS
<1> HIDE DEF ev, n
<1>10. ASSUME NEW u \in Users, NEW s \in Secrets, NEW a \in Nat, InFlight(u, s, a)'
       PROVE  InFlight(u, s, a)
  BY <1>1, <1>6, <1>8, <1>9, <1>10 DEF InFlight
<1> QED BY <1>1, <1>6, <1>7, <1>10, CallsKeep

\* What the writer's UPDATE does to the table: the stamp is newer than the row's, and
\* the cached token knows it already.
LEMMA WriteFacts ==
  ASSUME IInv, NEW u \in Users, NEW s \in Secrets, NEW a \in Nat, InFlight(u, s, a),
         persisted[u] = 0 \/ persisted[u] + Throttle <= a,
         disk[u] # NoToken, disk[u].secret = s
  PROVE  /\ 0 < a /\ a <= clock /\ disk[u].lastUsed <= a
         /\ up => a <= (IF Committed(u) THEN op.token ELSE byUser[u]).lastUsed
<1>1. /\ 0 < a /\ a <= clock
      /\ byUser[u].secret = s => a <= byUser[u].lastUsed
      /\ op # NoOp /\ op.kind = "put" => s # op.token.secret
      /\ persisted[u] = 0 => disk[u].lastUsed <= a
  BY DEF IInv, StampsSound
<1>2. persisted[u] \in Nat /\ disk[u].lastUsed \in Nat /\ Throttle \in Nat
  BY TokenCases, TokensAssumption DEF IInv, TypeOK
<1>3. disk[u].lastUsed <= a
  BY <1>1, <1>2 DEF IInv, WriterAhead
<1>4. ASSUME up PROVE a <= (IF Committed(u) THEN op.token ELSE byUser[u]).lastUsed
  <2>1. Lags(disk[u], IF Committed(u) THEN op.token ELSE byUser[u])
    BY <1>4 DEF IInv, RowsFollow
  <2>2. CASE Committed(u)
    <3>1. op # NoOp /\ op.user = u /\ op.token.secret = s /\ op.token # NoToken
      BY <2>1, <2>2 DEF Committed, Lags
    <3>2. op.kind = "activate"
      BY <1>1, <3>1, OpFacts DEF IInv, OpSound
    <3>3. byUser[u] \in Token
      BY <3>1, <3>2 DEF IInv, OpSound, TypeOK
    <3>4. op.token.secret = byUser[u].secret /\ op.token.lastUsed = byUser[u].lastUsed
      BY <3>1, <3>2, <3>3 DEF IInv, OpSound, Token
    <3> QED BY <1>1, <2>2, <3>1, <3>4
  <2>3. CASE ~Committed(u)
    BY <1>1, <2>1, <2>3 DEF Lags
  <2> QED BY <2>2, <2>3
<1> QED BY <1>1, <1>3, <1>4

\* A stamp that is written leaves the table sound, in step with the cache and behind
\* the writer's memory.
LEMMA WriteKeeps ==
  ASSUME IInv, up, NEW u \in Users, NEW s \in Secrets, NEW a \in Nat, InFlight(u, s, a),
         persisted[u] = 0 \/ persisted[u] + Throttle <= a,
         disk' = StampedTable([user |-> u, secret |-> s, at |-> a]),
         persisted' = [persisted EXCEPT ![u] = a],
         queue' \in Seq(Stamp), Len(queue') <= QueueDepth,
         \A v \in Users, x \in Secrets, b \in Nat : InFlight(v, x, b)' => InFlight(v, x, b),
         UNCHANGED <<clock, up, byUser, byToken, op, call, minted, dead>>
  PROVE  IInv' /\ \A v \in Users : disk[v].lastUsed <= disk'[v].lastUsed
<1> DEFINE d == disk[u]
           n == [d EXCEPT !.lastUsed = a, !.usedBy = s]
           hit == d # NoToken /\ d.secret = s
<1>1. d \in Token \cup {NoToken} /\ Sound(d) /\ disk \in [Users -> Token \cup {NoToken}]
  BY DEF IInv, TypeOK, RowsSound
<1>2. hit => /\ 0 < a /\ a <= clock /\ d.lastUsed <= a
             /\ a <= (IF Committed(u) THEN op.token ELSE byUser[u]).lastUsed
  BY WriteFacts
<1>3. hit => /\ d \in Token
             /\ n \in Token /\ n.secret = s /\ n.issued = d.issued /\ n.expires = d.expires
             /\ n.activatedBy = d.activatedBy /\ n.lastUsed = a /\ n.usedBy = s
  BY <1>1 DEF Token
<1>4. n \in Token => n # NoToken
  BY TokensAssumption DEF Token, NoToken
<1>5. disk' = IF hit THEN [disk EXCEPT ![u] = n] ELSE disk
  BY <1>1 DEF StampedTable
<1> HIDE DEF n
<1>6. /\ \A v \in Users : v # u => disk'[v] = disk[v]
      /\ disk'[u] = IF hit THEN n ELSE d
      /\ disk' \in [Users -> Token \cup {NoToken}]
  BY <1>1, <1>3, <1>5
<1> HIDE DEF hit
<1>7. TypeOK'
  BY <1>6 DEF IInv, TypeOK
<1>8. \A v \in Users : /\ disk[v].lastUsed \in Nat /\ disk'[v].lastUsed \in Nat
                       /\ disk'[v].secret = disk[v].secret
                       /\ disk[v].lastUsed <= disk'[v].lastUsed
  <2> SUFFICES ASSUME NEW v \in Users
               PROVE  /\ disk[v].lastUsed \in Nat /\ disk'[v].lastUsed \in Nat
                      /\ disk'[v].secret = disk[v].secret
                      /\ disk[v].lastUsed <= disk'[v].lastUsed
    OBVIOUS
  <2>1. disk[v].lastUsed \in Nat /\ disk'[v].lastUsed \in Nat
    BY <1>7, TokenCases DEF IInv, TypeOK
  <2>2. CASE v = u /\ hit
    BY <1>2, <1>3, <1>6, <2>1, <2>2 DEF hit
  <2>3. CASE ~(v = u /\ hit)
    BY <1>6, <2>1, <2>3
  <2> QED BY <2>2, <2>3
<1>9. DeadStaysDead'
  BY <1>8 DEF IInv, DeadStaysDead
<1>10. RowsSound'
  <2>1. ASSUME NEW v \in Users PROVE Sound(byUser[v])'
    BY <2>1 DEF IInv, RowsSound, Sound
  <2>2. ASSUME NEW v \in Users PROVE Sound(disk[v])'
    <3>1. CASE v = u /\ hit
      BY <1>1, <1>2, <1>3, <1>6, <3>1 DEF Sound, hit
    <3>2. CASE ~(v = u /\ hit)
      <4>1. disk'[v] = disk[v]
        BY <1>6, <3>2
      <4> QED BY <2>2, <4>1 DEF IInv, RowsSound, Sound
    <3> QED BY <3>1, <3>2
  <2>3. ASSUME NEW v \in Users, NEW x \in Users, disk'[v] # NoToken, disk'[v].secret = disk'[x].secret
        PROVE  v = x
    <3>1. disk[v].secret = disk[x].secret /\ disk'[v].secret = disk[v].secret
      BY <1>8, <2>3
    <3>2. disk[v] # NoToken
      BY <1>7, <2>3, <3>1, TokenCases DEF IInv, TypeOK
    <3> QED BY <3>1, <3>2 DEF IInv, RowsSound
  <2> QED BY <2>1, <2>2, <2>3 DEF RowsSound
<1>11. RowsFollow'
  <2> SUFFICES ASSUME NEW v \in Users
               PROVE  Lags(disk'[v], IF Committed(v) THEN op.token ELSE byUser[v])
    BY DEF RowsFollow, Committed, Lags
  <2> DEFINE t == IF Committed(v) THEN op.token ELSE byUser[v]
  <2>1. Lags(disk[v], t)
    BY DEF IInv, RowsFollow
  <2>2. CASE v = u /\ hit
    <3>1. a <= t.lastUsed
      BY <1>2, <2>2
    <3>2. /\ disk'[v] = n /\ disk[v] = d /\ d # NoToken /\ d.secret = s
          /\ n.secret = s /\ n.issued = d.issued /\ n.expires = d.expires
          /\ n.activatedBy = d.activatedBy /\ n.lastUsed = a /\ n # NoToken
      BY <1>3, <1>4, <1>6, <2>2 DEF hit
    <3> HIDE DEF t, d
    <3>3. Lags(disk'[v], t)
      BY <2>1, <3>1, <3>2 DEF Lags
    <3> QED BY <3>3 DEF t
  <2>3. CASE ~(v = u /\ hit)
    BY <1>6, <2>1, <2>3
  <2> QED BY <2>2, <2>3
<1>12. IndexesAgree'
  BY DEF IInv, IndexesAgree
<1>13. OpSound'
  BY <1>8 DEF IInv, OpSound, Sound
<1>14. 0 < a /\ persisted[u] \in Nat /\ Throttle \in Nat /\ d.lastUsed <= a
  <2>1. 0 < a /\ (persisted[u] = 0 => d.lastUsed <= a)
    BY DEF IInv, StampsSound
  <2>2. persisted[u] \in Nat /\ Throttle \in Nat /\ d.lastUsed \in Nat
    BY <1>8, TokensAssumption DEF IInv, TypeOK
  <2> QED BY <2>1, <2>2 DEF IInv, WriterAhead
<1>15. disk'[u].lastUsed <= a
  BY <1>3, <1>6, <1>14
<1>16. persisted'[u] = a /\ \A v \in Users : v # u => persisted'[v] = persisted[v]
  BY DEF IInv, TypeOK
<1>17. WriterAhead'
  BY <1>6, <1>15, <1>16 DEF IInv, WriterAhead
<1>18. StampsSound'
  <2> SUFFICES ASSUME NEW v \in Users, NEW x \in Secrets, NEW b \in Nat,
                      InFlight(v, x, b)'
               PROVE  (/\ x \in minted /\ 0 < b /\ b <= clock
                       /\ byUser[v].secret = x => b <= byUser[v].lastUsed
                       /\ op # NoOp /\ op.kind = "put" => x # op.token.secret
                       /\ persisted[v] = 0 => disk[v].lastUsed <= b)'
    BY DEF StampsSound
  <2>1. /\ x \in minted /\ 0 < b /\ b <= clock
        /\ byUser[v].secret = x => b <= byUser[v].lastUsed
        /\ op # NoOp /\ op.kind = "put" => x # op.token.secret
        /\ persisted[v] = 0 => disk[v].lastUsed <= b
    BY DEF IInv, StampsSound
  <2>2. persisted'[v] = 0 => disk'[v].lastUsed <= b
    BY <1>6, <1>14, <1>16, <2>1
  <2> QED BY <2>1, <2>2
<1> QED BY <1>7, <1>8, <1>9, <1>10, <1>11, <1>12, <1>13, <1>17, <1>18 DEF IInv

LEMMA WriterStepKeeps ==
  ASSUME IInv, WriterStep
  PROVE  IInv' /\ \A v \in Users : disk[v].lastUsed <= disk'[v].lastUsed
<1> DEFINE ev == Head(queue)
<1>1. /\ up /\ queue # <<>> /\ queue' = Tail(queue)
      /\ UNCHANGED <<clock, up, byUser, byToken, op, call, minted, dead>>
      /\ \/ /\ ~Throttled(ev) /\ disk' = StampedTable(ev)
            /\ persisted' = [persisted EXCEPT ![ev.user] = ev.at]
         \/ UNCHANGED <<disk, persisted>>
  BY DEF WriterStep, history
<1>2. queue \in Seq(Stamp) /\ Len(queue) \in Nat /\ Len(queue) <= QueueDepth
  BY LenProperties DEF IInv, TypeOK
<1>3. /\ queue' \in Seq(Stamp) /\ Len(queue') = Len(queue) - 1
      /\ \A i \in 1..Len(queue') : queue'[i] = queue[i + 1]
      /\ ev \in Stamp /\ ev = queue[1]
  BY <1>1, <1>2, HeadTailProperties
<1>4. Len(queue) >= 1
  BY <1>1, <1>2, EmptySeq
<1>5. Len(queue') <= QueueDepth
  BY <1>2, <1>3, TokensAssumption
<1>6. ASSUME NEW v \in Users, NEW x \in Secrets, NEW b \in Nat, InFlight(v, x, b)'
      PROVE  InFlight(v, x, b)
  <2>1. CASE \E i \in 1..Len(queue') : /\ queue'[i].user = v /\ queue'[i].secret = x
                                       /\ queue'[i].at = b
    <3>1. PICK i \in 1..Len(queue') : /\ queue'[i].user = v /\ queue'[i].secret = x
                                      /\ queue'[i].at = b
      BY <2>1
    <3>2. i + 1 \in 1..Len(queue) /\ queue'[i] = queue[i + 1]
      BY <1>2, <1>3, <3>1
    <3> QED BY <3>1, <3>2 DEF InFlight
  <2>2. CASE \E c \in Calls : /\ call'[c].pc = "stamped" /\ call'[c].user = v
                              /\ call'[c].secret = x /\ call'[c].at = b
    BY <1>1, <2>2 DEF InFlight
  <2> QED BY <1>6, <2>1, <2>2 DEF InFlight
<1>7. CASE UNCHANGED <<disk, persisted>>
  <2>1. call' \in [Calls -> {Idle} \cup Busy]
    BY <1>1 DEF IInv, TypeOK, Busy
  <2>2. IInv'
    BY <1>1, <1>3, <1>5, <1>6, <1>7, <2>1, CallsKeep DEF history
  <2>3. \A v \in Users : disk[v].lastUsed \in Nat
    BY TokenCases DEF IInv, TypeOK
  <2> QED BY <1>7, <2>2, <2>3
<1>8. CASE /\ ~Throttled(ev) /\ disk' = StampedTable(ev)
           /\ persisted' = [persisted EXCEPT ![ev.user] = ev.at]
  <2> DEFINE u == ev.user
             s == ev.secret
             a == ev.at
  <2>1. /\ u \in Users /\ s \in Secrets /\ a \in Nat
        /\ ev = [user |-> u, secret |-> s, at |-> a]
    BY <1>3 DEF Stamp
  <2>2. InFlight(u, s, a)
    BY <1>3, <1>4, <1>2 DEF InFlight
  <2>3. persisted[u] \in Nat /\ Throttle \in Nat
    BY <2>1, TokensAssumption DEF IInv, TypeOK
  <2>4. persisted[u] = 0 \/ persisted[u] + Throttle <= a
    BY <1>8, <2>1, <2>3 DEF Throttled
  <2>5. /\ disk' = StampedTable([user |-> u, secret |-> s, at |-> a])
        /\ persisted' = [persisted EXCEPT ![u] = a]
    BY <1>8, <2>1
  <2> HIDE DEF ev, u, s, a
  <2> QED BY <1>1, <1>3, <1>5, <1>6, <2>1, <2>2, <2>4, <2>5, WriteKeeps
<1> QED BY <1>1, <1>7, <1>8

-----------------------------------------------------------------------------
(* Steps that keep the invariant: the daemon                               *)

LEMMA CrashKeeps ==
  ASSUME IInv, Crash
  PROVE  IInv'
<1>1. /\ up' = FALSE /\ op' = NoOp /\ queue' = <<>>
      /\ byUser' = [u \in Users |-> NoToken]
      /\ byToken' = [s \in Secrets |-> NoUser]
      /\ persisted' = [u \in Users |-> 0]
      /\ call' = [c \in Calls |-> Idle]
      /\ UNCHANGED <<clock, disk, minted, dead>>
  BY DEF Crash, history
<1>2. queue' \in Seq(Stamp) /\ Len(queue') = 0
  BY <1>1, EmptySeq
<1>3. TypeOK'
  <2>1. up' \in BOOLEAN
    BY <1>1, Zenon
  <2> QED BY <1>1, <1>2, <2>1, TokensAssumption DEF IInv, TypeOK
<1>4. DeadStaysDead' /\ RowsSound'
  BY <1>1, <1>3 DEF IInv, DeadStaysDead, RowsSound, Sound, TypeOK
<1>5. RowsFollow' /\ IndexesAgree' /\ OpSound' /\ WriterAhead'
  BY <1>1 DEF RowsFollow, IndexesAgree, OpSound, WriterAhead
<1>6. StampsSound'
  BY <1>1, <1>2 DEF StampsSound, InFlight, Idle
<1> QED BY <1>3, <1>4, <1>5, <1>6 DEF IInv

LEMMA BootKeeps ==
  ASSUME IInv, Boot
  PROVE  IInv'
<1>1. /\ ~up /\ up' = TRUE /\ byUser' = disk
      /\ byToken' = [s \in Secrets |->
           IF \E u \in Users : disk[u].secret = s
             THEN CHOOSE u \in Users : disk[u].secret = s
             ELSE NoUser]
      /\ UNCHANGED <<clock, disk, op, queue, persisted, call, minted, dead>>
  BY DEF Boot, history
<1>2. ASSUME NEW s \in Secrets, NEW u \in Users
      PROVE  byToken'[s] = u <=> disk[u].secret = s
  <2>1. u # NoUser /\ s # NoSecret
    BY TokensAssumption DEF NoUser, NoSecret
  <2>2. CASE \E v \in Users : disk[v].secret = s
    <3>1. PICK v \in Users : disk[v].secret = s
      BY <2>2
    <3>2. disk[v] # NoToken
      BY <2>1, <3>1 DEF NoToken, NoSecret
    <3>3. \A x \in Users : disk[x].secret = s => x = v
      BY <3>1, <3>2 DEF IInv, RowsSound
    <3>4. byToken'[s] = CHOOSE x \in Users : disk[x].secret = s
      BY <1>1, <2>2
    <3>5. byToken'[s] = v
      BY <3>1, <3>3, <3>4
    <3> QED BY <3>1, <3>3, <3>5
  <2>3. CASE ~\E v \in Users : disk[v].secret = s
    BY <1>1, <2>1, <2>3
  <2> QED BY <2>2, <2>3
<1>3. byToken' \in [Secrets -> Users \cup {NoUser}]
  BY <1>1
<1>4. TypeOK'
  <2>1. up' \in BOOLEAN
    BY <1>1, Zenon
  <2> QED BY <1>1, <1>3, <2>1 DEF IInv, TypeOK
<1>5. op = NoOp /\ queue = <<>> /\ call = [c \in Calls |-> Idle] /\ persisted = [u \in Users |-> 0]
  BY <1>1 DEF IInv, IndexesAgree
<1>6. DeadStaysDead'
  <2>1. ASSUME NEW s \in dead PROVE byToken'[s] = NoUser
    <3>1. s \in Secrets /\ \A u \in Users : disk[u].secret # s
      BY DEF IInv, TypeOK, DeadStaysDead
    <3> QED BY <1>1, <3>1
  <2> QED BY <1>1, <2>1 DEF IInv, DeadStaysDead
<1>7. RowsSound' /\ OpSound' /\ WriterAhead'
  BY <1>1, <1>5 DEF IInv, RowsSound, Sound, OpSound, WriterAhead
<1>8. RowsFollow'
  <2>1. \A u \in Users : disk[u].lastUsed \in Nat
    BY TokenCases DEF IInv, TypeOK
  <2> QED BY <1>1, <1>5, <2>1 DEF RowsFollow, Committed, Lags
<1>9. IndexesAgree'
  BY <1>1, <1>2 DEF IndexesAgree
<1>10. StampsSound'
  <2>1. Len(queue') = 0
    BY <1>1, <1>5, EmptySeq
  <2> QED BY <1>1, <1>5, <2>1 DEF StampsSound, InFlight, Idle
<1> QED BY <1>4, <1>6, <1>7, <1>8, <1>9, <1>10 DEF IInv

-----------------------------------------------------------------------------
(* The theorems                                                            *)

LEMMA StutterKeeps ==
  ASSUME IInv, UNCHANGED vars
  PROVE  IInv'
<1>1. TypeOK' /\ DeadStaysDead' /\ RowsSound' /\ WriterAhead' /\ IndexesAgree'
  BY DEF vars, IInv, TypeOK, DeadStaysDead, RowsSound, Sound, WriterAhead, IndexesAgree
<1>2. RowsFollow' /\ OpSound' /\ StampsSound'
  BY DEF vars, IInv, RowsFollow, Committed, Lags, OpSound, Sound, StampsSound, InFlight
<1> QED BY <1>1, <1>2 DEF IInv

\* Every mutator, Validate, the writer, a crash and a boot keep the invariant.
LEMMA NextIInv == IInv /\ [Next]_vars => IInv'
<1> SUFFICES ASSUME IInv, [Next]_vars PROVE IInv'
  OBVIOUS
<1>1. ASSUME NEW u \in Users, NEW s \in Secrets, NEW span \in Spans, AddToken(u, s, span)
      PROVE  IInv'
  BY <1>1, AddTokenKeeps
<1>2. ASSUME NEW u \in Users, NEW s \in Secrets, RotateToken(u, s) PROVE IInv'
  BY <1>2, RotateTokenKeeps
<1>3. ASSUME NEW u \in Users, RevokeToken(u) PROVE IInv'
  BY <1>3, RevokeTokenKeeps
<1>4. ASSUME NEW c \in Calls, MarkActivated(c) \/ Enqueue(c) PROVE IInv'
  BY <1>4, MarkActivatedKeeps, EnqueueKeeps
<1>5. ASSUME NEW c \in Calls, NEW s \in Secrets, NEW report \in BOOLEAN, Validate(c, s, report)
      PROVE  IInv'
  BY <1>5, ValidateKeeps
<1>6. CASE Commit \/ Rollback \/ Return \/ WriterStep
  BY <1>6, CommitKeeps, RollbackKeeps, ReturnKeeps, WriterStepKeeps
<1>7. CASE Crash \/ Boot \/ Tick
  BY <1>7, CrashKeeps, BootKeeps, TickKeeps
<1>8. CASE UNCHANGED vars
  BY <1>8, StutterKeeps
<1> QED BY <1>1, <1>2, <1>3, <1>4, <1>5, <1>6, <1>7, <1>8 DEF Next

\* The strengthened invariant holds throughout: types, soundness of every token held,
\* agreement of the indexes, and what is known of the stamps in flight.
THEOREM Inductive == Spec => []IInv
<1>1. Init => IInv
  BY InitIInv
<1>2. IInv /\ [Next]_vars => IInv'
  BY NextIInv
<1> QED BY <1>1, <1>2, PTL DEF Spec

\* Every variable keeps its type; the queue never exceeds its depth.
THEOREM TypeCorrect == Spec => []TypeOK
<1>1. IInv => TypeOK
  BY DEF IInv
<1> QED BY <1>1, Inductive, PTL

\* A secret that RevokeToken or RotateToken replaced never validates again, across
\* refused commits, crashes and boots.
THEOREM RevocationIsFinal == Spec => []DeadStaysDead
<1>1. IInv => DeadStaysDead
  BY DEF IInv
<1> QED BY <1>1, Inductive, PTL

\* Both indexes and the table describe the same tokens whenever the lock is free; only
\* last_used lags on disk.
THEOREM RegistryIsTheTable == Spec => []CacheMatchesTable
BY CacheMatches, Inductive, PTL

\* No row carries the use of another secret.
THEOREM StampsAreOwn == Spec => []StampIsOwn
BY OwnStamps, Inductive, PTL

\* A put writes a secret its row did not have, and an activation keeps the stamp.
LEMMA CommitForward ==
  ASSUME IInv, Commit, NEW u \in Users, disk[u] # NoToken, disk'[u] # NoToken,
         disk'[u].secret = disk[u].secret
  PROVE  disk'[u].lastUsed >= disk[u].lastUsed
<1> DEFINE d == disk[op.user]
<1>1. op # NoOp /\ op.phase = "locked" /\ disk' = [disk EXCEPT ![op.user] = NewRow(op)]
  BY DEF Commit
<1>2. op.user \in Users /\ op.kind \in {"put", "revoke", "activate"}
  BY <1>1, OpFacts
<1>3. /\ disk \in [Users -> Token \cup {NoToken}]
      /\ disk[u].lastUsed \in Nat /\ d \in Token \cup {NoToken}
  BY <1>2, TokenCases DEF IInv, TypeOK
<1>4. CASE u # op.user
  BY <1>1, <1>2, <1>3, <1>4
<1>5. CASE u = op.user
  <2>1. disk'[u] = NewRow(op)
    BY <1>1, <1>3, <1>5
  <2>2. op.kind # "put"
    BY <1>1, <1>2, <1>5, <2>1 DEF NewRow, IInv, OpSound
  <2>3. op.kind # "revoke"
    BY <2>1 DEF NewRow
  <2>4. NewRow(op) = d \/ NewRow(op) = [d EXCEPT !.activatedBy = op.token.activatedBy]
    BY <1>2, <2>2, <2>3 DEF NewRow
  <2>5. d \in Token
    BY <1>3, <1>5
  <2>6. NewRow(op).lastUsed = d.lastUsed
    BY <2>4, <2>5 DEF Token
  <2> QED BY <1>3, <1>5, <2>1, <2>6
<1> QED BY <1>4, <1>5

\* While a secret stays in its row, last_used only moves forward.
THEOREM LastUsedNeverBack == Spec => LastUsedForward
<1> DEFINE Forward == \A u \in Users :
       disk[u] # NoToken /\ disk'[u] # NoToken /\ disk'[u].secret = disk[u].secret
         => disk'[u].lastUsed >= disk[u].lastUsed
<1>1. IInv /\ [Next]_vars => [Forward]_vars
  <2> SUFFICES ASSUME IInv, Next PROVE Forward
    BY DEF Forward
  <2>1. \A u \in Users : disk[u].lastUsed \in Nat
    BY TokenCases DEF IInv, TypeOK
  <2>2. CASE WriterStep
    <3>1. IInv' /\ \A v \in Users : disk[v].lastUsed <= disk'[v].lastUsed
      BY <2>2, WriterStepKeeps
    <3>2. \A u \in Users : disk'[u].lastUsed \in Nat
      BY <3>1, TokenCases DEF IInv, TypeOK
    <3> QED BY <2>1, <3>1, <3>2
  <2>3. CASE Commit
    BY <2>3, CommitForward
  <2>4. CASE disk' = disk
    BY <2>1, <2>4
  <2>5. disk' = disk \/ WriterStep \/ Commit
    BY DEF Next, AddToken, RotateToken, RevokeToken, Lock, MarkActivated, Enqueue, Validate,
           Rollback, Return, Crash, Boot, Tick
  <2> QED BY <2>2, <2>3, <2>4, <2>5
<1>2. Spec => [][Forward]_vars
  BY <1>1, Inductive, PTL DEF Spec
<1> QED BY <1>2 DEF LastUsedForward, Forward
=============================================================================
