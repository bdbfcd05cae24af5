------------------------------ MODULE Invites ------------------------------
(***************************************************************************)
(* The one-time invite wrap store (src/internal/invites/store.go): an      *)
(* in-memory cache behind one RWMutex over the invites table of the store  *)
(* database.  A mutator takes the write lock, reads the wall clock once,   *)
(* runs its Go-side gate on the cached record, commits one transaction     *)
(* whose first statement sweeps the aged-out pending rows, and only then   *)
(* updates the cached record and returns.                                  *)
(*                                                                         *)
(* A mutator is three steps here: it is entered (lock and gate), its       *)
(* transaction commits or is rolled back, and its result is published.     *)
(* The clock moves and the daemon may crash between any two of them.       *)
(*                                                                         *)
(* The sealed plaintext is abstracted to its presence.  A handle stands    *)
(* for the handle and its lease id, both drawn from the same 128-bit       *)
(* space; creation path, email and role never decide a state change.       *)
(***************************************************************************)
EXTENDS Naturals, FiniteSets

CONSTANTS
  Handles,      \* the values randHex may draw
  Members,      \* member ids an invite may be issued for
  TTL,          \* invite lifetime in clock units
  MaxTime,      \* bound on the wall clock
  MaxWaiting,   \* bound on Issue calls that wait for the lock at once
  MaxSkews      \* how often the wall clock may be set back

ASSUME HandlesFinite == IsFiniteSet(Handles)
ASSUME BoundsAssumption == TTL \in Nat /\ MaxTime \in Nat /\ MaxWaiting \in Nat /\ MaxSkews \in Nat

VARIABLES
  clock,      \* the wall clock s.now() reads
  skews,      \* how often it was set back so far
  process,    \* "down", "swept" (LoadFromDB between sweep and read) or "up"
  disk,       \* the invites table
  mem,        \* byHandle and byLease, which share one record per invite
  waiting,    \* Issue calls that drew a handle and read the clock, not yet locked
  op,         \* the mutator that holds the write lock
  released,   \* history: how often Unwrap returned the token behind a handle
  voided      \* history: handles a revoke call reported as voided

vars == <<clock, skews, process, disk, mem, waiting, op, released, voided>>

-----------------------------------------------------------------------------
(* Records                                                                 *)

Statuses == {"pending", "consumed", "compromised", "expired", "revoked"}

\* One invite: sealed is TokenValue # "".
Invite == [member : Members, expires : Nat, status : Statuses, sealed : BOOLEAN]

\* No row, no map entry.
Absent == [status |-> "absent"]

NoOp == [kind |-> "none"]

Ops ==
  [kind : {"issue"}, handle : Handles, member : Members, now : Nat,
   phase : {"locked", "committed"}]
  \cup
  [kind : {"consume", "ageout", "compromise", "revoke"}, handle : Handles,
   now : Nat, phase : {"locked", "committed"}]
  \cup
  [kind : {"revokeAll"}, member : Members, now : Nat,
   phase : {"locked", "committed"}]

\* Every variable has its type; the cache is one record or nothing per handle.
TypeOK ==
  /\ clock \in Nat
  /\ skews \in 0..MaxSkews
  /\ process \in {"down", "swept", "up"}
  /\ disk \in [Handles -> Invite \cup {Absent}]
  /\ mem \in [Handles -> Invite \cup {Absent}]
  /\ waiting \subseteq [handle : Handles, member : Members, now : Nat]
  /\ op \in Ops \cup {NoOp}
  /\ released \in [Handles -> Nat]
  /\ voided \subseteq Handles

\* isExpiredAt: an instant at the expiry is past it.
ExpiredAt(inv, now) == inv.expires <= now

\* statusGateLocked: nil for a pending invite within its TTL.
GateOpen(inv, now) == inv.status = "pending" /\ ~ExpiredAt(inv, now)

\* Mutant: the status moves, the plaintext stays.
ClosedKeepsToken(inv, to) == [inv EXCEPT !.status = to]

\* A record moved to status to: every UPDATE but ReportCompromise's also clears
\* the plaintext.
Closed(inv, to) ==
  [inv EXCEPT !.status = to, !.sealed = IF to = "compromised" THEN @ ELSE FALSE]

-----------------------------------------------------------------------------
(* The transaction of a mutator                                            *)

\* Mutant: the sweep forgets its status = 'pending' condition.
SweptAnyStatus(table, now) ==
  [h \in Handles |->
     IF table[h] # Absent /\ ExpiredAt(table[h], now)
       THEN Closed(table[h], "expired")
       ELSE table[h]]

\* sweepAgedPending, the first statement of every write transaction.
Swept(table, now) ==
  [h \in Handles |->
     IF table[h].status = "pending" /\ ExpiredAt(table[h], now)
       THEN Closed(table[h], "expired")
       ELSE table[h]]

\* The pending invites of member m in the cache, split by one clock reading.
Live(m, now) == {h \in Handles : /\ mem[h] # Absent
                                 /\ mem[h].member = m
                                 /\ GateOpen(mem[h], now)}
Aged(m, now) == {h \in Handles : /\ mem[h] # Absent
                                 /\ mem[h].member = m
                                 /\ mem[h].status = "pending"
                                 /\ ExpiredAt(mem[h], now)}

\* The status an operation writes.  RevokePending records an invite that
\* already aged out as expired.
Target(o) ==
  CASE o.kind = "issue"      -> "pending"
    [] o.kind = "consume"    -> "consumed"
    [] o.kind = "ageout"     -> "expired"
    [] o.kind = "compromise" -> "compromised"
    [] o.kind = "revoke"     -> IF ExpiredAt(mem[o.handle], o.now)
                                  THEN "expired" ELSE "revoked"
    [] o.kind = "revokeAll"  -> "revoked"

\* The rows the UPDATE's WHERE clause selects.
Matched(o, table) ==
  {h \in Handles :
     /\ table[h] # Absent
     /\ CASE o.kind = "revokeAll" -> /\ table[h].member = o.member
                                     /\ table[h].status = "pending"
          [] o.kind = "consume"   -> h = o.handle /\ table[h].status = "pending"
          [] OTHER                -> h = o.handle}

\* What expectRows demands.
Wanted(o) == IF o.kind = "revokeAll" THEN Cardinality(Live(o.member, o.now)) ELSE 1

\* The invites_status_forward_only trigger lets the row move to status to.
TriggerAllows(from, to) ==
  \/ from = to
  \/ from = "pending" /\ to \in {"consumed", "expired", "revoked"}
  \/ from = "consumed" /\ to = "compromised"

\* Mutant: Issue writes a status the enum does not have.
NewInviteUnknownStatus(m, now) ==
  [member |-> m, expires |-> now + TTL, status |-> "issued", sealed |-> TRUE]

NewInvite(m, now) == [member |-> m, expires |-> now + TTL, status |-> "pending", sealed |-> TRUE]

\* Mutant: the sweep reads the clock a second time instead of taking the gate's reading.
StatementOKSecondReading(o) ==
  LET table == Swept(disk, clock) IN
    IF o.kind = "issue"
      THEN table[o.handle] = Absent
      ELSE /\ \A h \in Matched(o, table) : TriggerAllows(table[h].status, Target(o))
           /\ Cardinality(Matched(o, table)) = Wanted(o)

\* The statement after the sweep succeeds: the INSERT meets no row with its
\* primary key, the UPDATE is legal for every row and touches as many as wanted.
StatementOK(o) ==
  LET table == Swept(disk, o.now) IN
    IF o.kind = "issue"
      THEN table[o.handle] = Absent
      ELSE /\ \A h \in Matched(o, table) : TriggerAllows(table[h].status, Target(o))
           /\ Cardinality(Matched(o, table)) = Wanted(o)

\* The table after the sweep and the statement.
Written(o) ==
  LET table == Swept(disk, o.now) IN
    IF o.kind = "issue"
      THEN [table EXCEPT ![o.handle] = NewInvite(o.member, o.now)]
      ELSE [h \in Handles |-> IF h \in Matched(o, table)
                                THEN Closed(table[h], Target(o))
                                ELSE table[h]]

\* The cached records after the operation.
Published(o) ==
  CASE o.kind = "issue" ->
         [mem EXCEPT ![o.handle] = NewInvite(o.member, o.now)]
    [] o.kind = "revokeAll" ->
         [h \in Handles |->
            IF h \in Live(o.member, o.now) THEN Closed(mem[h], "revoked")
            ELSE IF h \in Aged(o.member, o.now) THEN Closed(mem[h], "expired")
            ELSE mem[h]]
    [] OTHER ->
         [mem EXCEPT ![o.handle] = Closed(@, Target(o))]

-----------------------------------------------------------------------------
(* The daemon                                                              *)

Init ==
  /\ clock = 0 /\ skews = 0
  /\ process = "down"
  /\ disk = [h \in Handles |-> Absent]
  /\ mem  = [h \in Handles |-> Absent]
  /\ waiting = {}
  /\ op = NoOp
  /\ released = [h \in Handles |-> 0]
  /\ voided = {}

\* Issue up to its Lock(): handle and lease are drawn and the clock is read
\* before the lock is waited for.
IssueCall(h, m) ==
  /\ process = "up"
  /\ Cardinality(waiting) < MaxWaiting
  /\ waiting' = waiting \cup {[handle |-> h, member |-> m, now |-> clock]}
  /\ UNCHANGED <<clock, skews, process, disk, mem, op, released, voided>>

\* Issue enters; a handle or lease collision returns with nothing changed.
IssueEnter(w) ==
  /\ process = "up" /\ op = NoOp
  /\ waiting' = waiting \ {w}
  /\ op' = IF mem[w.handle] # Absent
             THEN NoOp
             ELSE [kind |-> "issue", handle |-> w.handle, member |-> w.member,
                   now |-> w.now, phase |-> "locked"]
  /\ UNCHANGED <<clock, skews, process, disk, mem, released, voided>>

\* A mutator on one handle takes the lock, reads the clock and passes its gate.
Enter(kind, h) ==
  /\ process = "up" /\ op = NoOp
  /\ mem[h] # Absent
  /\ op' = [kind |-> kind, handle |-> h, now |-> clock, phase |-> "locked"]
  /\ UNCHANGED <<clock, skews, process, disk, mem, waiting, released, voided>>

\* Unwrap: an open gate leads to the consuming transaction, a pending invite
\* past its TTL to the lazy age-out flip.  Other statuses are refused.
UnwrapEnter(h) ==
  \/ GateOpen(mem[h], clock) /\ Enter("consume", h)
  \/ /\ mem[h].status = "pending"
     /\ ExpiredAt(mem[h], clock)
     /\ Enter("ageout", h)

\* ReportCompromise: only a consumed invite.
CompromiseEnter(h) == mem[h].status = "consumed" /\ Enter("compromise", h)

\* RevokePending: only a pending invite.
RevokeEnter(h) == mem[h].status = "pending" /\ Enter("revoke", h)

\* RevokeAllPendingForMember: returns at once when the member has nothing pending.
RevokeAllEnter(m) ==
  /\ process = "up" /\ op = NoOp
  /\ Live(m, clock) \cup Aged(m, clock) # {}
  /\ op' = [kind |-> "revokeAll", member |-> m, now |-> clock, phase |-> "locked"]
  /\ UNCHANGED <<clock, skews, process, disk, mem, waiting, released, voided>>

\* Mutant: the consumed state is not written through before the token is released.
CommitInMemoryOnly ==
  /\ op # NoOp /\ op.phase = "locked"
  /\ StatementOK(op)
  /\ disk' = IF op.kind = "consume" THEN Swept(disk, op.now) ELSE Written(op)
  /\ op' = [op EXCEPT !.phase = "committed"]
  /\ UNCHANGED <<clock, skews, process, mem, waiting, released, voided>>

\* persist commits: sweep and statement in one transaction.
Commit ==
  /\ op # NoOp /\ op.phase = "locked"
  /\ StatementOK(op)
  /\ disk' = Written(op)
  /\ op' = [op EXCEPT !.phase = "committed"]
  /\ UNCHANGED <<clock, skews, process, mem, waiting, released, voided>>

\* The handles the call reports as voided once it returns without error.
ReportedVoid(o) ==
  CASE o.kind = "revoke"    -> {o.handle}
    [] o.kind = "revokeAll" -> Live(o.member, o.now) \cup Aged(o.member, o.now)
    [] OTHER                -> {}

\* Mutant: the maps are updated although the transaction was rolled back.
RollbackPublishes ==
  /\ op # NoOp /\ op.phase = "locked"
  /\ mem' = Published(op)
  /\ op' = NoOp
  /\ UNCHANGED <<clock, skews, process, disk, waiting, released, voided>>

\* Mutant: a revoke swallows the error of its transaction and reports success.
RollbackSwallowed ==
  /\ op # NoOp /\ op.phase = "locked"
  /\ voided' = voided \cup ReportedVoid(op)
  /\ op' = NoOp
  /\ UNCHANGED <<clock, skews, process, disk, mem, waiting, released>>

\* persist returns an error (begin, sweep, statement, row count or commit): the
\* transaction is rolled back, no record is touched, the caller gets the error.
Rollback ==
  /\ op # NoOp /\ op.phase = "locked"
  /\ op' = NoOp
  /\ UNCHANGED <<clock, skews, process, disk, mem, waiting, released, voided>>

\* The maps change, the lock is released and the call returns: for Unwrap, with
\* the token.
Return ==
  /\ op # NoOp /\ op.phase = "committed"
  /\ mem' = Published(op)
  /\ released' = IF op.kind = "consume"
                   THEN [released EXCEPT ![op.handle] = @ + 1]
                   ELSE released
  /\ voided' = voided \cup ReportedVoid(op)
  /\ op' = NoOp
  /\ UNCHANGED <<clock, skews, process, disk, waiting>>

\* The daemon dies; the table survives (synchronous(FULL)).
Crash ==
  /\ process # "down"
  /\ process' = "down"
  /\ mem' = [h \in Handles |-> Absent]
  /\ waiting' = {}
  /\ op' = NoOp
  /\ UNCHANGED <<clock, skews, disk, released, voided>>

\* LoadFromDB, first half: the boot-time sweep in a transaction of its own.
BootSweep ==
  /\ process = "down"
  /\ disk' = Swept(disk, clock)
  /\ process' = "swept"
  /\ UNCHANGED <<clock, skews, mem, waiting, op, released, voided>>

\* LoadFromDB, second half: the maps are read from the table.
BootLoad ==
  /\ process = "swept"
  /\ mem' = disk
  /\ process' = "up"
  /\ UNCHANGED <<clock, skews, disk, waiting, op, released, voided>>

Tick ==
  /\ clock < MaxTime
  /\ clock' = clock + 1
  /\ UNCHANGED <<skews, process, disk, mem, waiting, op, released, voided>>

\* The wall clock is set back by one unit.
ClockSetBack ==
  /\ skews < MaxSkews /\ clock > 0
  /\ clock' = clock - 1
  /\ skews' = skews + 1
  /\ UNCHANGED <<process, disk, mem, waiting, op, released, voided>>

Next ==
  \/ \E h \in Handles, m \in Members : IssueCall(h, m)
  \/ \E w \in waiting : IssueEnter(w)
  \/ \E h \in Handles : UnwrapEnter(h) \/ CompromiseEnter(h) \/ RevokeEnter(h)
  \/ \E m \in Members : RevokeAllEnter(m)
  \/ Commit \/ Rollback \/ Return
  \/ Crash \/ BootSweep \/ BootLoad
  \/ Tick \/ ClockSetBack

Spec == Init /\ [][Next]_vars

-----------------------------------------------------------------------------
(* Properties                                                              *)

\* Unwrap hands the token behind a handle out at most once, however often it is
\* called and whatever crashes and failed commits lie between the calls.
SingleRelease == \A h \in Handles : released[h] <= 1

\* Durable before release: when a token was handed out, the table already says
\* consumed (or compromised later), so no restart can offer it again.
ReleaseIsDurable ==
  \A h \in Handles : released[h] > 0 => disk[h].status \in {"consumed", "compromised"}

\* The cached record agrees with the row, or is a pending record whose row the
\* sweep of some other call already closed.
Agree(m, d) ==
  \/ m = d
  \/ m # Absent /\ m.status = "pending" /\ d = Closed(m, "expired")

\* Whenever the lock is free the cache is not ahead of the table, and lags it
\* only by sweeps (persist: "the in-memory cache never gets ahead").
CacheNotAhead ==
  process = "up" /\ op = NoOp => \A h \in Handles : Agree(mem[h], disk[h])

\* No plaintext outlives its invite: neither the table nor the cache keeps a
\* sealed token in a status other than pending.
PlaintextOnlyPending ==
  \A h \in Handles :
    /\ disk[h] # Absent /\ disk[h].sealed => disk[h].status = "pending"
    /\ mem[h] # Absent /\ mem[h].sealed => mem[h].status = "pending"

\* Once a revoke call has reported an invite voided its token is never handed out.
VoidedStaysVoid ==
  [][\A h \in voided : released'[h] = released[h]]_vars

\* Lookup answers for a handle.
LookupAnswers(h) == process = "up" /\ op = NoOp /\ mem[h] # Absent /\ GateOpen(mem[h], clock)

\* While the clock has not been set back, the Go gate and the SQL sweep never disagree
\* about whether a row has just aged out: a mutator that passed its gate is not refused
\* by the row count or the trigger, and what Lookup shows the invitee is still pending
\* with its plaintext in the table.
GateAgreesWithTable ==
  skews = 0 =>
    /\ op # NoOp /\ op.phase = "locked" => StatementOK(op)
    /\ \A h \in Handles : LookupAnswers(h) => disk[h].status = "pending" /\ disk[h].sealed

\* The store implements the abstract one-time code.
Abstract == INSTANCE OneTimeCode WITH
              Codes <- Handles,
              status <- [h \in Handles |-> disk[h].status],
              released <- released

ImplementsOneTimeCode == Abstract!Spec
=============================================================================
