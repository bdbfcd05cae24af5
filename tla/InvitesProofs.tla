--------------------------- MODULE InvitesProofs ---------------------------
(***************************************************************************)
(* Proofs about the invite store, for every set of handles and members,    *)
(* every TTL and every number of clock set-backs.                          *)
(***************************************************************************)
EXTENDS Invites, FiniteSetTheorems, TLAPS

Rows == Invite \cup {Absent}

-----------------------------------------------------------------------------
(* Facts about records                                                     *)

\* A row is an invite or absent, and its status tells which.
LEMMA RowCases ==
  ASSUME NEW r \in Rows
  PROVE  /\ r = Absent <=> r.status = "absent"
         /\ r # Absent <=> r \in Invite
         /\ r \in Invite => r.status \in Statuses
BY DEF Rows, Invite, Absent, Statuses

\* Moving an invite to another status keeps its member and expiry.
LEMMA ClosedFacts ==
  ASSUME NEW r \in Invite, NEW to \in Statuses
  PROVE  /\ Closed(r, to) \in Invite
         /\ Closed(r, to) # Absent
         /\ Closed(r, to).status = to
         /\ Closed(r, to).member = r.member
         /\ Closed(r, to).expires = r.expires
         /\ Closed(r, to).sealed = IF to = "compromised" THEN r.sealed ELSE FALSE
BY DEF Invite, Absent, Statuses, Closed

\* A fresh invite is a pending, sealed record of the right type (Issue).
LEMMA NewInviteFacts ==
  ASSUME NEW m \in Members, NEW now \in Nat
  PROVE  /\ NewInvite(m, now) \in Invite
         /\ NewInvite(m, now).status = "pending"
         /\ NewInvite(m, now).sealed = TRUE
         /\ NewInvite(m, now).member = m
         /\ NewInvite(m, now).expires = now + TTL
BY BoundsAssumption DEF Invite, Statuses, NewInvite

\* An operation is one of its three shapes.
LEMMA OpCases ==
  ASSUME NEW o \in Ops
  PROVE  /\ o.kind \in {"issue", "consume", "ageout", "compromise", "revoke", "revokeAll"}
         /\ o.now \in Nat
         /\ o.phase \in {"locked", "committed"}
         /\ o.kind # "revokeAll" => o.handle \in Handles
         /\ o.kind \in {"issue", "revokeAll"} => o.member \in Members
         /\ o # NoOp
BY DEF Ops, NoOp

\* What the sweep does to one row.
LEMMA SweptFacts ==
  ASSUME NEW table \in [Handles -> Rows], NEW now \in Nat
  PROVE  /\ Swept(table, now) \in [Handles -> Rows]
         /\ \A h \in Handles :
              \/ Swept(table, now)[h] = table[h]
              \/ /\ table[h] \in Invite
                 /\ table[h].status = "pending"
                 /\ ExpiredAt(table[h], now)
                 /\ Swept(table, now)[h] = Closed(table[h], "expired")
         /\ \A h \in Handles :
              Swept(table, now)[h].status = "pending" =>
                /\ Swept(table, now)[h] = table[h]
                /\ ~ExpiredAt(table[h], now)
<1>1. ASSUME NEW h \in Handles, table[h].status = "pending"
      PROVE  /\ table[h] \in Invite
             /\ Closed(table[h], "expired") \in Rows
             /\ Closed(table[h], "expired").status = "expired"
  BY <1>1, RowCases, ClosedFacts DEF Rows, Statuses
<1>2. Swept(table, now) \in [Handles -> Rows]
  BY <1>1 DEF Swept
<1>3. ASSUME NEW h \in Handles
      PROVE  Swept(table, now)[h] = IF table[h].status = "pending" /\ ExpiredAt(table[h], now)
                                      THEN Closed(table[h], "expired")
                                      ELSE table[h]
  BY DEF Swept
<1> QED BY <1>1, <1>2, <1>3

-----------------------------------------------------------------------------
(* The inductive invariant                                                 *)

\* What the gate of the mutator that holds the lock established about the cached
\* record; nobody changes the maps while the lock is held.
GateHeld(o) ==
  /\ o.kind = "issue"      => mem[o.handle] = Absent
  /\ o.kind = "consume"    => mem[o.handle] # Absent /\ GateOpen(mem[o.handle], o.now)
  /\ o.kind = "ageout"     => /\ mem[o.handle] # Absent
                              /\ mem[o.handle].status = "pending"
                              /\ ExpiredAt(mem[o.handle], o.now)
  /\ o.kind = "compromise" => mem[o.handle] # Absent /\ mem[o.handle].status = "consumed"
  /\ o.kind = "revoke"     => mem[o.handle] # Absent /\ mem[o.handle].status = "pending"

\* A row or a record holds its plaintext exactly while it is pending.
RowShape == \A h \in Handles :
              /\ disk[h] # Absent => (disk[h].sealed <=> disk[h].status = "pending")
              /\ mem[h] # Absent => (mem[h].sealed <=> mem[h].status = "pending")

\* Without a running daemon there is no cache and no call.
DownEmpty == process # "up" =>
               /\ op = NoOp
               /\ mem = [h \in Handles |-> Absent]
               /\ waiting = {}

\* Before the commit the cache agrees with the table, after it the cache that is
\* about to be published does.
Coherent ==
  process = "up" =>
    /\ op = NoOp => \A h \in Handles : Agree(mem[h], disk[h])
    /\ op # NoOp => GateHeld(op)
    /\ op # NoOp /\ op.phase = "locked" => \A h \in Handles : Agree(mem[h], disk[h])
    /\ op # NoOp /\ op.phase = "committed" =>
          /\ \A h \in Handles : Agree(Published(op)[h], disk[h])
          /\ op.kind = "consume" => released[op.handle] = 0

\* What was handed out is durably consumed, what was reported void durably closed.
History ==
  \A h \in Handles :
    /\ released[h] \in {0, 1}
    /\ released[h] = 1 => disk[h].status \in {"consumed", "compromised"}
    /\ h \in voided => disk[h].status \in {"expired", "revoked"}

IInv == TypeOK /\ RowShape /\ DownEmpty /\ Coherent /\ History

-----------------------------------------------------------------------------
(* The transaction                                                         *)

\* A sweep by some other call keeps a cached record in agreement with its row.
LEMMA AgreeSwept ==
  ASSUME NEW table \in [Handles -> Rows], NEW now \in Nat,
         NEW h \in Handles, NEW m \in Rows, Agree(m, table[h])
  PROVE  Agree(m, Swept(table, now)[h])
<1>1. CASE Swept(table, now)[h] = table[h]
  BY <1>1
<1>2. CASE /\ table[h] \in Invite
           /\ table[h].status = "pending"
           /\ Swept(table, now)[h] = Closed(table[h], "expired")
  <2>1. m = table[h]
    <3>1. CASE m = table[h]
      BY <3>1
    <3>2. CASE m # Absent /\ table[h] = Closed(m, "expired")
      BY <1>2, <3>2, RowCases, ClosedFacts DEF Statuses
    <3> QED BY <3>1, <3>2 DEF Agree
  <2> QED BY <1>2, <2>1, RowCases DEF Agree, Rows
<1> QED BY <1>1, <1>2, SweptFacts

\* The rows an operation other than revokeAll may touch.
LEMMA MatchedOne ==
  ASSUME NEW o \in Ops, NEW table \in [Handles -> Rows],
         o.kind \notin {"issue", "revokeAll"}
  PROVE  /\ Matched(o, table) \subseteq {o.handle}
         /\ o.handle \in Matched(o, table) <=>
               /\ table[o.handle] # Absent
               /\ o.kind = "consume" => table[o.handle].status = "pending"
<1>1. o.handle \in Handles
  BY OpCases
<1>2. CASE o.kind = "consume"
  BY <1>1, <1>2 DEF Matched
<1>3. CASE o.kind # "consume"
  BY <1>1, <1>3 DEF Matched
<1> QED BY <1>2, <1>3

\* The rows that RevokeAllPendingForMember's UPDATE selects are the member's pending ones.
LEMMA MatchedAll ==
  ASSUME NEW o \in Ops, NEW table \in [Handles -> Rows], o.kind = "revokeAll"
  PROVE  Matched(o, table) = {h \in Handles : /\ table[h] # Absent
                                              /\ table[h].member = o.member
                                              /\ table[h].status = "pending"}
BY DEF Matched

\* The status an operation writes is one of the enum, and what kind decides it.
LEMMA TargetFacts ==
  ASSUME NEW o \in Ops
  PROVE  /\ Target(o) \in Statuses
         /\ o.kind = "consume" => Target(o) = "consumed"
         /\ o.kind = "ageout" => Target(o) = "expired"
         /\ o.kind = "compromise" => Target(o) = "compromised"
         /\ o.kind = "revokeAll" => Target(o) = "revoked"
         /\ o.kind = "revoke" => Target(o) = IF ExpiredAt(mem[o.handle], o.now)
                                              THEN "expired" ELSE "revoked"
         /\ o.kind # "issue" => Target(o) # "pending"
<1>1. o.kind \in {"issue", "consume", "ageout", "compromise", "revoke", "revokeAll"}
  BY OpCases
<1> QED BY <1>1 DEF Target, Statuses

\* What a committed operation leaves in one row.
LEMMA WrittenFacts ==
  ASSUME TypeOK, NEW o \in Ops
  PROVE  /\ Swept(disk, o.now) \in [Handles -> Rows]
         /\ Written(o) \in [Handles -> Rows]
         /\ o.kind = "issue" =>
              /\ Written(o)[o.handle] = NewInvite(o.member, o.now)
              /\ \A h \in Handles \ {o.handle} : Written(o)[h] = Swept(disk, o.now)[h]
         /\ o.kind # "issue" => \A h \in Handles :
              Written(o)[h] = IF h \in Matched(o, Swept(disk, o.now))
                                THEN Closed(Swept(disk, o.now)[h], Target(o))
                                ELSE Swept(disk, o.now)[h]
<1>1. /\ o.now \in Nat
      /\ o.kind # "revokeAll" => o.handle \in Handles
      /\ o.kind \in {"issue", "revokeAll"} => o.member \in Members
  BY OpCases
<1>2. disk \in [Handles -> Rows]
  BY DEF TypeOK, Rows
<1>3. Swept(disk, o.now) \in [Handles -> Rows]
  BY <1>1, <1>2, SweptFacts
<1>4. CASE o.kind = "issue"
  <2>1. NewInvite(o.member, o.now) \in Rows
    BY <1>1, <1>4, NewInviteFacts DEF Rows
  <2>2. Written(o) = [Swept(disk, o.now) EXCEPT ![o.handle] = NewInvite(o.member, o.now)]
    BY <1>4 DEF Written
  <2> QED BY <1>1, <1>3, <1>4, <2>1, <2>2
<1>5. CASE o.kind # "issue"
  <2>1. \A h \in Matched(o, Swept(disk, o.now)) :
          Closed(Swept(disk, o.now)[h], Target(o)) \in Rows
    <3> SUFFICES ASSUME NEW h \in Matched(o, Swept(disk, o.now))
                 PROVE  Closed(Swept(disk, o.now)[h], Target(o)) \in Rows
      OBVIOUS
    <3>1. h \in Handles /\ Swept(disk, o.now)[h] # Absent
      BY DEF Matched
    <3>2. Swept(disk, o.now)[h] \in Invite
      BY <1>3, <3>1, RowCases
    <3> QED BY <3>2, TargetFacts, ClosedFacts DEF Rows
  <2>2. Written(o) = [h \in Handles |-> IF h \in Matched(o, Swept(disk, o.now))
                                          THEN Closed(Swept(disk, o.now)[h], Target(o))
                                          ELSE Swept(disk, o.now)[h]]
    BY <1>5 DEF Written
  <2> QED BY <1>3, <1>5, <2>1, <2>2
<1> QED BY <1>3, <1>4, <1>5

\* The sweep of one row, by status.
LEMMA SweptRow ==
  ASSUME NEW table \in [Handles -> Rows], NEW now \in Nat, NEW h \in Handles
  PROVE  /\ Swept(table, now)[h] \in Rows
         /\ \/ Swept(table, now)[h] = table[h]
            \/ table[h].status = "pending" /\ Swept(table, now)[h].status = "expired"
<1>1. CASE Swept(table, now)[h] = table[h]
  BY <1>1
<1>2. CASE /\ table[h] \in Invite
           /\ table[h].status = "pending"
           /\ Swept(table, now)[h] = Closed(table[h], "expired")
  <2>1. "expired" \in Statuses
    BY DEF Statuses
  <2>2. Closed(table[h], "expired").status = "expired" /\ Closed(table[h], "expired") \in Invite
    BY <1>2, <2>1, ClosedFacts
  <2> QED BY <1>2, <2>2 DEF Rows
<1> QED BY <1>1, <1>2, SweptFacts

\* The sweep moves a status forward only.
LEMMA SweptAdvances ==
  ASSUME NEW table \in [Handles -> Rows], NEW now \in Nat, NEW h \in Handles
  PROVE  Abstract!Advances(table[h].status, Swept(table, now)[h].status)
<1>1. \/ Swept(table, now)[h] = table[h]
      \/ table[h].status = "pending" /\ Swept(table, now)[h].status = "expired"
  BY SweptRow
<1> QED BY <1>1 DEF Abstract!Advances

\* A committed transaction moves every status forward only.
LEMMA CommitAdvances ==
  ASSUME TypeOK, NEW o \in Ops, StatementOK(o), NEW h \in Handles
  PROVE  /\ Abstract!Advances(disk[h].status, Written(o)[h].status)
         /\ Written(o)[h].status = "absent" => disk[h].status = "absent"
<1> DEFINE table == Swept(disk, o.now)
<1>1. o.now \in Nat /\ disk \in [Handles -> Rows]
  BY OpCases DEF TypeOK, Rows
<1>2. /\ table \in [Handles -> Rows]
      /\ Abstract!Advances(disk[h].status, table[h].status)
      /\ \/ table[h] = disk[h]
         \/ disk[h].status = "pending" /\ table[h].status = "expired"
  <2>1. table \in [Handles -> Rows]
    BY <1>1, SweptFacts
  <2>2. Abstract!Advances(disk[h].status, table[h].status)
    BY <1>1, SweptAdvances
  <2>3. \/ table[h] = disk[h]
        \/ disk[h].status = "pending" /\ table[h].status = "expired"
    BY <1>1, SweptRow
  <2> QED BY <2>1, <2>2, <2>3
<1>3. CASE o.kind = "issue"
  <2>1. table[o.handle] = Absent /\ o.handle \in Handles /\ o.member \in Members
    BY <1>3, OpCases DEF StatementOK
  <2>2. CASE h = o.handle
    <3>1. disk[h].status = "absent"
      BY <1>2, <2>1, <2>2 DEF Absent
    <3>2. Written(o)[h].status = "pending"
      <4>1. Written(o)[h] = NewInvite(o.member, o.now)
        BY <1>3, <2>2, WrittenFacts
      <4>2. NewInvite(o.member, o.now).status = "pending"
        BY <1>1, <2>1, NewInviteFacts
      <4> QED BY <4>1, <4>2
    <3> QED BY <3>1, <3>2 DEF Abstract!Advances
  <2>3. CASE h # o.handle
    BY <1>2, <1>3, <2>3, WrittenFacts
  <2> QED BY <2>2, <2>3
<1>4. CASE o.kind # "issue" /\ h \in Matched(o, table)
  <2>1. TriggerAllows(table[h].status, Target(o))
    BY <1>4 DEF StatementOK
  <2>2. table[h] \in Invite
    BY <1>2, <1>4, RowCases DEF Matched
  <2>3. Written(o)[h].status = Target(o)
    <3>1. Written(o)[h] = Closed(table[h], Target(o))
      BY <1>4, WrittenFacts
    <3>2. Target(o) \in Statuses
      BY TargetFacts
    <3>3. Closed(table[h], Target(o)).status = Target(o)
      BY <2>2, <3>2, ClosedFacts
    <3> QED BY <3>1, <3>3
  <2>4. Target(o) # "absent" /\ Target(o) # "pending"
    BY <1>4, TargetFacts DEF Statuses
  <2> QED BY <1>2, <2>1, <2>3, <2>4 DEF TriggerAllows, Abstract!Advances
<1>5. CASE o.kind # "issue" /\ h \notin Matched(o, table)
  BY <1>2, <1>5, WrittenFacts
<1> QED BY <1>3, <1>4, <1>5

\* What a published operation leaves in one cached record.
LEMMA PublishedFacts ==
  ASSUME TypeOK, NEW o \in Ops, NEW h \in Handles
  PROVE  /\ o.kind = "issue" =>
              Published(o)[h] = IF h = o.handle THEN NewInvite(o.member, o.now) ELSE mem[h]
         /\ o.kind = "revokeAll" =>
              Published(o)[h] = IF h \in Live(o.member, o.now) THEN Closed(mem[h], "revoked")
                                ELSE IF h \in Aged(o.member, o.now) THEN Closed(mem[h], "expired")
                                ELSE mem[h]
         /\ o.kind \notin {"issue", "revokeAll"} =>
              Published(o)[h] = IF h = o.handle THEN Closed(mem[h], Target(o)) ELSE mem[h]
<1>1. mem \in [Handles -> Rows]
  BY DEF TypeOK, Rows
<1>2. CASE o.kind = "issue"
  BY <1>1, <1>2 DEF Published
<1>3. CASE o.kind = "revokeAll"
  BY <1>1, <1>3 DEF Published
<1>4. CASE o.kind \notin {"issue", "revokeAll"}
  <2>1. Published(o) = [mem EXCEPT ![o.handle] = Closed(@, Target(o))]
    BY <1>4 DEF Published
  <2> QED BY <1>1, <1>4, <2>1
<1> QED BY <1>2, <1>3, <1>4

\* The cache keeps only records of its type.
LEMMA PublishedType ==
  ASSUME TypeOK, NEW o \in Ops, GateHeld(o)
  PROVE  Published(o) \in [Handles -> Rows]
<1>1. mem \in [Handles -> Rows]
  BY DEF TypeOK, Rows
<1>2. o.now \in Nat
  BY OpCases
<1>3. CASE o.kind = "issue"
  <2>1. o.handle \in Handles /\ o.member \in Members
    BY <1>3, OpCases
  <2>2. NewInvite(o.member, o.now) \in Rows
    BY <1>2, <2>1, NewInviteFacts DEF Rows
  <2> QED BY <1>1, <1>3, <2>1, <2>2 DEF Published
<1>4. CASE o.kind = "revokeAll"
  <2>1. ASSUME NEW h \in Live(o.member, o.now) \cup Aged(o.member, o.now)
        PROVE  Closed(mem[h], "revoked") \in Rows /\ Closed(mem[h], "expired") \in Rows
    <3>1. h \in Handles /\ mem[h] # Absent
      BY DEF Live, Aged
    <3>2. mem[h] \in Invite /\ "revoked" \in Statuses /\ "expired" \in Statuses
      BY <1>1, <3>1, RowCases DEF Statuses
    <3> QED BY <3>2, ClosedFacts DEF Rows
  <2> QED BY <1>1, <1>4, <2>1 DEF Published
<1>5. CASE o.kind \notin {"issue", "revokeAll"}
  <2>1. o.handle \in Handles /\ mem[o.handle] # Absent
    BY <1>5, OpCases DEF GateHeld
  <2>2. mem[o.handle] \in Invite /\ Target(o) \in Statuses
    BY <1>1, <2>1, RowCases, TargetFacts
  <2>3. Closed(mem[o.handle], Target(o)) \in Rows
    BY <2>2, ClosedFacts DEF Rows
  <2> QED BY <1>1, <1>5, <2>1, <2>3 DEF Published
<1> QED BY <1>3, <1>4, <1>5

\* A pending row is still what the cache holds; a pending record that is not aged
\* out at o.now has a row that the sweep leaves alone, unless the row was closed.
LEMMA PendingRow ==
  ASSUME TypeOK, NEW now \in Nat, NEW h \in Handles, Agree(mem[h], disk[h]),
         Swept(disk, now)[h].status = "pending"
  PROVE  /\ Swept(disk, now)[h] = mem[h]
         /\ mem[h] # Absent
         /\ GateOpen(mem[h], now)
<1>1. disk \in [Handles -> Rows] /\ mem \in [Handles -> Rows]
  BY DEF TypeOK, Rows
<1>2. Swept(disk, now)[h] = disk[h] /\ ~ExpiredAt(disk[h], now) /\ disk[h].status = "pending"
  BY <1>1, SweptFacts
<1>3. mem[h] = disk[h]
  <2>1. ASSUME mem[h] # Absent, disk[h] = Closed(mem[h], "expired")
        PROVE  FALSE
    <3>1. mem[h] \in Invite /\ "expired" \in Statuses
      BY <1>1, <2>1, RowCases DEF Statuses
    <3>2. Closed(mem[h], "expired").status = "expired"
      BY <3>1, ClosedFacts
    <3> QED BY <1>2, <2>1, <3>2
  <2> QED BY <2>1 DEF Agree
<1>4. mem[h] # Absent
  BY <1>2, <1>3 DEF Absent
<1> QED BY <1>2, <1>3, <1>4 DEF GateOpen

\* A pending record that aged out by now is expired in the swept table.
LEMMA AgedRow ==
  ASSUME TypeOK, NEW now \in Nat, NEW h \in Handles, Agree(mem[h], disk[h]),
         mem[h] # Absent, mem[h].status = "pending", ExpiredAt(mem[h], now)
  PROVE  /\ mem[h] \in Invite
         /\ Swept(disk, now)[h] = Closed(mem[h], "expired")
         /\ Closed(Closed(mem[h], "expired"), "expired") = Closed(mem[h], "expired")
<1>1. disk \in [Handles -> Rows] /\ mem \in [Handles -> Rows]
  BY DEF TypeOK, Rows
<1>2. mem[h] \in Invite
  BY <1>1, RowCases
<1>3. Closed(mem[h], "expired").status = "expired"
  BY <1>2, ClosedFacts DEF Statuses
<1>4. Swept(disk, now)[h] = IF disk[h].status = "pending" /\ ExpiredAt(disk[h], now)
                              THEN Closed(disk[h], "expired")
                              ELSE disk[h]
  BY DEF Swept
<1>5. Closed(Closed(mem[h], "expired"), "expired") = Closed(mem[h], "expired")
  BY <1>2 DEF Closed, Invite
<1>6. Swept(disk, now)[h] = Closed(mem[h], "expired")
  <2>1. CASE disk[h] = mem[h]
    BY <1>4, <2>1
  <2>2. CASE disk[h] = Closed(mem[h], "expired")
    <3>1. disk[h].status # "pending"
      BY <1>3, <2>2
    <3> QED BY <1>4, <2>2, <3>1
  <2> QED BY <2>1, <2>2 DEF Agree
<1> QED BY <1>2, <1>5, <1>6

\* RevokeAllPendingForMember: a row that its UPDATE selects after the sweep is one of the
\* invites it counted in memory.
LEMMA MatchedInLive ==
  ASSUME TypeOK, NEW o \in Ops, o.kind = "revokeAll",
         \A h \in Handles : Agree(mem[h], disk[h])
  PROVE  Matched(o, Swept(disk, o.now)) \subseteq Live(o.member, o.now)
<1> DEFINE table == Swept(disk, o.now)
<1>1. o.now \in Nat /\ table \in [Handles -> Rows]
  BY OpCases, WrittenFacts
<1> SUFFICES ASSUME NEW h \in Matched(o, table)
             PROVE  h \in Live(o.member, o.now)
  OBVIOUS
<1>2. h \in Handles /\ table[h].member = o.member /\ table[h].status = "pending"
  BY <1>1, MatchedAll
<1>3. table[h] = mem[h] /\ mem[h] # Absent /\ GateOpen(mem[h], o.now)
  BY <1>1, <1>2, PendingRow
<1> QED BY <1>2, <1>3 DEF Live

\* As many rows as live records means the same handles.
LEMMA RevokeAllMatchesLive ==
  ASSUME TypeOK, NEW o \in Ops, o.kind = "revokeAll", StatementOK(o),
         \A h \in Handles : Agree(mem[h], disk[h])
  PROVE  Matched(o, Swept(disk, o.now)) = Live(o.member, o.now)
<1> DEFINE table == Swept(disk, o.now)
<1>1. Matched(o, table) \subseteq Live(o.member, o.now)
  BY MatchedInLive
<1>2. IsFiniteSet(Live(o.member, o.now))
  BY HandlesFinite, FS_Subset DEF Live
<1>3. Cardinality(Matched(o, table)) = Cardinality(Live(o.member, o.now))
  BY DEF StatementOK, Wanted
<1> HIDE DEF table
<1>4. Matched(o, table) = Live(o.member, o.now)
  BY <1>1, <1>2, <1>3, FS_Subset
<1> QED BY <1>4 DEF table

\* The heart of the argument: what is about to be published agrees with what the
\* transaction wrote, whatever other calls swept and wherever the clock was set.
LEMMA CommitAgrees ==
  ASSUME TypeOK, NEW o \in Ops, GateHeld(o), StatementOK(o),
         \A h \in Handles : Agree(mem[h], disk[h]), NEW h \in Handles
  PROVE  Agree(Published(o)[h], Written(o)[h])
<1> DEFINE table == Swept(disk, o.now)
<1>1. /\ o.now \in Nat
      /\ o.kind # "revokeAll" => o.handle \in Handles
      /\ disk \in [Handles -> Rows]
      /\ mem \in [Handles -> Rows]
      /\ table \in [Handles -> Rows]
  BY OpCases, WrittenFacts DEF TypeOK, Rows
<1>2. Agree(mem[h], table[h])
  BY <1>1, AgreeSwept
<1>3. CASE o.kind = "issue"
  <2>1. CASE h = o.handle
    <3>1. Published(o)[h] = NewInvite(o.member, o.now)
      BY <1>3, <2>1, PublishedFacts
    <3>2. Written(o)[h] = NewInvite(o.member, o.now)
      BY <1>3, <2>1, WrittenFacts
    <3> QED BY <3>1, <3>2 DEF Agree
  <2>2. CASE h # o.handle
    <3>1. Published(o)[h] = mem[h]
      BY <1>3, <2>2, PublishedFacts
    <3>2. Written(o)[h] = table[h]
      BY <1>3, <2>2, WrittenFacts
    <3> QED BY <1>2, <3>1, <3>2
  <2> QED BY <2>1, <2>2
<1>4. CASE o.kind = "revokeAll"
  <2>1. Written(o)[h] = IF h \in Live(o.member, o.now)
                          THEN Closed(table[h], "revoked") ELSE table[h]
    <3>1. Matched(o, table) = Live(o.member, o.now)
      BY <1>4, RevokeAllMatchesLive
    <3>2. Target(o) = "revoked"
      BY <1>4, TargetFacts
    <3> QED BY <1>4, <3>1, <3>2, WrittenFacts
  <2>2. CASE h \in Live(o.member, o.now)
    <3>1. table[h].status = "pending"
      BY <1>1, <1>4, <2>2, RevokeAllMatchesLive, MatchedAll
    <3>2. table[h] = mem[h]
      BY <1>1, <3>1, PendingRow
    <3>3. Published(o)[h] = Closed(mem[h], "revoked")
      BY <1>4, <2>2, PublishedFacts
    <3> QED BY <2>1, <2>2, <3>2, <3>3 DEF Agree
  <2>3. CASE h \notin Live(o.member, o.now) /\ h \in Aged(o.member, o.now)
    <3>1. table[h] = Closed(mem[h], "expired")
      BY <1>1, <2>3, AgedRow DEF Aged
    <3>2. Published(o)[h] = Closed(mem[h], "expired")
      BY <1>4, <2>3, PublishedFacts
    <3> QED BY <2>1, <2>3, <3>1, <3>2 DEF Agree
  <2>4. CASE h \notin Live(o.member, o.now) /\ h \notin Aged(o.member, o.now)
    <3>1. Published(o)[h] = mem[h]
      BY <1>4, <2>4, PublishedFacts
    <3> QED BY <1>2, <2>1, <2>4, <3>1
  <2> QED BY <2>2, <2>3, <2>4
<1>5. CASE o.kind \notin {"issue", "revokeAll"} /\ h # o.handle
  <2>1. h \notin Matched(o, table)
    BY <1>1, <1>5, MatchedOne
  <2>2. Written(o)[h] = table[h]
    BY <1>5, <2>1, WrittenFacts
  <2>3. Published(o)[h] = mem[h]
    BY <1>5, PublishedFacts
  <2> QED BY <1>2, <2>2, <2>3
<1>6. CASE o.kind \notin {"issue", "revokeAll"} /\ h = o.handle
  <2>1. Published(o)[h] = Closed(mem[h], Target(o))
    BY <1>6, PublishedFacts
  <2>2. h \in Matched(o, table)
    <3>1. Cardinality(Matched(o, table)) = 1
      BY <1>6 DEF StatementOK, Wanted
    <3>2. Matched(o, table) # {}
      BY <3>1, FS_EmptySet
    <3> QED BY <1>1, <1>6, <3>2, MatchedOne
  <2>3. Written(o)[h] = Closed(table[h], Target(o))
    BY <1>6, <2>2, WrittenFacts
  <2>4. TriggerAllows(table[h].status, Target(o))
    BY <1>6, <2>2 DEF StatementOK
  <2>5. SUFFICES Closed(mem[h], Target(o)) = Closed(table[h], Target(o))
    BY <2>1, <2>3 DEF Agree
  <2>6. CASE mem[h] = table[h]
    BY <2>6
  <2>7. CASE mem[h] # Absent /\ mem[h].status = "pending" /\ table[h] = Closed(mem[h], "expired")
    <3>1. mem[h] \in Invite
      BY <1>1, <2>7, RowCases
    <3>2. table[h].status = "expired"
      <4>1. Closed(mem[h], "expired").status = "expired"
        BY <3>1, ClosedFacts DEF Statuses
      <4> QED BY <2>7, <4>1
    <3>3. Target(o) = "expired"
      BY <2>4, <3>2, <1>6 DEF TriggerAllows
    <3> QED BY <2>7, <3>1, <3>3 DEF Closed, Invite
  <2> QED BY <1>2, <2>6, <2>7 DEF Agree
<1> QED BY <1>3, <1>4, <1>5, <1>6

\* A committed row holds its plaintext exactly while it is pending.
LEMMA WrittenShape ==
  ASSUME TypeOK, RowShape, NEW o \in Ops, StatementOK(o), NEW h \in Handles
  PROVE  Written(o)[h] # Absent => (Written(o)[h].sealed <=> Written(o)[h].status = "pending")
<1> DEFINE table == Swept(disk, o.now)
<1>1. /\ o.now \in Nat
      /\ o.kind = "issue" => o.handle \in Handles /\ o.member \in Members
      /\ disk \in [Handles -> Rows]
      /\ table \in [Handles -> Rows]
  BY OpCases, WrittenFacts DEF TypeOK, Rows
<1>2. table[h] # Absent => (table[h].sealed <=> table[h].status = "pending")
  <2>1. CASE table[h] = disk[h]
    BY <2>1 DEF RowShape
  <2>2. CASE disk[h] \in Invite /\ table[h] = Closed(disk[h], "expired")
    <3>1. /\ Closed(disk[h], "expired").status = "expired"
          /\ Closed(disk[h], "expired").sealed = FALSE
      BY <2>2, ClosedFacts DEF Statuses
    <3> QED BY <2>2, <3>1
  <2> QED BY <1>1, <2>1, <2>2, SweptFacts
<1>3. CASE o.kind = "issue" /\ h = o.handle
  <2>1. Written(o)[h] = NewInvite(o.member, o.now)
    BY <1>3, WrittenFacts
  <2>2. /\ NewInvite(o.member, o.now).status = "pending"
        /\ NewInvite(o.member, o.now).sealed = TRUE
    BY <1>1, <1>3, NewInviteFacts
  <2> QED BY <2>1, <2>2
<1>4. CASE o.kind = "issue" /\ h # o.handle
  <2>1. Written(o)[h] = table[h]
    BY <1>4, WrittenFacts
  <2> QED BY <1>2, <2>1
<1>5. CASE o.kind # "issue" /\ h \notin Matched(o, table)
  <2>1. Written(o)[h] = table[h]
    BY <1>5, WrittenFacts
  <2> QED BY <1>2, <2>1
<1>6. CASE o.kind # "issue" /\ h \in Matched(o, table)
  <2>1. Written(o)[h] = Closed(table[h], Target(o))
    BY <1>6, WrittenFacts
  <2>2. table[h] # Absent /\ table[h] \in Invite
    BY <1>1, <1>6, RowCases DEF Matched
  <2>3. Target(o) \in Statuses /\ Target(o) # "pending"
    BY <1>6, TargetFacts
  <2>4. TriggerAllows(table[h].status, Target(o))
    BY <1>6 DEF StatementOK
  <2>5. /\ Closed(table[h], Target(o)).status = Target(o)
        /\ Closed(table[h], Target(o)).sealed =
             IF Target(o) = "compromised" THEN table[h].sealed ELSE FALSE
    BY <2>2, <2>3, ClosedFacts
  <2>6. Target(o) = "compromised" => table[h].status # "pending"
    BY <2>4 DEF TriggerAllows
  <2>7. Closed(table[h], Target(o)).sealed = FALSE
    <3>1. table[h].sealed \in BOOLEAN
      BY <2>2 DEF Invite
    <3> QED BY <1>2, <2>2, <2>5, <2>6, <3>1
  <2> QED BY <2>1, <2>3, <2>5, <2>7
<1> QED BY <1>3, <1>4, <1>5, <1>6

\* So does a published record.
LEMMA PublishedShape ==
  ASSUME TypeOK, RowShape, NEW o \in Ops, GateHeld(o), NEW h \in Handles
  PROVE  Published(o)[h] # Absent => (Published(o)[h].sealed <=> Published(o)[h].status = "pending")
<1>1. /\ o.now \in Nat
      /\ o.kind = "issue" => o.handle \in Handles /\ o.member \in Members
      /\ mem \in [Handles -> Rows]
  BY OpCases DEF TypeOK, Rows
<1>2. mem[h] # Absent => (mem[h].sealed <=> mem[h].status = "pending")
  BY DEF RowShape
<1>3. CASE Published(o)[h] = mem[h]
  BY <1>2, <1>3
<1>4. CASE o.kind = "issue" /\ h = o.handle
  <2>1. Published(o)[h] = NewInvite(o.member, o.now)
    BY <1>4, PublishedFacts
  <2>2. /\ NewInvite(o.member, o.now).status = "pending"
        /\ NewInvite(o.member, o.now).sealed = TRUE
    BY <1>1, <1>4, NewInviteFacts
  <2> QED BY <2>1, <2>2
<1>5. ASSUME NEW to \in Statuses \ {"pending", "compromised"}, mem[h] # Absent,
             Published(o)[h] = Closed(mem[h], to)
      PROVE  ~Published(o)[h].sealed /\ Published(o)[h].status # "pending"
  <2>1. mem[h] \in Invite
    BY <1>1, <1>5, RowCases
  <2>2. Closed(mem[h], to).status = to /\ Closed(mem[h], to).sealed = FALSE
    BY <2>1, ClosedFacts
  <2> QED BY <1>5, <2>2
<1>6. CASE o.kind = "revokeAll"
  <2>1. \/ Published(o)[h] = mem[h]
        \/ mem[h] # Absent /\ Published(o)[h] = Closed(mem[h], "revoked")
        \/ mem[h] # Absent /\ Published(o)[h] = Closed(mem[h], "expired")
    BY <1>6, PublishedFacts DEF Live, Aged
  <2> QED BY <1>3, <1>5, <2>1 DEF Statuses
<1>7. CASE o.kind \notin {"issue", "revokeAll", "compromise"} /\ h = o.handle
  <2>1. Published(o)[h] = Closed(mem[h], Target(o)) /\ mem[h] # Absent
    BY <1>7, OpCases, PublishedFacts DEF GateHeld
  <2>2. Target(o) \in Statuses \ {"pending", "compromised"}
    BY <1>7, OpCases, TargetFacts DEF Statuses
  <2> QED BY <1>5, <2>1, <2>2
<1>8. CASE o.kind = "compromise" /\ h = o.handle
  <2>1. Published(o)[h] = Closed(mem[h], "compromised")
    BY <1>8, PublishedFacts, TargetFacts
  <2>2. mem[h] # Absent /\ mem[h] \in Invite /\ mem[h].status = "consumed"
    BY <1>1, <1>8, RowCases DEF GateHeld
  <2>3. /\ Closed(mem[h], "compromised").status = "compromised"
        /\ Closed(mem[h], "compromised").sealed = mem[h].sealed
    BY <2>2, ClosedFacts DEF Statuses
  <2> QED BY <1>2, <2>1, <2>2, <2>3
<1>9. CASE o.kind # "revokeAll" /\ h # o.handle
  <2>1. Published(o)[h] = mem[h]
    BY <1>9, PublishedFacts
  <2> QED BY <1>3, <2>1
<1> QED BY <1>4, <1>6, <1>7, <1>8, <1>9

-----------------------------------------------------------------------------
(* The steps                                                               *)

\* What an operation will publish depends only on the maps and its parameters.
LEMMA PublishedStable ==
  ASSUME mem' = mem, op \in Ops, op' \in Ops,
         op'.kind = op.kind, op'.now = op.now,
         op.kind # "revokeAll" => op'.handle = op.handle,
         op.kind \in {"issue", "revokeAll"} => op'.member = op.member
  PROVE  Published(op)' = Published(op) /\ (GateHeld(op) => GateHeld(op)')
<1>1. CASE op.kind = "issue"
  BY <1>1 DEF Published, GateHeld, NewInvite
<1>2. CASE op.kind = "revokeAll"
  BY <1>2 DEF Published, GateHeld, Live, Aged, GateOpen, ExpiredAt, Closed
<1>3. CASE op.kind \notin {"issue", "revokeAll"}
  <2>1. Target(op)' = Target(op)
    BY <1>3, OpCases DEF Target, ExpiredAt
  <2>2. Published(op) = [mem EXCEPT ![op.handle] = Closed(@, Target(op))]
    BY <1>3 DEF Published
  <2>3. Published(op)' = [mem EXCEPT ![op.handle] = Closed(@, Target(op))]
    BY <1>3, <2>1 DEF Published, Closed
  <2>4. GateHeld(op) => GateHeld(op)'
    BY <1>3 DEF GateHeld, GateOpen, ExpiredAt
  <2> QED BY <2>2, <2>3, <2>4
<1> QED BY <1>1, <1>2, <1>3

\* After a commit a row is still sealed exactly while it is pending.
LEMMA CommitShape ==
  ASSUME op \in Ops, op' = [op EXCEPT !.phase = "committed"]
  PROVE  /\ op' \in Ops
         /\ op'.phase = "committed"
         /\ op'.kind = op.kind
         /\ op'.now = op.now
         /\ op.kind # "revokeAll" => op'.handle = op.handle
         /\ op.kind \in {"issue", "revokeAll"} => op'.member = op.member
BY DEF Ops

\* A first start has an empty table and no daemon, which satisfies the invariant.
LEMMA InitIInv == Init => IInv
BY BoundsAssumption DEF Init, IInv, TypeOK, RowShape, DownEmpty, Coherent, History, NoOp, Absent

\* Every action keeps the types.
LEMMA TypeStep == IInv /\ [Next]_vars => TypeOK'
<1> SUFFICES ASSUME IInv, [Next]_vars PROVE TypeOK'
  OBVIOUS
<1> USE DEF IInv
<1>1. ASSUME NEW h \in Handles, NEW m \in Members, IssueCall(h, m) PROVE TypeOK'
  BY <1>1 DEF IssueCall, TypeOK
<1>2. ASSUME NEW w \in waiting, IssueEnter(w) PROVE TypeOK'
  <2>1. w \in [handle : Handles, member : Members, now : Nat]
    BY DEF TypeOK
  <2>2. op' \in Ops \cup {NoOp}
    BY <1>2, <2>1 DEF IssueEnter, Ops
  <2> QED BY <1>2, <2>2 DEF IssueEnter, TypeOK
<1>3. ASSUME NEW h \in Handles,
             NEW kind \in {"consume", "ageout", "compromise", "revoke"}, Enter(kind, h)
      PROVE  TypeOK'
  <2>1. op' \in Ops
    BY <1>3 DEF Enter, Ops, TypeOK
  <2> QED BY <1>3, <2>1 DEF Enter, TypeOK
<1>4. ASSUME NEW m \in Members, RevokeAllEnter(m) PROVE TypeOK'
  <2>1. op' \in Ops
    BY <1>4 DEF RevokeAllEnter, Ops, TypeOK
  <2> QED BY <1>4, <2>1 DEF RevokeAllEnter, TypeOK
<1>5. CASE Commit
  <2>1. op \in Ops
    BY <1>5 DEF Commit, TypeOK
  <2>2. Written(op) \in [Handles -> Rows]
    BY <2>1, WrittenFacts
  <2>3. op' \in Ops
    BY <1>5, <2>1, CommitShape DEF Commit
  <2> QED BY <1>5, <2>2, <2>3 DEF Commit, TypeOK, Rows
<1>6. CASE Rollback
  BY <1>6 DEF Rollback, TypeOK
<1>7. CASE Return
  <2>1. op \in Ops /\ op # NoOp
    BY <1>7 DEF Return, TypeOK
  <2>2. process = "up"
    BY <2>1 DEF DownEmpty
  <2>3. Published(op) \in [Handles -> Rows]
    BY <2>1, <2>2, PublishedType DEF Coherent
  <2>4. ReportedVoid(op) \subseteq Handles
    BY <2>1, OpCases DEF ReportedVoid, Live, Aged
  <2>5. released' \in [Handles -> Nat]
    BY <1>7, <2>1, OpCases DEF Return, TypeOK
  <2> QED BY <1>7, <2>3, <2>4, <2>5 DEF Return, TypeOK, Rows
<1>8. CASE Crash
  BY <1>8 DEF Crash, TypeOK
<1>9. CASE BootSweep
  <2>1. Swept(disk, clock) \in [Handles -> Rows]
    BY SweptFacts DEF TypeOK, Rows
  <2> QED BY <1>9, <2>1 DEF BootSweep, TypeOK, Rows
<1>10. CASE BootLoad
  BY <1>10 DEF BootLoad, TypeOK
<1>11. CASE Tick
  BY <1>11 DEF Tick, TypeOK
<1>12. CASE ClockSetBack
  BY <1>12, BoundsAssumption DEF ClockSetBack, TypeOK
<1>13. CASE UNCHANGED vars
  BY <1>13 DEF vars, TypeOK
<1> QED
  BY <1>1, <1>2, <1>3, <1>4, <1>5, <1>6, <1>7, <1>8, <1>9, <1>10, <1>11, <1>12, <1>13
  DEF Next, UnwrapEnter, CompromiseEnter, RevokeEnter

\* Steps that leave the table, the maps, the daemon, the lock and the histories
\* alone: a waiting Issue call and the clock.
LEMMA IdleStep ==
  ASSUME IInv, UNCHANGED <<process, disk, mem, op, released, voided>>,
         process # "up" => waiting' = {}
  PROVE  (RowShape /\ DownEmpty /\ Coherent /\ History)'
<1>1. op # NoOp => Published(op)' = Published(op) /\ (GateHeld(op) => GateHeld(op)')
  BY PublishedStable DEF IInv, TypeOK
<1>2. Coherent'
  BY <1>1 DEF IInv, Coherent, Agree, Closed
<1> QED BY <1>2 DEF IInv, RowShape, DownEmpty, History

\* A mutator that enters has passed its gate and changed nothing yet.
LEMMA EnterStep ==
  ASSUME IInv, process = "up", op = NoOp, op' \in Ops, op'.phase = "locked",
         GateHeld(op)', UNCHANGED <<process, disk, mem, released, voided>>
  PROVE  (RowShape /\ DownEmpty /\ Coherent /\ History)'
<1>1. op' # NoOp
  BY OpCases
<1>2. Coherent'
  BY <1>1 DEF IInv, Coherent, Agree, Closed
<1> QED BY <1>2 DEF IInv, RowShape, DownEmpty, History

\* Returning from a call, or dropping it, with nothing written.
LEMMA LeaveStep ==
  ASSUME IInv, process = "up", op' = NoOp, op = NoOp \/ op.phase = "locked",
         UNCHANGED <<process, disk, mem, released, voided>>
  PROVE  (RowShape /\ DownEmpty /\ Coherent /\ History)'
<1>1. Coherent'
  BY DEF IInv, Coherent, Agree, Closed
<1> QED BY <1>1 DEF IInv, RowShape, DownEmpty, History

\* The commit of a mutator keeps the invariant: the table moves ahead of the cache only
\* by what the mutator is about to publish.
LEMMA CommitStep ==
  ASSUME IInv, Commit
  PROVE  (RowShape /\ DownEmpty /\ Coherent /\ History)'
<1>1. op \in Ops /\ op # NoOp /\ op.phase = "locked" /\ TypeOK
  BY DEF Commit, IInv, TypeOK
<1>2. process = "up" /\ GateHeld(op) /\ \A h \in Handles : Agree(mem[h], disk[h])
  BY <1>1 DEF IInv, DownEmpty, Coherent
<1>3. /\ op' \in Ops
      /\ op'.phase = "committed"
      /\ op'.kind = op.kind
      /\ op'.now = op.now
      /\ op.kind # "revokeAll" => op'.handle = op.handle
      /\ op.kind \in {"issue", "revokeAll"} => op'.member = op.member
      /\ op' # NoOp
  BY <1>1, CommitShape, OpCases DEF Commit
<1>4. Published(op)' = Published(op) /\ GateHeld(op)'
  BY <1>1, <1>2, <1>3, PublishedStable DEF Commit
<1>5. disk' = Written(op) /\ StatementOK(op) /\ UNCHANGED <<process, mem, released, voided>>
  BY DEF Commit
<1>6. RowShape'
  <2>1. \A h \in Handles :
          disk'[h] # Absent => (disk'[h].sealed <=> disk'[h].status = "pending")
    BY <1>1, <1>5, WrittenShape DEF IInv
  <2> QED BY <1>5, <2>1 DEF IInv, RowShape
<1>7. DownEmpty'
  BY <1>2, <1>5 DEF DownEmpty
<1>8. ASSUME NEW h \in Handles
      PROVE  Abstract!Advances(disk[h].status, disk'[h].status)
  BY <1>1, <1>5, CommitAdvances
<1>9. History'
  BY <1>5, <1>8 DEF IInv, History, Abstract!Advances
<1>10. op.kind = "consume" => released[op.handle] = 0
  <2> SUFFICES ASSUME op.kind = "consume" PROVE released[op.handle] = 0
    OBVIOUS
  <2>1. op.handle \in Handles /\ op.now \in Nat
    BY <1>1, OpCases
  <2>2. Swept(disk, op.now) \in [Handles -> Rows]
    BY <1>1, WrittenFacts
  <2>3. op.handle \in Matched(op, Swept(disk, op.now))
    <3>1. Cardinality(Matched(op, Swept(disk, op.now))) = 1
      BY <1>5 DEF StatementOK, Wanted
    <3>2. Matched(op, Swept(disk, op.now)) # {}
      BY <3>1, FS_EmptySet
    <3> QED BY <1>1, <2>2, <3>2, MatchedOne
  <2>4. Swept(disk, op.now)[op.handle].status = "pending"
    BY <1>1, <2>2, <2>3, MatchedOne
  <2>5. disk[op.handle].status = "pending"
    BY <1>1, <2>1, <2>4, SweptFacts DEF TypeOK, Rows
  <2> QED BY <2>1, <2>5 DEF IInv, History
<1>11. \A h \in Handles : Agree(Published(op)[h], Written(op)[h])
  BY <1>1, <1>2, <1>5, CommitAgrees
<1>12. Coherent'
  <2>1. \A h \in Handles : Agree(Published(op)[h], disk[h])'
    BY <1>4, <1>5, <1>11 DEF Agree, Closed
  <2>2. op'.kind = "consume" => released'[op'.handle] = 0
    BY <1>3, <1>5, <1>10
  <2> QED BY <1>3, <1>4, <2>1, <2>2 DEF Coherent
<1> QED BY <1>6, <1>7, <1>9, <1>12

\* When Unwrap is about to return, the table already says consumed.
LEMMA ConsumedBeforeReturn ==
  ASSUME IInv, op # NoOp, op.phase = "committed", op.kind = "consume"
  PROVE  op.handle \in Handles /\ disk[op.handle].status = "consumed"
<1>1. op \in Ops /\ TypeOK
  BY DEF IInv, TypeOK
<1>2. GateHeld(op) /\ \A h \in Handles : Agree(Published(op)[h], disk[h])
  BY <1>1 DEF IInv, DownEmpty, Coherent
<1>3. op.handle \in Handles /\ mem[op.handle] # Absent
  BY <1>1, <1>2, OpCases DEF GateHeld
<1>4. Published(op)[op.handle] = Closed(mem[op.handle], "consumed")
  BY <1>1, <1>3, PublishedFacts, TargetFacts
<1>5. mem[op.handle] \in Invite
  BY <1>1, <1>3, RowCases DEF TypeOK, Rows
<1>6. Closed(mem[op.handle], "consumed").status = "consumed"
  BY <1>5, ClosedFacts DEF Statuses
<1>7. Published(op)[op.handle].status = "consumed"
  BY <1>4, <1>6
<1>8. disk[op.handle] = Published(op)[op.handle]
  BY <1>2, <1>3, <1>7 DEF Agree
<1> QED BY <1>3, <1>7, <1>8

\* Publishing and replying keeps the invariant: what is released or reported void is
\* already on disk.
LEMMA ReturnStep ==
  ASSUME IInv, Return
  PROVE  (RowShape /\ DownEmpty /\ Coherent /\ History)'
<1>1. op \in Ops /\ op # NoOp /\ op.phase = "committed" /\ TypeOK
  BY DEF Return, IInv, TypeOK
<1>2. /\ process = "up"
      /\ GateHeld(op)
      /\ \A h \in Handles : Agree(Published(op)[h], disk[h])
      /\ op.kind = "consume" => released[op.handle] = 0
  BY <1>1 DEF IInv, DownEmpty, Coherent
<1>3. mem' = Published(op) /\ op' = NoOp /\ UNCHANGED <<process, disk>>
  BY DEF Return
<1>4. RowShape'
  <2>1. \A h \in Handles :
          mem'[h] # Absent => (mem'[h].sealed <=> mem'[h].status = "pending")
    BY <1>1, <1>2, <1>3, PublishedShape DEF IInv
  <2> QED BY <1>3, <2>1 DEF IInv, RowShape
<1>5. DownEmpty'
  BY <1>2, <1>3 DEF DownEmpty
<1>6. Coherent'
  BY <1>2, <1>3 DEF Coherent, Agree, Closed
<1>7. ASSUME NEW h \in Handles, NEW to \in Statuses \ {"pending"}, mem[h] # Absent,
             Published(op)[h] = Closed(mem[h], to)
      PROVE  disk[h].status = to
  <2>1. mem[h] \in Invite
    BY <1>1, <1>7, RowCases DEF TypeOK, Rows
  <2>2. Closed(mem[h], to).status = to
    BY <1>7, <2>1, ClosedFacts
  <2>3. Published(op)[h].status = to
    BY <1>7, <2>2
  <2>4. disk[h] = Published(op)[h]
    BY <1>2, <1>7, <2>3 DEF Agree
  <2> QED BY <2>3, <2>4
<1>8. op.kind = "consume" => op.handle \in Handles /\ disk[op.handle].status = "consumed"
  BY <1>1, ConsumedBeforeReturn
<1>9. ASSUME NEW h \in ReportedVoid(op)
      PROVE  disk[h].status \in {"expired", "revoked"}
  <2>1. CASE op.kind = "revoke"
    <3>1. h = op.handle /\ h \in Handles /\ mem[h] # Absent
      BY <1>1, <1>2, <2>1, OpCases DEF ReportedVoid, GateHeld
    <3>2. Published(op)[h] = Closed(mem[h], Target(op))
      BY <1>1, <2>1, <3>1, PublishedFacts
    <3>3. Target(op) \in {"expired", "revoked"}
      BY <1>1, <2>1, TargetFacts
    <3> QED BY <1>7, <3>1, <3>2, <3>3 DEF Statuses
  <2>2. CASE op.kind = "revokeAll"
    <3>1. h \in Live(op.member, op.now) \cup Aged(op.member, op.now)
      BY <2>2 DEF ReportedVoid
    <3>2. h \in Handles /\ mem[h] # Absent
      BY <3>1 DEF Live, Aged
    <3>3. \/ Published(op)[h] = Closed(mem[h], "revoked")
          \/ Published(op)[h] = Closed(mem[h], "expired")
      BY <1>1, <2>2, <3>1, <3>2, PublishedFacts
    <3> QED BY <1>7, <3>2, <3>3 DEF Statuses
  <2>3. CASE op.kind \notin {"revoke", "revokeAll"}
    BY <2>3 DEF ReportedVoid
  <2> QED BY <2>1, <2>2, <2>3
<1>10. History'
  <2> SUFFICES ASSUME NEW h \in Handles
               PROVE  /\ released'[h] \in {0, 1}
                      /\ released'[h] = 1 => disk[h].status \in {"consumed", "compromised"}
                      /\ h \in voided' => disk[h].status \in {"expired", "revoked"}
    BY <1>3 DEF History
  <2>1. h \in voided' => disk[h].status \in {"expired", "revoked"}
    BY <1>9 DEF Return, IInv, History
  <2>2. CASE op.kind = "consume" /\ h = op.handle
    <3>1. released'[h] = 1
      BY <1>2, <2>2 DEF Return, IInv, TypeOK
    <3> QED BY <1>8, <2>1, <2>2, <3>1
  <2>3. CASE ~(op.kind = "consume" /\ h = op.handle)
    <3>1. released'[h] = released[h]
      BY <1>8, <2>3 DEF Return, IInv, TypeOK
    <3> QED BY <2>1, <3>1 DEF IInv, History
  <2> QED BY <2>2, <2>3
<1> QED BY <1>4, <1>5, <1>6, <1>10

\* A crash keeps the invariant: the table is untouched and memory is empty.
LEMMA CrashStep ==
  ASSUME IInv, Crash
  PROVE  (RowShape /\ DownEmpty /\ Coherent /\ History)'
BY DEF IInv, Crash, RowShape, DownEmpty, Coherent, History, Absent

\* The boot-time sweep keeps the invariant.
LEMMA BootSweepStep ==
  ASSUME IInv, BootSweep
  PROVE  (RowShape /\ DownEmpty /\ Coherent /\ History)'
<1>1. disk \in [Handles -> Rows] /\ clock \in Nat
  BY DEF IInv, TypeOK, Rows
<1>2. /\ disk' = Swept(disk, clock)
      /\ process' = "swept"
      /\ UNCHANGED <<mem, waiting, op, released, voided>>
      /\ process # "up"
  BY DEF BootSweep
<1>3. ASSUME NEW h \in Handles
      PROVE  disk'[h] # Absent => (disk'[h].sealed <=> disk'[h].status = "pending")
  <2>1. CASE disk'[h] = disk[h]
    BY <2>1 DEF IInv, RowShape
  <2>2. CASE disk[h] \in Invite /\ disk'[h] = Closed(disk[h], "expired")
    <3>1. /\ Closed(disk[h], "expired").status = "expired"
          /\ Closed(disk[h], "expired").sealed = FALSE
      BY <2>2, ClosedFacts DEF Statuses
    <3> QED BY <2>2, <3>1
  <2> QED BY <1>1, <1>2, <2>1, <2>2, SweptFacts
<1>4. RowShape'
  BY <1>2, <1>3 DEF IInv, RowShape
<1>5. ASSUME NEW h \in Handles
      PROVE  Abstract!Advances(disk[h].status, disk'[h].status)
  BY <1>1, <1>2, SweptAdvances
<1>6. History'
  BY <1>2, <1>5 DEF IInv, History, Abstract!Advances
<1> QED BY <1>2, <1>4, <1>6 DEF IInv, DownEmpty, Coherent

\* Loading the maps from the table makes them agree with it.
LEMMA BootLoadStep ==
  ASSUME IInv, BootLoad
  PROVE  (RowShape /\ DownEmpty /\ Coherent /\ History)'
BY DEF IInv, BootLoad, RowShape, DownEmpty, Coherent, History, Agree

\* The invariant is inductive.
LEMMA IInvStep == IInv /\ [Next]_vars => IInv'
<1> SUFFICES ASSUME IInv, [Next]_vars
             PROVE  (RowShape /\ DownEmpty /\ Coherent /\ History)'
  BY TypeStep DEF IInv
<1> DEFINE Rest == RowShape /\ DownEmpty /\ Coherent /\ History
<1>1. ASSUME NEW h \in Handles, NEW m \in Members, IssueCall(h, m) PROVE Rest'
  BY <1>1, IdleStep DEF IssueCall
<1>2. ASSUME NEW w \in waiting, IssueEnter(w) PROVE Rest'
  <2>1. w \in [handle : Handles, member : Members, now : Nat]
    BY DEF IInv, TypeOK
  <2>2. CASE mem[w.handle] # Absent
    BY <1>2, <2>2, LeaveStep DEF IssueEnter
  <2>3. CASE mem[w.handle] = Absent
    <3>1. /\ op' \in Ops
          /\ op'.phase = "locked"
          /\ GateHeld(op)'
      BY <1>2, <2>1, <2>3 DEF IssueEnter, Ops, GateHeld
    <3> QED BY <1>2, <3>1, EnterStep DEF IssueEnter
  <2> QED BY <2>2, <2>3
<1>3. ASSUME NEW h \in Handles,
             NEW kind \in {"consume", "ageout", "compromise", "revoke"}, Enter(kind, h),
             kind = "consume" => GateOpen(mem[h], clock),
             kind = "ageout" => mem[h].status = "pending" /\ ExpiredAt(mem[h], clock),
             kind = "compromise" => mem[h].status = "consumed",
             kind = "revoke" => mem[h].status = "pending"
      PROVE  Rest'
  <2>1. op' \in Ops /\ op'.phase = "locked"
    BY <1>3 DEF Enter, Ops, IInv, TypeOK
  <2>2. GateHeld(op)'
    BY <1>3 DEF Enter, GateHeld, GateOpen, ExpiredAt
  <2> QED BY <1>3, <2>1, <2>2, EnterStep DEF Enter
<1>4. ASSUME NEW h \in Handles, UnwrapEnter(h) \/ CompromiseEnter(h) \/ RevokeEnter(h)
      PROVE  Rest'
  BY <1>3, <1>4 DEF UnwrapEnter, CompromiseEnter, RevokeEnter
<1>5. ASSUME NEW m \in Members, RevokeAllEnter(m) PROVE Rest'
  <2>1. op' \in Ops /\ op'.phase = "locked" /\ GateHeld(op)'
    BY <1>5 DEF RevokeAllEnter, Ops, GateHeld, IInv, TypeOK
  <2> QED BY <1>5, <2>1, EnterStep DEF RevokeAllEnter
<1>6. CASE Commit
  BY <1>6, CommitStep
<1>7. CASE Rollback
  <2>1. process = "up"
    BY <1>7 DEF Rollback, IInv, DownEmpty
  <2> QED BY <1>7, <2>1, LeaveStep DEF Rollback
<1>8. CASE Return
  BY <1>8, ReturnStep
<1>9. CASE Crash
  BY <1>9, CrashStep
<1>10. CASE BootSweep
  BY <1>10, BootSweepStep
<1>11. CASE BootLoad
  BY <1>11, BootLoadStep
<1>12. CASE Tick \/ ClockSetBack \/ UNCHANGED vars
  BY <1>12, IdleStep DEF Tick, ClockSetBack, vars, IInv, DownEmpty
<1> QED
  BY <1>1, <1>2, <1>4, <1>5, <1>6, <1>7, <1>8, <1>9, <1>10, <1>11, <1>12 DEF Next

-----------------------------------------------------------------------------
(* Theorems                                                                *)

\* The inductive invariant holds in every reachable state.
THEOREM Inductive == Spec => []IInv
BY InitIInv, IInvStep, PTL DEF Spec

\* Every variable keeps its type.
THEOREM TypeCorrect == Spec => []TypeOK
<1>1. IInv => TypeOK
  BY DEF IInv
<1> QED BY Inductive, <1>1, PTL

\* Unwrap hands each token out at most once, across crashes, failed commits and
\* clock set-backs (src/internal/invites/store.go, Unwrap).
THEOREM TokenReleasedOnce == Spec => []SingleRelease
<1>1. IInv => SingleRelease
  BY DEF IInv, History, SingleRelease
<1> QED BY Inductive, <1>1, PTL

\* A token is out only when the table durably says consumed.
THEOREM DurableBeforeRelease == Spec => []ReleaseIsDurable
<1>1. IInv => ReleaseIsDurable
  BY DEF IInv, History, ReleaseIsDurable
<1> QED BY Inductive, <1>1, PTL

\* The cache is never ahead of the table and lags it only by sweeps.
THEOREM CacheCoherence == Spec => []CacheNotAhead
<1>1. IInv => CacheNotAhead
  BY DEF IInv, Coherent, CacheNotAhead
<1> QED BY Inductive, <1>1, PTL

\* No sealed token is kept, on disk or in memory, once its invite is not pending.
THEOREM PlaintextScrubbed == Spec => []PlaintextOnlyPending
<1>1. IInv => PlaintextOnlyPending
  BY DEF IInv, RowShape, PlaintextOnlyPending
<1> QED BY Inductive, <1>1, PTL

\* Only the return of a consuming Unwrap changes a release count.
LEMMA OnlyReturnReleases ==
  ASSUME [Next]_vars, released' # released
  PROVE  Return /\ op.kind = "consume"
BY DEF Next, vars, IssueCall, IssueEnter, UnwrapEnter, CompromiseEnter, RevokeEnter, Enter,
       RevokeAllEnter, Commit, Rollback, Return, Crash, BootSweep, BootLoad, Tick, ClockSetBack

\* A cancelled invite stays cancelled: after a revoke call has returned, no later
\* Unwrap hands the token out (RevokePending, RevokeAllPendingForMember).
THEOREM CancelIsFinal == Spec => VoidedStaysVoid
<1>1. ASSUME IInv, [Next]_vars
      PROVE  [\A h \in voided : released'[h] = released[h]]_vars
  <2>1. CASE released' = released
    BY <2>1
  <2>2. CASE released' # released
    <3>1. Return /\ op.kind = "consume"
      BY <1>1, <2>2, OnlyReturnReleases
    <3>2. op # NoOp /\ op.phase = "committed"
      BY <3>1 DEF Return
    <3>3. op.handle \in Handles /\ disk[op.handle].status = "consumed"
      BY <1>1, <3>1, <3>2, ConsumedBeforeReturn
    <3>4. op.handle \notin voided
      BY <1>1, <3>3 DEF IInv, History
    <3>5. \A h \in Handles : h # op.handle => released'[h] = released[h]
      BY <1>1, <3>1 DEF Return, IInv, TypeOK
    <3> QED BY <1>1, <3>4, <3>5 DEF IInv, TypeOK
  <2> QED BY <2>1, <2>2
<1> QED BY Inductive, <1>1, PTL DEF Spec, VoidedStaysVoid

\* The store implements the abstract one-time code: every transaction advances
\* statuses, the return of Unwrap is the release, everything else is invisible.
THEOREM Refinement == Spec => ImplementsOneTimeCode
<1>1. Init => Abstract!Init
  BY DEF Init, Abstract!Init, Absent
<1>2. ASSUME IInv, IInv', [Next]_vars
      PROVE  [Abstract!Next]_(Abstract!vars)
  <2>1. ASSUME released' = released,
               \A h \in Handles : Abstract!Advances(disk[h].status, disk'[h].status)
        PROVE  Abstract!Next
    <3>1. [h \in Handles |-> disk'[h].status] \in
            [Handles -> {"absent", "pending", "consumed", "compromised", "expired", "revoked"}]
      <4>1. ASSUME NEW h \in Handles
            PROVE  disk'[h].status \in
                     {"absent", "pending", "consumed", "compromised", "expired", "revoked"}
        <5>1. disk'[h] \in Rows
          BY <1>2 DEF IInv, TypeOK, Rows
        <5> QED BY <5>1, RowCases DEF Statuses
      <4> QED BY <4>1
    <3>2. Abstract!Transact
      BY <2>1, <3>1 DEF Abstract!Transact
    <3> QED BY <3>2 DEF Abstract!Next
  <2>2. CASE Commit
    <3>1. op \in Ops /\ TypeOK
      BY <1>2, <2>2 DEF Commit, IInv, TypeOK
    <3>2. \A h \in Handles : Abstract!Advances(disk[h].status, disk'[h].status)
      BY <2>2, <3>1, CommitAdvances DEF Commit
    <3> QED BY <2>1, <2>2, <3>2 DEF Commit
  <2>3. CASE BootSweep
    <3>1. disk \in [Handles -> Rows] /\ clock \in Nat
      BY <1>2 DEF IInv, TypeOK, Rows
    <3>2. \A h \in Handles : Abstract!Advances(disk[h].status, disk'[h].status)
      BY <2>3, <3>1, SweptAdvances DEF BootSweep
    <3> QED BY <2>1, <2>3, <3>2 DEF BootSweep
  <2>4. CASE Return /\ op.kind = "consume"
    <3>1. op # NoOp /\ op.phase = "committed" /\ disk' = disk
      BY <2>4 DEF Return
    <3>2. op.handle \in Handles /\ disk[op.handle].status = "consumed"
      BY <1>2, <2>4, <3>1, ConsumedBeforeReturn
    <3>3. released[op.handle] = 0
      BY <1>2, <2>4, <3>1 DEF IInv, DownEmpty, Coherent
    <3>4. released' = [released EXCEPT ![op.handle] = 1]
      BY <2>4, <3>3 DEF Return
    <3>5. Abstract!Release(op.handle)
      BY <3>1, <3>2, <3>3, <3>4 DEF Abstract!Release
    <3> QED BY <3>2, <3>5 DEF Abstract!Next
  <2>5. CASE ~Commit /\ ~BootSweep /\ ~(Return /\ op.kind = "consume")
    <3>1. released' = released
      BY <1>2, <2>5, OnlyReturnReleases
    <3>2. disk' = disk
      BY <1>2, <2>5 DEF Next, vars, IssueCall, IssueEnter, UnwrapEnter, CompromiseEnter,
         RevokeEnter, Enter, RevokeAllEnter, Rollback, Return, Crash, BootLoad, Tick, ClockSetBack
    <3> QED BY <3>1, <3>2 DEF Abstract!vars
  <2> QED BY <2>2, <2>3, <2>4, <2>5
<1> QED BY Inductive, <1>1, <1>2, PTL DEF Spec, ImplementsOneTimeCode, Abstract!Spec

-----------------------------------------------------------------------------
(* Gate and sweep                                                          *)

\* No record that is in date by the clock reading of the mutator o differs from its row.
InDate(o) ==
  \A h \in Handles :
    mem[h].status = "pending" /\ ~ExpiredAt(mem[h], o.now) => disk[h] = mem[h]

\* As long as the clock only moves forward, every instant the store has acted on lies in
\* the past: a row is expired only when its time has come, and no call sweeps with a
\* reading from the future.
Steady ==
  skews = 0 =>
    /\ \A h \in Handles : disk[h].status = "expired" => disk[h].expires <= clock
    /\ \A w \in waiting : w.now <= clock
    /\ op # NoOp => op.now <= clock
    /\ op # NoOp /\ op.phase = "locked" /\ op.kind # "issue" => InDate(op)

\* A row that is expired after a sweep has an expiry in the past.
LEMMA SweptExpired ==
  ASSUME NEW table \in [Handles -> Rows], NEW now \in Nat, NEW c \in Nat, now <= c,
         NEW h \in Handles, table[h].status = "expired" => table[h].expires <= c,
         Swept(table, now)[h].status = "expired"
  PROVE  Swept(table, now)[h].expires <= c
<1>1. CASE Swept(table, now)[h] = table[h]
  BY <1>1
<1>2. CASE /\ table[h] \in Invite
           /\ ExpiredAt(table[h], now)
           /\ Swept(table, now)[h] = Closed(table[h], "expired")
  <2>1. Closed(table[h], "expired").expires = table[h].expires
    BY <1>2, ClosedFacts DEF Statuses
  <2>2. table[h].expires \in Nat /\ table[h].expires <= now
    BY <1>2 DEF Invite, ExpiredAt
  <2>3. table[h].expires <= c
    BY <2>2
  <2> QED BY <1>2, <2>1, <2>3
<1> QED BY <1>1, <1>2, SweptFacts

\* So has a row that is expired after a committed transaction.
LEMMA WrittenExpired ==
  ASSUME TypeOK, NEW o \in Ops, GateHeld(o), o.now <= clock,
         \A h \in Handles : Agree(mem[h], disk[h]),
         NEW h \in Handles, disk[h].status = "expired" => disk[h].expires <= clock,
         Written(o)[h].status = "expired"
  PROVE  Written(o)[h].expires <= clock
<1> DEFINE table == Swept(disk, o.now)
<1>1. /\ o.now \in Nat /\ clock \in Nat
      /\ disk \in [Handles -> Rows] /\ mem \in [Handles -> Rows]
      /\ table \in [Handles -> Rows]
  BY OpCases, WrittenFacts DEF TypeOK, Rows
<1>2. CASE Written(o)[h] = table[h]
  BY <1>1, <1>2, SweptExpired
<1>3. CASE o.kind = "issue" /\ h = o.handle
  <2>1. Written(o)[h] = NewInvite(o.member, o.now) /\ o.member \in Members
    BY <1>3, WrittenFacts, OpCases
  <2>2. NewInvite(o.member, o.now).status = "pending"
    BY <1>1, <2>1, NewInviteFacts
  <2> QED BY <2>1, <2>2
<1>4. CASE o.kind # "issue" /\ h \in Matched(o, table)
  <2>1. Written(o)[h] = Closed(table[h], Target(o))
    BY <1>4, WrittenFacts
  <2>2. table[h] \in Invite /\ Target(o) \in Statuses
    BY <1>1, <1>4, RowCases, TargetFacts DEF Matched
  <2>3. Target(o) = "expired" /\ Written(o)[h].expires = table[h].expires
    <3>1. /\ Closed(table[h], Target(o)).status = Target(o)
          /\ Closed(table[h], Target(o)).expires = table[h].expires
      BY <2>2, ClosedFacts
    <3> QED BY <2>1, <3>1
  <2>4. o.kind \in {"ageout", "revoke"}
    BY <1>4, <2>3, OpCases, TargetFacts
  <2>5. h = o.handle
    BY <1>1, <1>4, <2>4, MatchedOne
  <2>6. mem[h] # Absent /\ mem[h].status = "pending" /\ ExpiredAt(mem[h], o.now)
    BY <2>3, <2>4, <2>5, TargetFacts DEF GateHeld
  <2>7. mem[h] \in Invite /\ table[h] = Closed(mem[h], "expired")
    BY <1>1, <2>6, AgedRow
  <2>8. table[h].expires = mem[h].expires
    <3>1. Closed(mem[h], "expired").expires = mem[h].expires
      BY <2>7, ClosedFacts DEF Statuses
    <3> QED BY <2>7, <3>1
  <2>9. mem[h].expires \in Nat /\ mem[h].expires <= o.now
    BY <2>6, <2>7 DEF Invite, ExpiredAt
  <2>10. mem[h].expires <= clock
    BY <1>1, <2>9
  <2> QED BY <2>3, <2>8, <2>10
<1> QED BY <1>2, <1>3, <1>4, WrittenFacts

\* A mutator that reads the clock when it enters sees no in-date record whose row was
\* swept: such a row would have expired in the future.
LEMMA EntersInDate ==
  ASSUME IInv, process = "up", op = NoOp,
         \A h \in Handles : disk[h].status = "expired" => disk[h].expires <= clock,
         NEW h \in Handles, mem[h].status = "pending", ~ExpiredAt(mem[h], clock)
  PROVE  disk[h] = mem[h]
<1>1. disk \in [Handles -> Rows] /\ mem \in [Handles -> Rows] /\ Agree(mem[h], disk[h])
  BY DEF IInv, TypeOK, Rows, Coherent
<1>2. ASSUME mem[h] # Absent, disk[h] = Closed(mem[h], "expired") PROVE FALSE
  <2>1. mem[h] \in Invite
    BY <1>1, <1>2, RowCases
  <2>2. /\ Closed(mem[h], "expired").status = "expired"
        /\ Closed(mem[h], "expired").expires = mem[h].expires
    BY <2>1, ClosedFacts DEF Statuses
  <2>3. disk[h].status = "expired" /\ disk[h].expires = mem[h].expires
    BY <1>2, <2>2
  <2> QED BY <2>3 DEF ExpiredAt
<1> QED BY <1>1, <1>2 DEF Agree

\* One row selected, and a legal move: the UPDATE of a single invite succeeds.
LEMMA OneRowOK ==
  ASSUME TypeOK, NEW o \in Ops, o.kind \notin {"issue", "revokeAll"},
         Swept(disk, o.now)[o.handle] # Absent,
         o.kind = "consume" => Swept(disk, o.now)[o.handle].status = "pending",
         TriggerAllows(Swept(disk, o.now)[o.handle].status, Target(o))
  PROVE  StatementOK(o)
<1> DEFINE table == Swept(disk, o.now)
<1>1. table \in [Handles -> Rows]
  BY WrittenFacts
<1>2. Matched(o, table) = {o.handle}
  BY <1>1, MatchedOne
<1>3. Cardinality(Matched(o, table)) = 1
  BY <1>2, FS_Singleton
<1> QED BY <1>2, <1>3 DEF StatementOK, Wanted

\* A mutator that passed its gate is not refused by the row count or the trigger.
LEMMA GateSuffices ==
  ASSUME TypeOK, NEW o \in Ops, GateHeld(o), o.kind # "issue" => InDate(o),
         \A h \in Handles : Agree(mem[h], disk[h])
  PROVE  StatementOK(o)
<1> DEFINE table == Swept(disk, o.now)
<1>1. /\ o.now \in Nat
      /\ o.kind # "revokeAll" => o.handle \in Handles
      /\ disk \in [Handles -> Rows] /\ mem \in [Handles -> Rows]
      /\ table \in [Handles -> Rows]
  BY OpCases, WrittenFacts DEF TypeOK, Rows
<1>2. CASE o.kind = "issue"
  <2>1. disk[o.handle] = Absent
    BY <1>1, <1>2 DEF GateHeld, Agree
  <2>2. disk[o.handle].status # "pending"
    BY <2>1 DEF Absent
  <2>3. table[o.handle] = Absent
    BY <1>1, <1>2, <2>1, <2>2, SweptRow
  <2> QED BY <1>2, <2>3 DEF StatementOK
<1>3. ASSUME NEW h \in Handles, o.kind # "issue", mem[h].status = "pending",
             ~ExpiredAt(mem[h], o.now)
      PROVE  table[h] = mem[h]
  <2>1. disk[h] = mem[h]
    BY <1>3 DEF InDate
  <2> QED BY <1>1, <1>3, <2>1, SweptFacts
<1>4. CASE o.kind \in {"consume", "revoke"} /\ ~ExpiredAt(mem[o.handle], o.now)
  <2>1. mem[o.handle].status = "pending" /\ mem[o.handle] # Absent
    BY <1>4 DEF GateHeld, GateOpen
  <2>2. table[o.handle] = mem[o.handle]
    BY <1>1, <1>3, <1>4, <2>1
  <2>3. TriggerAllows(table[o.handle].status, Target(o))
    BY <1>4, <2>1, <2>2, TargetFacts DEF TriggerAllows
  <2> QED BY <1>4, <2>1, <2>2, <2>3, OneRowOK
<1>5. CASE o.kind \in {"ageout", "revoke"} /\ ExpiredAt(mem[o.handle], o.now)
  <2>1. mem[o.handle].status = "pending" /\ mem[o.handle] # Absent
    BY <1>5 DEF GateHeld
  <2>2. mem[o.handle] \in Invite /\ table[o.handle] = Closed(mem[o.handle], "expired")
    BY <1>1, <1>5, <2>1, AgedRow
  <2>3. table[o.handle] # Absent /\ table[o.handle].status = "expired"
    <3>1. /\ Closed(mem[o.handle], "expired") # Absent
          /\ Closed(mem[o.handle], "expired").status = "expired"
      BY <2>2, ClosedFacts DEF Statuses
    <3> QED BY <2>2, <3>1
  <2>4. TriggerAllows(table[o.handle].status, Target(o))
    BY <1>5, <2>3, TargetFacts DEF TriggerAllows
  <2> QED BY <1>5, <2>3, <2>4, OneRowOK
<1>6. CASE o.kind = "compromise"
  <2>1. mem[o.handle] # Absent /\ mem[o.handle].status = "consumed"
    BY <1>6 DEF GateHeld
  <2>2. disk[o.handle] = mem[o.handle]
    BY <1>1, <1>6, <2>1 DEF Agree
  <2>3. table[o.handle] = mem[o.handle]
    BY <1>1, <1>6, <2>1, <2>2, SweptRow
  <2>4. TriggerAllows(table[o.handle].status, Target(o))
    BY <1>6, <2>1, <2>3, TargetFacts DEF TriggerAllows
  <2> QED BY <1>6, <2>1, <2>3, <2>4, OneRowOK
<1>7. CASE o.kind = "revokeAll"
  <2>1. ASSUME NEW h \in Live(o.member, o.now) PROVE h \in Matched(o, table)
    <3>1. /\ h \in Handles /\ mem[h] # Absent /\ mem[h].member = o.member
          /\ mem[h].status = "pending" /\ ~ExpiredAt(mem[h], o.now)
      BY <2>1 DEF Live, GateOpen
    <3>2. table[h] = mem[h]
      BY <1>3, <1>7, <3>1
    <3> QED BY <1>1, <1>7, <3>1, <3>2, MatchedAll
  <2>2. Matched(o, table) = Live(o.member, o.now)
    BY <1>7, <2>1, MatchedInLive
  <2>3. ASSUME NEW h \in Matched(o, table)
        PROVE  TriggerAllows(table[h].status, Target(o))
    <3>1. table[h].status = "pending"
      BY <1>1, <1>7, MatchedAll
    <3> QED BY <1>7, <3>1, TargetFacts DEF TriggerAllows
  <2> QED BY <1>7, <2>2, <2>3 DEF StatementOK, Wanted
<1> QED BY <1>2, <1>4, <1>5, <1>6, <1>7, OpCases DEF GateHeld, GateOpen

\* Steady holds initially and is kept by every step.
LEMMA SteadyStep ==
  ASSUME IInv, Steady, [Next]_vars
  PROVE  Steady'
<1> SUFFICES ASSUME skews' = 0
             PROVE  /\ \A h \in Handles : disk'[h].status = "expired" => disk'[h].expires <= clock'
                    /\ \A w \in waiting' : w.now <= clock'
                    /\ op' # NoOp => op'.now <= clock'
                    /\ op' # NoOp /\ op'.phase = "locked" /\ op'.kind # "issue" => InDate(op)'
  BY DEF Steady
<1>1. TypeOK /\ clock \in Nat /\ disk \in [Handles -> Rows] /\ mem \in [Handles -> Rows]
  BY DEF IInv, TypeOK, Rows
<1>2. skews = 0
  <2>1. CASE ClockSetBack
    <3>1. skews' = skews + 1 /\ skews \in Nat
      BY <2>1, BoundsAssumption DEF ClockSetBack, IInv, TypeOK
    <3> QED BY <3>1
  <2>2. CASE ~ClockSetBack
    BY <2>2 DEF Next, vars, IssueCall, IssueEnter, UnwrapEnter, CompromiseEnter, RevokeEnter,
       Enter, RevokeAllEnter, Commit, Rollback, Return, Crash, BootSweep, BootLoad, Tick
  <2> QED BY <2>1, <2>2
<1>3. /\ \A h \in Handles : disk[h].status = "expired" => disk[h].expires <= clock
      /\ \A w \in waiting : w.now <= clock
      /\ op # NoOp => op.now <= clock
      /\ op # NoOp /\ op.phase = "locked" /\ op.kind # "issue" => InDate(op)
  BY <1>2 DEF Steady
<1> DEFINE Past == /\ \A h \in Handles : disk[h].status = "expired" => disk[h].expires <= clock
                   /\ \A w \in waiting : w.now <= clock
                   /\ op # NoOp => op.now <= clock
           Held == op # NoOp /\ op.phase = "locked" /\ op.kind # "issue" => InDate(op)
<1> SUFFICES Past' /\ Held'
  OBVIOUS
<1>4. ASSUME NEW h \in Handles, NEW m \in Members, IssueCall(h, m) PROVE Past' /\ Held'
  <2>1. /\ waiting' = waiting \cup {[handle |-> h, member |-> m, now |-> clock]}
        /\ UNCHANGED <<clock, disk, mem, op>>
    BY <1>4 DEF IssueCall
  <2>2. clock <= clock
    BY <1>1
  <2>3. Past'
    BY <1>3, <2>1, <2>2
  <2> QED BY <1>3, <2>1, <2>3 DEF InDate, ExpiredAt
<1>5. ASSUME NEW w \in waiting, IssueEnter(w) PROVE Past' /\ Held'
  <2>1. waiting' \subseteq waiting /\ UNCHANGED <<clock, disk, mem>>
    BY <1>5 DEF IssueEnter
  <2>2. \/ op' = NoOp
        \/ op'.kind = "issue" /\ op'.now = w.now
    BY <1>5 DEF IssueEnter
  <2>3. Past'
    BY <1>3, <2>1, <2>2
  <2> QED BY <2>2, <2>3
<1>6. ASSUME process = "up", op = NoOp, op'.now = clock, UNCHANGED <<clock, disk, mem, waiting>>
      PROVE  Past' /\ Held'
  <2>1. clock <= clock
    BY <1>1
  <2>2. Past'
    BY <1>3, <1>6, <2>1
  <2>3. \A h \in Handles : mem[h].status = "pending" /\ ~ExpiredAt(mem[h], clock) => disk[h] = mem[h]
    BY <1>3, <1>6, EntersInDate
  <2>4. InDate(op)'
    BY <1>6, <2>3 DEF InDate, ExpiredAt
  <2> QED BY <2>2, <2>4
<1>7. ASSUME NEW h \in Handles, UnwrapEnter(h) \/ CompromiseEnter(h) \/ RevokeEnter(h)
      PROVE  Past' /\ Held'
  <2>1. PICK kind \in {"consume", "ageout", "compromise", "revoke"} : Enter(kind, h)
    BY <1>7 DEF UnwrapEnter, CompromiseEnter, RevokeEnter
  <2>2. process = "up" /\ op = NoOp /\ op'.now = clock /\ UNCHANGED <<clock, disk, mem, waiting>>
    BY <2>1 DEF Enter
  <2> QED BY <1>6, <2>2
<1>8. ASSUME NEW m \in Members, RevokeAllEnter(m) PROVE Past' /\ Held'
  <2>1. process = "up" /\ op = NoOp /\ op'.now = clock /\ UNCHANGED <<clock, disk, mem, waiting>>
    BY <1>8 DEF RevokeAllEnter
  <2> QED BY <1>6, <2>1
<1>9. CASE Commit
  <2>1. op \in Ops /\ op # NoOp /\ op.phase = "locked"
    BY <1>9, <1>1 DEF Commit, TypeOK
  <2>2. GateHeld(op) /\ \A h \in Handles : Agree(mem[h], disk[h])
    BY <2>1 DEF IInv, DownEmpty, Coherent
  <2>3. disk' = Written(op) /\ UNCHANGED <<clock, waiting>>
    BY <1>9 DEF Commit
  <2>4. op'.phase = "committed" /\ op'.now = op.now
    BY <1>9, <2>1, CommitShape DEF Commit
  <2>5. \A h \in Handles : disk'[h].status = "expired" => disk'[h].expires <= clock
    BY <1>1, <1>3, <2>1, <2>2, <2>3, WrittenExpired
  <2> QED BY <1>3, <2>1, <2>3, <2>4, <2>5
<1>10. CASE Rollback \/ Return
  <2>1. op' = NoOp /\ UNCHANGED <<clock, disk, waiting>>
    BY <1>10 DEF Rollback, Return
  <2> QED BY <1>3, <2>1
<1>11. CASE Crash
  <2>1. op' = NoOp /\ waiting' = {} /\ UNCHANGED <<clock, disk>>
    BY <1>11 DEF Crash
  <2> QED BY <1>3, <2>1
<1>12. CASE BootSweep
  <2>1. disk' = Swept(disk, clock) /\ UNCHANGED <<clock, waiting, op>> /\ op = NoOp
    BY <1>12 DEF BootSweep, IInv, DownEmpty
  <2>2. clock <= clock
    BY <1>1
  <2>3. \A h \in Handles : disk'[h].status = "expired" => disk'[h].expires <= clock
    BY <1>1, <1>3, <2>1, <2>2, SweptExpired
  <2> QED BY <1>3, <2>1, <2>3
<1>13. CASE BootLoad
  <2>1. UNCHANGED <<clock, disk, waiting, op>> /\ op = NoOp
    BY <1>13 DEF BootLoad, IInv, DownEmpty
  <2> QED BY <1>3, <2>1
<1>14. CASE Tick
  <2>1. clock' = clock + 1 /\ UNCHANGED <<disk, mem, waiting, op>>
    BY <1>14 DEF Tick
  <2>2. \A n \in Nat : n <= clock => n <= clock'
    BY <1>1, <2>1
  <2>3. ASSUME NEW h \in Handles, disk[h].status = "expired" PROVE disk[h].expires <= clock'
    <3>1. disk[h] \in Invite
      BY <1>1, <2>3, RowCases
    <3>2. disk[h].expires \in Nat
      BY <3>1 DEF Invite
    <3> QED BY <1>3, <2>2, <2>3, <3>2
  <2>4. \A w \in waiting : w.now <= clock'
    <3>1. \A w \in waiting : w.now \in Nat
      BY <1>1 DEF TypeOK
    <3> QED BY <1>3, <2>2, <3>1
  <2>5. op # NoOp => op.now <= clock'
    <3>1. op # NoOp => op.now \in Nat
      BY <1>1, OpCases DEF TypeOK
    <3> QED BY <1>3, <2>2, <3>1
  <2>6. Held'
    BY <1>3, <2>1 DEF InDate, ExpiredAt
  <2> QED BY <2>1, <2>3, <2>4, <2>5, <2>6
<1>15. CASE ClockSetBack
  <2>1. skews' = skews + 1
    BY <1>15 DEF ClockSetBack
  <2> QED BY <1>2, <2>1
<1>16. CASE UNCHANGED vars
  <2>1. UNCHANGED <<clock, disk, mem, waiting, op>>
    BY <1>16 DEF vars
  <2> QED BY <1>3, <2>1 DEF InDate, ExpiredAt
<1> QED BY <1>4, <1>5, <1>7, <1>8, <1>9, <1>10, <1>11, <1>12, <1>13, <1>14, <1>15, <1>16 DEF Next

\* While the clock is not set back, Go gate and SQL sweep take the same side: a mutator
\* that passed its gate commits unless the database fails, and what Lookup shows is still
\* pending, with its token, in the table (statusGateLocked, sweepAgedPending).
THEOREM GateAndSweepAgree == Spec => []GateAgreesWithTable
<1>1. Init => Steady
  BY DEF Init, Steady, Absent
<1>2. ASSUME IInv, Steady PROVE GateAgreesWithTable
  <2> SUFFICES ASSUME skews = 0
               PROVE  /\ op # NoOp /\ op.phase = "locked" => StatementOK(op)
                      /\ \A h \in Handles : LookupAnswers(h) =>
                           disk[h].status = "pending" /\ disk[h].sealed
    BY DEF GateAgreesWithTable
  <2>1. TypeOK
    BY <1>2 DEF IInv
  <2>2. ASSUME op # NoOp, op.phase = "locked" PROVE StatementOK(op)
    <3>1. op \in Ops
      BY <2>1, <2>2 DEF TypeOK
    <3>2. GateHeld(op) /\ \A h \in Handles : Agree(mem[h], disk[h])
      BY <1>2, <2>2 DEF IInv, DownEmpty, Coherent
    <3>3. op.kind # "issue" => InDate(op)
      BY <1>2, <2>2 DEF Steady
    <3> QED BY <2>1, <3>1, <3>2, <3>3, GateSuffices
  <2>3. ASSUME NEW h \in Handles, LookupAnswers(h)
        PROVE  disk[h].status = "pending" /\ disk[h].sealed
    <3>1. /\ process = "up" /\ op = NoOp /\ mem[h] # Absent
          /\ mem[h].status = "pending" /\ ~ExpiredAt(mem[h], clock)
      BY <2>3 DEF LookupAnswers, GateOpen
    <3>2. \A i \in Handles : disk[i].status = "expired" => disk[i].expires <= clock
      BY <1>2 DEF Steady
    <3>3. disk[h] = mem[h]
      BY <1>2, <3>1, <3>2, EntersInDate
    <3>4. mem[h].sealed
      BY <1>2, <3>1 DEF IInv, RowShape
    <3> QED BY <3>1, <3>3, <3>4
  <2> QED BY <2>2, <2>3
<1> QED BY Inductive, <1>1, <1>2, SteadyStep, PTL DEF Spec
=============================================================================
