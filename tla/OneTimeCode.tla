---------------------------- MODULE OneTimeCode ----------------------------
(***************************************************************************)
(* What the invite store promises, without cache, database, clock or       *)
(* locks: every code has one durable status that only ever advances, and   *)
(* its sealed token is handed out at most once, and only after the durable *)
(* status says so (src/internal/invites/types.go, package comment).        *)
(***************************************************************************)
EXTENDS Naturals

CONSTANT Codes

VARIABLES
  status,     \* durable status of every code
  released    \* how often the token behind the code was handed out

vars == <<status, released>>

\* Forward-only lifecycle: the invites_status_forward_only trigger, plus the
\* creation of the row.
Advances(from, to) ==
  \/ from = to
  \/ from = "absent"   /\ to = "pending"
  \/ from = "pending"  /\ to \in {"consumed", "expired", "revoked"}
  \/ from = "consumed" /\ to = "compromised"

Init == /\ status   = [c \in Codes |-> "absent"]
        /\ released = [c \in Codes |-> 0]

\* One committed transaction: it may advance many codes at once, because every
\* write also voids the codes that aged out meanwhile.
Transact ==
  /\ status' \in [Codes -> {"absent", "pending", "consumed", "compromised",
                            "expired", "revoked"}]
  /\ \A c \in Codes : Advances(status[c], status'[c])
  /\ UNCHANGED released

\* The one redemption of c hands its token out.
Release(c) ==
  /\ status[c] = "consumed"
  /\ released[c] = 0
  /\ released' = [released EXCEPT ![c] = 1]
  /\ UNCHANGED status

Next == Transact \/ \E c \in Codes : Release(c)

Spec == Init /\ [][Next]_vars
=============================================================================
