----------------------------- MODULE GroupsUndo -----------------------------
(***************************************************************************)
(* Groups with a memory of two adjacent steps: a Grant of a request and    *)
(* the undo of that same request as the very next step.  The comment on    *)
(* RevokeDirectGrant (src/internal/groups/store.go) says what the undo     *)
(* restores.                                                               *)
(***************************************************************************)
EXTENDS Groups, Sequences

VARIABLE
  around   \* <<>>, <<what the Grant found>>, or that and <<what the undo left>>

UndoInit == Init /\ around = <<>>

UndoNext ==
  /\ Next
  /\ around' = CASE \E q \in Requests, r \in Roles : AddGrants(q, r) -> <<grants>>
                 [] \E q \in Requests : Len(around) = 1 /\ AddFails(q) -> Append(around, grants')
                 [] OTHER -> <<>>

UndoSpec == UndoInit /\ [][UndoNext]_<<vars, around>>

-----------------------------------------------------------------------------
\* RevokeDirectGrant "restores the exact state before a Grant" when nothing happens
\* between the two: memberships and exclusions are what the Grant found.
UndoRestores == Len(around) = 2 => around[1] = around[2]

=============================================================================
