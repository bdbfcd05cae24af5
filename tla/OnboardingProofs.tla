--------------------------- MODULE OnboardingProofs ---------------------------
(***************************************************************************)
(* Proofs about the lifecycle of an account, for any number of concurrent  *)
(* console requests and agent RPCs, of refused calls and of crashes.       *)
(***************************************************************************)
EXTENDS Onboarding, FiniteSetTheorems, SequenceTheorems, TLAPS

-----------------------------------------------------------------------------
(* The inductive invariant                                                 *)

\* The requests that are about to make one of the calls in P.
Calling(P) == {r \in Admins : req[r].pc \in P}

\* What CanAdd and CanMint reserve is there when it is drawn, and every code has a
\* secret of its own: the one its request minted.
Budget ==
  /\ added + Cardinality(Calling({"add"})) <= MaxIds
  /\ minted + Cardinality(Calling(MintingCalls)) <= MaxSecrets
  /\ Len(codes) + Cardinality(Calling({"issue"})) <= minted

\* What a request knows when it is about to make its next call.
Sound(q) ==
  /\ q.pc \in AdminCalls \ {"idle", "add"} => q.m \in Member /\ q.m.id <= added
  /\ q.pc = "issue" => q.secret \in Secrets /\ q.secret <= minted
  /\ q.pc \in {"advance", "mail", "pin", "selfMail", "voidAdvance", "voidMail"} =>
       q.code \in DOMAIN codes /\ codes[q.code].id = q.m.id
  /\ q.pc \in {"pin", "selfMail"} => q.kind = "self"
  /\ q.pc \in {"unwrap", "activate"} => q.code \in DOMAIN codes
  /\ q.pc = "activate" =>
       codes[q.code].status = "consumed" /\ q.secret = codes[q.code].secret

RequestsSound == \A r \in Requests : Sound(req[r])

\* Codes wrap secrets that were minted, the member has an id that was drawn.
Drawn ==
  /\ \A k \in DOMAIN codes : codes[k].secret <= minted
  /\ member # NoMember => member.id <= added

IInv == TypeOK /\ Budget /\ RequestsSound /\ Drawn /\ ActiveWasRedeemed /\ InvitedHasCode

-----------------------------------------------------------------------------
(* How requests move                                                       *)

\* Only request r changed.
OnlyMoves(r) ==
  /\ req' \in [Requests -> Request]
  /\ \A x \in Requests \ {r} : req'[x] = req[x]

\* Request r went on to another call with the same local variables.
WentOn(r, pc) ==
  /\ OnlyMoves(r)
  /\ req'[r].pc = pc
  /\ req'[r].kind = req[r].kind
  /\ req'[r].m = req[r].m
  /\ req'[r].secret = req[r].secret
  /\ req'[r].code = req[r].code

\* Goto moves one request and keeps what it has read.
LEMMA GotoMoves ==
  ASSUME TypeOK, NEW r \in Requests, NEW pc \in AdminCalls \cup AgentCalls, Goto(r, pc)
  PROVE  WentOn(r, pc)
<1>1. req \in [Requests -> Request]
  BY DEF TypeOK
<1>2. req[r] \in Request
  BY <1>1
<1> DEFINE q == [req[r] EXCEPT !.pc = pc]
<1>3. /\ q \in Request /\ q.pc = pc /\ q.kind = req[r].kind /\ q.m = req[r].m
      /\ q.secret = req[r].secret /\ q.code = req[r].code
  BY <1>2 DEF Request
<1>4. req' = [req EXCEPT ![r] = q]
  BY <1>1 DEF Goto
<1> HIDE DEF q
<1>5. req' \in [Requests -> Request] /\ req'[r] = q /\ \A x \in Requests \ {r} : req'[x] = req[x]
  BY <1>1, <1>3, <1>4
<1> QED BY <1>3, <1>5 DEF WentOn, OnlyMoves

\* The record of a request that is not running is well-typed and knows nothing.
LEMMA IdleSound ==
  Idle \in Request /\ Idle.pc = "idle" /\ Sound(Idle)
<1>1. /\ "idle" \in AdminCalls /\ "none" \in Kinds
  BY DEF AdminCalls, Kinds
<1>2. FALSE \in BOOLEAN
  BY Zenon
<1>3. Idle \in Request
  BY <1>1, <1>2 DEF Idle, Request
<1>4. Idle.pc = "idle"
  BY DEF Idle
<1> QED BY <1>3, <1>4 DEF Sound

\* Done returns one request to idle.
LEMMA DoneMoves ==
  ASSUME TypeOK, NEW r \in Requests, Done(r)
  PROVE  OnlyMoves(r) /\ req'[r] = Idle
<1>1. req \in [Requests -> Request] /\ Idle \in Request
  BY IdleSound DEF TypeOK
<1>2. req' = [req EXCEPT ![r] = Idle]
  BY DEF Done
<1> QED BY <1>1, <1>2 DEF OnlyMoves

\* A failing request goes to its undo or ends.
LEMMA FailMoves ==
  ASSUME TypeOK, NEW r \in Requests, Fail(r)
  PROVE  \/ OnlyMoves(r) /\ req'[r] = Idle
         \/ WentOn(r, "undoGrant")
         \/ WentOn(r, "undoMember")
<1>1. AfterFailure(r) \in {"undoGrant", "undoMember", "idle"}
  BY DEF AfterFailure
<1>2. {"undoGrant", "undoMember"} \subseteq AdminCalls \cup AgentCalls
  BY DEF AdminCalls
<1>3. CASE AfterFailure(r) = "idle"
  BY <1>3, DoneMoves DEF Fail
<1>4. CASE AfterFailure(r) # "idle"
  BY <1>1, <1>2, <1>4, GotoMoves DEF Fail
<1> QED BY <1>3, <1>4

-----------------------------------------------------------------------------
(* Counting                                                                *)

\* A set of requests never grows by more than the one that moves.
LEMMA CallingBound ==
  ASSUME NEW P, NEW r \in Requests, OnlyMoves(r)
  PROVE  /\ Cardinality(Calling(P)) \in Nat /\ Cardinality(Calling(P))' \in Nat
         /\ Cardinality(Calling(P))' <= Cardinality(Calling(P)) + 1
         /\ (req'[r].pc \in P => req[r].pc \in P)
               => Cardinality(Calling(P))' <= Cardinality(Calling(P))
         /\ r \in Admins /\ req[r].pc \in P /\ req'[r].pc \notin P
               => Cardinality(Calling(P))' + 1 <= Cardinality(Calling(P))
<1> DEFINE A == Calling(P)
           B == {x \in Admins : req'[x].pc \in P}
<1>1. IsFiniteSet(A) /\ IsFiniteSet(B)
  BY OnboardingAssumption, FS_Subset DEF Calling
<1>2. A' = B
  BY DEF Calling
<1>3. B \subseteq A \cup {r}
  BY DEF OnlyMoves, Calling, Requests
<1>4. Cardinality(A) \in Nat /\ Cardinality(B) \in Nat
  BY <1>1, FS_CardinalityType
<1>5. Cardinality(B) <= Cardinality(A) + 1
  <2>1. /\ IsFiniteSet(A \cup {r})
        /\ Cardinality(A \cup {r}) = IF r \in A THEN Cardinality(A) ELSE Cardinality(A) + 1
    BY <1>1, FS_AddElement
  <2>2. Cardinality(B) <= Cardinality(A \cup {r})
    BY <1>3, <2>1, FS_Subset
  <2> QED BY <1>4, <2>1, <2>2
<1>6. ASSUME req'[r].pc \in P => req[r].pc \in P
      PROVE  Cardinality(B) <= Cardinality(A)
  <2>1. B \subseteq A
    BY <1>3, <1>6 DEF Calling
  <2> QED BY <1>1, <2>1, FS_Subset
<1>7. ASSUME r \in Admins, req[r].pc \in P, req'[r].pc \notin P
      PROVE  Cardinality(B) + 1 <= Cardinality(A)
  <2>1. r \in A /\ B \subseteq A \ {r}
    BY <1>3, <1>7 DEF Calling
  <2>2. IsFiniteSet(A \ {r}) /\ Cardinality(A \ {r}) = Cardinality(A) - 1
    BY <1>1, <2>1, FS_RemoveElement
  <2>3. Cardinality(B) <= Cardinality(A \ {r})
    BY <2>1, <2>2, FS_Subset
  <2> QED BY <1>4, <2>2, <2>3
<1>8. Cardinality(A)' = Cardinality(B)
  BY <1>2
<1> HIDE DEF A, B
<1>9. /\ Cardinality(A) \in Nat /\ Cardinality(A)' \in Nat
      /\ Cardinality(A)' <= Cardinality(A) + 1
      /\ (req'[r].pc \in P => req[r].pc \in P) => Cardinality(A)' <= Cardinality(A)
      /\ r \in Admins /\ req[r].pc \in P /\ req'[r].pc \notin P
               => Cardinality(A)' + 1 <= Cardinality(A)
  BY <1>4, <1>5, <1>6, <1>7, <1>8
<1> QED BY <1>9 DEF A

-----------------------------------------------------------------------------
(* What a step keeps                                                       *)

\* Codes keep their member and secret, and a burned one stays burned.
CodesGrow ==
  /\ codes' \in Seq(Code)
  /\ Len(codes) <= Len(codes')
  /\ \A k \in DOMAIN codes :
       /\ k \in DOMAIN codes'
       /\ codes'[k].id = codes[k].id
       /\ codes'[k].secret = codes[k].secret
       /\ codes[k].status = "consumed" => codes'[k].status = "consumed"

\* Untouched codes grow.
LEMMA CodesSame ==
  ASSUME TypeOK, codes' = codes
  PROVE  CodesGrow
<1>1. codes \in Seq(Code)
  BY DEF TypeOK
<1>2. Len(codes) \in Nat
  BY <1>1
<1>3. Len(codes) <= Len(codes)
  BY <1>2
<1> QED BY <1>1, <1>3 DEF CodesGrow

\* A statement that rewrites rows in place, and none that was burned.
LEMMA CodesRewritten ==
  ASSUME TypeOK, codes' = [k \in DOMAIN codes |-> codes'[k]],
         \A k \in DOMAIN codes :
           /\ codes'[k] \in Code
           /\ codes'[k].id = codes[k].id
           /\ codes'[k].secret = codes[k].secret
           /\ codes[k].status = "consumed" => codes'[k].status = "consumed"
  PROVE  CodesGrow /\ Len(codes') = Len(codes) /\ DOMAIN codes' = DOMAIN codes
<1>1. codes \in Seq(Code)
  BY DEF TypeOK
<1>2. DOMAIN codes = 1..Len(codes) /\ Len(codes) \in Nat
  BY <1>1
<1>3. codes' \in [1..Len(codes) -> Code]
  BY <1>2
<1>4. codes' \in Seq(Code) /\ Len(codes') = Len(codes)
  BY <1>2, <1>3
<1>5. DOMAIN codes' = DOMAIN codes
  BY <1>2, <1>3
<1>6. Len(codes) <= Len(codes')
  BY <1>2, <1>4
<1> QED BY <1>4, <1>5, <1>6 DEF CodesGrow

\* A request that did not move knows as much as before.
LEMMA SoundStays ==
  ASSUME NEW x \in Requests, Sound(req[x]), req'[x] = req[x], CodesGrow,
         added \in Nat, added' \in Nat, added <= added',
         minted \in Nat, minted' \in Nat, minted <= minted'
  PROVE  Sound(req[x])'
<1> DEFINE q == req[x]
<1>1. q.pc \in AdminCalls \ {"idle", "add"} => q.m \in Member /\ q.m.id <= added'
  <2>1. ASSUME q.m \in Member, q.m.id <= added PROVE q.m.id <= added'
    <3>1. q.m.id \in Nat
      BY <2>1, OnboardingAssumption DEF Member, Ids
    <3> QED BY <2>1, <3>1
  <2> QED BY <2>1 DEF Sound
<1>2. q.pc = "issue" => q.secret \in Secrets /\ q.secret <= minted'
  <2>1. ASSUME q.secret \in Secrets, q.secret <= minted PROVE q.secret <= minted'
    <3>1. q.secret \in Nat
      BY <2>1, OnboardingAssumption DEF Secrets
    <3> QED BY <2>1, <3>1
  <2> QED BY <2>1 DEF Sound
<1>3. q.pc \in {"advance", "mail", "pin", "selfMail", "voidAdvance", "voidMail"} =>
        q.code \in DOMAIN codes' /\ codes'[q.code].id = q.m.id
  BY DEF Sound, CodesGrow
<1>4. /\ q.pc \in {"unwrap", "activate"} => q.code \in DOMAIN codes'
      /\ q.pc = "activate" =>
           codes'[q.code].status = "consumed" /\ q.secret = codes'[q.code].secret
      /\ q.pc \in {"pin", "selfMail"} => q.kind = "self"
  BY DEF Sound, CodesGrow
<1> QED BY <1>1, <1>2, <1>3, <1>4 DEF Sound

\* The member keeps what its status claims while it is the same member in the same
\* status, or gone.
LEMMA MemberStays ==
  ASSUME IInv, CodesGrow, added \in Nat, added' \in Nat, added <= added',
         \/ member' = NoMember
         \/ /\ member # NoMember
            /\ member'.id = member.id
            /\ member'.status = member.status
         \/ member' = member
  PROVE  /\ ActiveWasRedeemed' /\ InvitedHasCode'
         /\ member' # NoMember => member'.id <= added'
<1>1. /\ member.status = "active" => \E k \in OfMember(member.id) : codes[k].status = "consumed"
      /\ member.status \in {"invited", "active"} => OfMember(member.id) # {}
      /\ member # NoMember => member \in Member /\ member.id <= added
  BY DEF IInv, ActiveWasRedeemed, InvitedHasCode, Drawn, TypeOK
<1>2. CASE member' = NoMember
  BY <1>2 DEF NoMember, ActiveWasRedeemed, InvitedHasCode
<1>3. CASE member' # NoMember
  <2>1. member # NoMember /\ member'.id = member.id /\ member'.status = member.status
    BY <1>3
  <2>2. \A k \in OfMember(member.id) : k \in OfMember(member.id)' /\
           (codes[k].status = "consumed" => codes'[k].status = "consumed")
    BY <2>1 DEF OfMember, CodesGrow
  <2>3. ActiveWasRedeemed' /\ InvitedHasCode'
    BY <1>1, <2>1, <2>2 DEF ActiveWasRedeemed, InvitedHasCode
  <2>4. member.id \in Nat
    BY <1>1, <2>1, OnboardingAssumption DEF Member, Ids
  <2>5. member'.id <= added'
    BY <1>1, <2>1, <2>4
  <2> QED BY <2>3, <2>5
<1> QED BY <1>2, <1>3

\* The counters and lengths as numbers.
LEMMA Numbers ==
  ASSUME TypeOK
  PROVE  /\ added \in Nat /\ minted \in Nat /\ added <= MaxIds /\ minted <= MaxSecrets
         /\ codes \in Seq(Code) /\ Len(codes) \in Nat /\ Len(codes) <= minted
         /\ DOMAIN codes = 1..Len(codes)
         /\ MaxIds \in Nat /\ MaxSecrets \in Nat
<1>1. added \in 0..MaxIds /\ minted \in 0..MaxSecrets /\ MaxIds \in Nat /\ MaxSecrets \in Nat
  BY OnboardingAssumption DEF TypeOK
<1>2. codes \in Seq(Code) /\ Len(codes) <= minted
  BY DEF TypeOK
<1>3. Len(codes) \in Nat /\ DOMAIN codes = 1..Len(codes)
  BY <1>2
<1> QED BY <1>1, <1>2, <1>3

\* A refused call is counted within its bound.
LEMMA FaultCounted ==
  ASSUME TypeOK, Fault \/ faults' = faults
  PROVE  faults' \in 0..MaxFaults
<1>1. faults \in 0..MaxFaults /\ MaxFaults \in Nat
  BY OnboardingAssumption DEF TypeOK
<1> QED BY <1>1 DEF Fault

\* When one request moves and ends up sound, all are.
LEMMA OthersSound ==
  ASSUME IInv, NEW r \in Requests, OnlyMoves(r), Sound(req[r])', CodesGrow,
         added' \in Nat, added <= added', minted' \in Nat, minted <= minted'
  PROVE  RequestsSound'
<1> SUFFICES ASSUME NEW x \in Requests PROVE Sound(req[x])'
  BY DEF RequestsSound
<1>1. CASE x = r
  BY <1>1
<1>2. CASE x # r
  <2>1. req'[x] = req[x]
    BY <1>2 DEF OnlyMoves
  <2>2. Sound(req[x]) /\ TypeOK
    BY DEF IInv, RequestsSound
  <2> QED BY <2>1, <2>2, Numbers, SoundStays
<1> QED BY <1>1, <1>2

\* A call that draws no id and no secret and issues no code leaves the budget as it is
\* and the other requests as sound as they were.
LEMMA CallKeeps ==
  ASSUME IInv, NEW r \in Requests, OnlyMoves(r), Sound(req[r])',
         req'[r].pc = "add" => req[r].pc = "add",
         req'[r].pc \in MintingCalls => req[r].pc \in MintingCalls,
         req'[r].pc = "issue" => req[r].pc = "issue",
         CodesGrow, Len(codes') = Len(codes), UNCHANGED <<added, minted>>
  PROVE  /\ Budget' /\ RequestsSound'
         /\ \A k \in DOMAIN codes' : codes'[k].secret <= minted'
<1>1. TypeOK
  BY DEF IInv
<1>2. added' = added /\ minted' = minted
  OBVIOUS
<1>3. added <= added' /\ minted <= minted' /\ added' \in Nat /\ minted' \in Nat
  BY <1>1, <1>2, Numbers
<1>4. RequestsSound'
  BY <1>3, OthersSound
<1>5. Budget'
  <2> DEFINE a == Cardinality(Calling({"add"}))
             m == Cardinality(Calling(MintingCalls))
             i == Cardinality(Calling({"issue"}))
  <2>1. a \in Nat /\ a' \in Nat /\ a' <= a
    BY CallingBound
  <2>2. m \in Nat /\ m' \in Nat /\ m' <= m
    BY CallingBound
  <2>3. i \in Nat /\ i' \in Nat /\ i' <= i
    BY CallingBound
  <2>4. added + a <= MaxIds /\ minted + m <= MaxSecrets /\ Len(codes) + i <= minted
    BY DEF IInv, Budget
  <2> HIDE DEF a, m, i
  <2>5. added' + a' <= MaxIds /\ minted' + m' <= MaxSecrets /\ Len(codes)' + i' <= minted'
    BY <1>1, <1>2, <2>1, <2>2, <2>3, <2>4, Numbers
  <2> QED BY <2>5 DEF Budget, a, m, i
<1>6. \A k \in DOMAIN codes' : codes'[k].secret <= minted'
  <2>1. DOMAIN codes' = DOMAIN codes
    <3>1. DOMAIN codes' = 1..Len(codes')
      BY DEF CodesGrow
    <3> QED BY <1>1, <3>1, Numbers
  <2> QED BY <1>2, <2>1 DEF IInv, Drawn, CodesGrow
<1> QED BY <1>4, <1>5, <1>6

\* The same with the types of what such a call may write, when the member's status keeps
\* its justification.
LEMMA CallStep ==
  ASSUME IInv, NEW r \in Requests, OnlyMoves(r), Sound(req[r])',
         req'[r].pc = "add" => req[r].pc = "add",
         req'[r].pc \in MintingCalls => req[r].pc \in MintingCalls,
         req'[r].pc = "issue" => req[r].pc = "issue",
         CodesGrow, Len(codes') = Len(codes), UNCHANGED <<added, minted, crashes>>,
         member' \in Member \cup {NoMember}, member' # NoMember => member'.id <= added,
         ActiveWasRedeemed', InvitedHasCode',
         token' \in Token \cup {NoToken}, grants' \subseteq Ids, Fault \/ faults' = faults,
         held' \subseteq 1..minted, deleted' \subseteq 1..added, undone' \subseteq 1..added
  PROVE  IInv'
<1>1. TypeOK
  BY DEF IInv
<1>2. added' = added /\ minted' = minted /\ crashes' = crashes
  OBVIOUS
<1>3. /\ Budget' /\ RequestsSound'
      /\ \A k \in DOMAIN codes' : codes'[k].secret <= minted'
  BY CallKeeps
<1>4. Drawn'
  BY <1>2, <1>3 DEF Drawn
<1>5. faults' \in 0..MaxFaults
  BY <1>1, FaultCounted
<1>6. TypeOK'
  <2>1. codes' \in Seq(Code) /\ Len(codes') <= minted'
    BY <1>1, <1>2 DEF TypeOK, CodesGrow
  <2>2. req' \in [Requests -> Request]
    BY DEF OnlyMoves
  <2>3. added' \in 0..MaxIds /\ minted' \in 0..MaxSecrets /\ crashes' \in 0..MaxCrashes
    BY <1>1, <1>2 DEF TypeOK
  <2>4. held' \subseteq 1..minted' /\ deleted' \subseteq 1..added' /\ undone' \subseteq 1..added'
    BY <1>2
  <2> QED BY <1>5, <2>1, <2>2, <2>3, <2>4 DEF TypeOK
<1> QED BY <1>3, <1>4, <1>6 DEF IInv

\* A call that touches neither the member nor the codes, only the token or the membership.
LEMMA ReadStep ==
  ASSUME IInv, NEW r \in Requests, OnlyMoves(r), Sound(req[r])',
         req'[r].pc = "add" => req[r].pc = "add",
         req'[r].pc \in MintingCalls => req[r].pc \in MintingCalls,
         req'[r].pc = "issue" => req[r].pc = "issue",
         token' \in Token \cup {NoToken}, grants' \subseteq Ids, Fault \/ faults' = faults,
         UNCHANGED <<member, codes, added, minted, crashes, held, deleted, undone>>
  PROVE  IInv'
<1>1. TypeOK /\ Drawn
  BY DEF IInv
<1>2. /\ member' = member /\ codes' = codes /\ added' = added /\ held' = held
      /\ deleted' = deleted /\ undone' = undone
  OBVIOUS
<1>3. CodesGrow /\ Len(codes') = Len(codes)
  BY <1>1, <1>2, CodesSame
<1>4. added <= added' /\ added \in Nat /\ added' \in Nat
  BY <1>1, <1>2, Numbers
<1>5. ActiveWasRedeemed' /\ InvitedHasCode'
  BY <1>2, <1>3, <1>4, MemberStays
<1>6. /\ member' \in Member \cup {NoMember} /\ held' \subseteq 1..minted
      /\ deleted' \subseteq 1..added /\ undone' \subseteq 1..added
  BY <1>1, <1>2 DEF TypeOK
<1>7. member' # NoMember => member'.id <= added
  BY <1>1, <1>2 DEF Drawn
<1> QED BY <1>3, <1>5, <1>6, <1>7, CallStep

-----------------------------------------------------------------------------
(* Calls that read, or write token and membership                          *)

\* The calls for which a request needs no more than its member.
PlainCalls == AdminCalls \ {"idle", "add", "issue", "advance", "mail", "pin", "selfMail",
                            "voidAdvance", "voidMail"}

\* A request that ended is sound and calls nothing.
LEMMA EndedSound ==
  ASSUME NEW r, req'[r] = Idle
  PROVE  /\ Sound(req[r])'
         /\ req'[r].pc \notin MintingCalls \cup {"add", "issue"}
<1>1. req'[r].pc = "idle"
  BY DEF Idle
<1> QED BY <1>1 DEF Sound, MintingCalls

\* A request that goes on to a plain call keeps its member.
LEMMA WentOnSound ==
  ASSUME IInv, NEW r \in Requests, NEW pc \in PlainCalls, WentOn(r, pc),
         req[r].pc \in AdminCalls \ {"idle", "add"}, added' = added
  PROVE  /\ Sound(req[r])'
         /\ req'[r].pc = pc /\ pc \notin {"add", "issue"}
<1>1. req[r].m \in Member /\ req[r].m.id <= added
  BY DEF IInv, RequestsSound, Sound
<1>2. req'[r].pc = pc /\ req'[r].m = req[r].m
  BY DEF WentOn
<1>3. /\ pc \notin {"add", "issue", "advance", "mail", "pin", "selfMail", "voidAdvance", "voidMail"}
      /\ pc \notin {"unwrap", "activate"}
  BY DEF PlainCalls, AdminCalls, MintingCalls
<1> QED BY <1>1, <1>2, <1>3 DEF Sound

\* A call that ends its request.
LEMMA EndStep ==
  ASSUME IInv, NEW r \in Requests, Done(r),
         token' \in Token \cup {NoToken}, grants' \subseteq Ids, Fault \/ faults' = faults,
         UNCHANGED <<member, codes, added, minted, crashes, held, deleted, undone>>
  PROVE  IInv'
<1>1. OnlyMoves(r) /\ req'[r] = Idle
  BY DoneMoves DEF IInv
<1> QED BY <1>1, EndedSound, ReadStep

\* A call after which its request makes a plain one.
LEMMA GoStep ==
  ASSUME IInv, NEW r \in Requests, NEW pc \in PlainCalls, Goto(r, pc),
         req[r].pc \in AdminCalls \ {"idle", "add"},
         pc \in MintingCalls => req[r].pc \in MintingCalls,
         token' \in Token \cup {NoToken}, grants' \subseteq Ids, Fault \/ faults' = faults,
         UNCHANGED <<member, codes, added, minted, crashes, held, deleted, undone>>
  PROVE  IInv'
<1>1. pc \in AdminCalls \cup AgentCalls
  BY DEF PlainCalls
<1>2. WentOn(r, pc)
  BY <1>1, GotoMoves DEF IInv
<1>3. OnlyMoves(r)
  BY <1>2 DEF WentOn
<1>4. /\ Sound(req[r])'
      /\ req'[r].pc = pc /\ pc \notin {"add", "issue"}
  BY <1>2, WentOnSound
<1> QED BY <1>3, <1>4, ReadStep

\* A call whose request fails: it undoes or ends.
LEMMA FailStep ==
  ASSUME IInv, NEW r \in Requests, Fail(r), req[r].pc \in AdminCalls \ {"idle", "add"},
         token' \in Token \cup {NoToken}, grants' \subseteq Ids, Fault \/ faults' = faults,
         UNCHANGED <<member, codes, added, minted, crashes, held, deleted, undone>>
  PROVE  IInv'
<1>1. AfterFailure(r) \in {"undoGrant", "undoMember", "idle"}
  BY DEF AfterFailure
<1>2. /\ {"undoGrant", "undoMember"} \subseteq PlainCalls
      /\ "undoGrant" \notin MintingCalls /\ "undoMember" \notin MintingCalls
  BY DEF PlainCalls, AdminCalls, MintingCalls
<1>3. CASE AfterFailure(r) = "idle"
  BY <1>3, EndStep DEF Fail
<1>4. CASE AfterFailure(r) = "undoGrant"
  BY <1>2, <1>4, GoStep DEF Fail
<1>5. CASE AfterFailure(r) = "undoMember"
  BY <1>2, <1>5, GoStep DEF Fail
<1> QED BY <1>1, <1>3, <1>4, <1>5

\* What a request at a call knows, and the types of the stores.
LEMMA Here ==
  ASSUME IInv, NEW r \in Requests
  PROVE  /\ TypeOK /\ req[r] \in Request
         /\ member \in Member \cup {NoMember}
         /\ token \in Token \cup {NoToken} /\ NoToken \in Token \cup {NoToken}
         /\ grants \subseteq Ids
         /\ req[r].pc \in AdminCalls \ {"idle", "add"} =>
              req[r].m \in Member /\ req[r].m.id \in Ids /\ req[r].m.id <= added
         /\ grants \ {req[r].m.id} \subseteq Ids
<1>1. TypeOK /\ Sound(req[r])
  BY DEF IInv, RequestsSound
<1>2. req[r].pc \in AdminCalls \ {"idle", "add"} =>
              req[r].m \in Member /\ req[r].m.id \in Ids /\ req[r].m.id <= added
  BY <1>1 DEF Sound, Member
<1>3. /\ req[r] \in Request /\ token \in Token \cup {NoToken} /\ grants \subseteq Ids
      /\ member \in Member \cup {NoMember}
  BY <1>1 DEF TypeOK
<1> QED BY <1>1, <1>2, <1>3

\* The decisions that only read.
LEMMA DecideStep ==
  ASSUME IInv, NEW r \in Admins,
         Conflict(r) \/ NeedsToken(r) \/ NeedsCode(r) \/ CheckSession(r)
  PROVE  IInv'
<1>1. r \in Requests
  BY DEF Requests
<1>2. UNCHANGED <<member, token, codes, grants, added, minted, crashes, faults, held, deleted, undone>>
  BY DEF Conflict, NeedsToken, NeedsCode, CheckSession, stores, ledger
<1>3. token' \in Token \cup {NoToken} /\ grants' \subseteq Ids
  BY <1>1, <1>2, Here
<1>4. /\ {"grant", "needsCode", "wasOnline", "endSession"} \subseteq PlainCalls
      /\ {"conflict", "needsToken", "needsCode", "check"} \subseteq AdminCalls \ {"idle", "add"}
      /\ {"conflict", "needsToken", "needsCode"} \subseteq MintingCalls
      /\ "endSession" \notin MintingCalls
  BY DEF PlainCalls, AdminCalls, MintingCalls
<1>5. CASE Done(r)
  BY <1>1, <1>2, <1>3, <1>5, EndStep
<1>6. CASE Conflict(r) /\ ~Done(r)
  <2>1. Goto(r, "grant") /\ req[r].pc = "conflict"
    BY <1>6 DEF Conflict, At
  <2> QED BY <1>1, <1>2, <1>3, <1>4, <2>1, GoStep
<1>7. CASE NeedsToken(r) /\ ~Done(r)
  <2>1. Goto(r, "needsCode") /\ req[r].pc = "needsToken"
    BY <1>7 DEF NeedsToken, At
  <2> QED BY <1>1, <1>2, <1>3, <1>4, <2>1, GoStep
<1>8. CASE NeedsCode(r) /\ ~Done(r)
  <2>1. Goto(r, "wasOnline") /\ req[r].pc = "needsCode"
    BY <1>8 DEF NeedsCode, At
  <2> QED BY <1>1, <1>2, <1>3, <1>4, <2>1, GoStep
<1>9. CASE CheckSession(r) /\ ~Done(r)
  <2>1. Goto(r, "endSession") /\ req[r].pc = "check"
    BY <1>9 DEF CheckSession, At
  <2> QED BY <1>1, <1>2, <1>3, <1>4, <2>1, GoStep
<1> QED BY <1>5, <1>6, <1>7, <1>8, <1>9

\* The two reads of issueCode before it mints.
LEMMA PrepareStep ==
  ASSUME IInv, NEW r \in Admins, WasOnline(r) \/ Rotated(r)
  PROVE  IInv'
<1>1. r \in Requests
  BY DEF Requests
<1>2. UNCHANGED <<member, token, codes, grants, added, minted, crashes, faults, held, deleted, undone>>
  BY DEF WasOnline, Rotated, stores, ledger
<1>3. /\ token' \in Token \cup {NoToken} /\ grants' \subseteq Ids
      /\ TypeOK /\ req \in [Requests -> Request] /\ req[r] \in Request
  BY <1>1, <1>2, Here DEF TypeOK
<1>4. /\ {"wasOnline", "rotated", "mint"} \subseteq MintingCalls
      /\ {"rotated", "mint"} \subseteq PlainCalls
      /\ {"wasOnline", "rotated"} \subseteq AdminCalls \ {"idle", "add"}
  BY DEF PlainCalls, AdminCalls, MintingCalls
<1>5. PICK pc \in {"rotated", "mint"}, b \in BOOLEAN :
        /\ req[r].pc \in {"wasOnline", "rotated"}
        /\ \/ req' = [req EXCEPT ![r].pc = pc, ![r].wasOnline = b]
           \/ req' = [req EXCEPT ![r].pc = pc, ![r].rotated = b]
  BY DEF WasOnline, Rotated, At
<1>6. pc \in AdminCalls \cup AgentCalls /\ pc \in PlainCalls
  BY <1>4 DEF PlainCalls
<1>7. WentOn(r, pc)
  <2> DEFINE q == [req[r] EXCEPT !.pc = pc, !.wasOnline = b]
             p == [req[r] EXCEPT !.pc = pc, !.rotated = b]
  <2>1. /\ q \in Request /\ q.pc = pc /\ q.kind = req[r].kind /\ q.m = req[r].m
        /\ q.secret = req[r].secret /\ q.code = req[r].code
    BY <1>3, <1>6 DEF Request
  <2>2. /\ p \in Request /\ p.pc = pc /\ p.kind = req[r].kind /\ p.m = req[r].m
        /\ p.secret = req[r].secret /\ p.code = req[r].code
    BY <1>3, <1>6 DEF Request
  <2>3. req' = [req EXCEPT ![r] = q] \/ req' = [req EXCEPT ![r] = p]
    BY <1>1, <1>3, <1>5
  <2> HIDE DEF q, p
  <2> QED BY <1>1, <1>3, <2>1, <2>2, <2>3 DEF WentOn, OnlyMoves
<1>8. OnlyMoves(r)
  BY <1>7 DEF WentOn
<1>9. Sound(req[r])' /\ req'[r].pc = pc /\ pc \notin {"add", "issue"}
  BY <1>1, <1>2, <1>4, <1>5, <1>6, <1>7, WentOnSound
<1> QED BY <1>1, <1>2, <1>3, <1>4, <1>5, <1>8, <1>9, ReadStep

\* Membership: granted, revoked by an undo, removed by a delete.
LEMMA GrantStep ==
  ASSUME IInv, NEW r \in Admins, Grant(r) \/ UndoGrant(r) \/ DeleteGrants(r)
  PROVE  IInv'
<1>1. r \in Requests
  BY DEF Requests
<1>2. /\ UNCHANGED <<member, token, codes, added, minted, crashes, held, deleted, undone>>
      /\ Fault \/ faults' = faults
      /\ req[r].pc \in {"grant", "undoGrant", "delGrants"}
  BY DEF Grant, UndoGrant, DeleteGrants, ledger, At
<1>3. /\ {"grant", "undoGrant", "delGrants"} \subseteq AdminCalls \ {"idle", "add"}
      /\ {"needsToken", "undoMember", "delCodes"} \subseteq PlainCalls
      /\ "undoMember" \notin MintingCalls /\ "delCodes" \notin MintingCalls
      /\ "grant" \in MintingCalls
  BY DEF PlainCalls, AdminCalls, MintingCalls
<1>4. grants' \subseteq Ids
  <2>1. grants' \in {grants, grants \cup {req[r].m.id}, grants \ {req[r].m.id}}
    BY DEF Grant, UndoGrant, DeleteGrants
  <2> QED BY <1>1, <1>2, <1>3, <2>1, Here
<1>5. token' \in Token \cup {NoToken}
  BY <1>1, <1>2, Here
<1>6. \/ Done(r)
      \/ Goto(r, "undoMember")
      \/ Goto(r, "delCodes")
      \/ Goto(r, "needsToken") /\ req[r].pc = "grant"
  BY DEF Grant, UndoGrant, DeleteGrants, At
<1>7. CASE Done(r)
  BY <1>1, <1>2, <1>4, <1>5, <1>7, EndStep
<1>8. CASE Goto(r, "undoMember")
  BY <1>1, <1>2, <1>3, <1>4, <1>5, <1>8, GoStep
<1>9. CASE Goto(r, "delCodes")
  BY <1>1, <1>2, <1>3, <1>4, <1>5, <1>9, GoStep
<1>10. CASE Goto(r, "needsToken") /\ req[r].pc = "grant"
  BY <1>1, <1>2, <1>3, <1>4, <1>5, <1>10, GoStep
<1> QED BY <1>6, <1>7, <1>8, <1>9, <1>10

\* Revocations of the token: by a self-invite, an undo, a delete, a deactivation.
LEMMA RevokeStep ==
  ASSUME IInv, NEW r \in Admins, SelfRevoke(r) \/ Unmint(r) \/ DeleteToken(r) \/ EndSession(r)
  PROVE  IInv'
<1>1. r \in Requests
  BY DEF Requests
<1>2. /\ UNCHANGED <<member, codes, grants, added, minted, crashes, held, deleted, undone>>
      /\ Fault \/ faults' = faults
      /\ token' = token \/ token' = NoToken
      /\ req[r].pc \in {"selfRevoke", "unmint", "delToken", "endSession"}
  BY DEF SelfRevoke, Unmint, DeleteToken, EndSession, ledger, At
<1>3. /\ {"selfRevoke", "unmint", "delToken", "endSession"} \subseteq AdminCalls \ {"idle", "add"}
      /\ {"mint", "delGrants", "stampEnd"} \subseteq PlainCalls
      /\ "delGrants" \notin MintingCalls /\ "stampEnd" \notin MintingCalls
      /\ "selfRevoke" \in MintingCalls
  BY DEF PlainCalls, AdminCalls, MintingCalls
<1>4. token' \in Token \cup {NoToken} /\ grants' \subseteq Ids
  BY <1>1, <1>2, Here
<1>5. \/ Done(r)
      \/ Fail(r)
      \/ Goto(r, "delGrants")
      \/ Goto(r, "stampEnd")
      \/ Goto(r, "mint") /\ req[r].pc = "selfRevoke"
  BY DEF SelfRevoke, Unmint, DeleteToken, EndSession, At
<1>6. CASE Done(r)
  BY <1>1, <1>2, <1>4, <1>6, EndStep
<1>7. CASE Fail(r)
  BY <1>1, <1>2, <1>3, <1>4, <1>7, FailStep
<1>8. CASE Goto(r, "delGrants")
  BY <1>1, <1>2, <1>3, <1>4, <1>8, GoStep
<1>9. CASE Goto(r, "stampEnd")
  BY <1>1, <1>2, <1>3, <1>4, <1>9, GoStep
<1>10. CASE Goto(r, "mint") /\ req[r].pc = "selfRevoke"
  BY <1>1, <1>2, <1>3, <1>4, <1>10, GoStep
<1> QED BY <1>5, <1>6, <1>7, <1>8, <1>9, <1>10

\* ReportActivation marks the token.
LEMMA MarkStep ==
  ASSUME IInv, NEW a \in Agents, Mark(a)
  PROVE  IInv'
<1>1. a \in Requests
  BY DEF Requests
<1>2. /\ UNCHANGED <<member, codes, grants, added, minted, crashes, held, deleted, undone>>
      /\ Fault \/ faults' = faults
      /\ Done(a)
  BY DEF Mark, ledger
<1>3. token \in Token \cup {NoToken} /\ grants' \subseteq Ids
  BY <1>1, <1>2, Here
<1>4. TRUE \in BOOLEAN
  BY Zenon
<1>5. token # NoToken => [token EXCEPT !.activated = TRUE] \in Token
  BY <1>3, <1>4 DEF Token
<1>6. token' \in Token \cup {NoToken}
  BY <1>3, <1>5 DEF Mark
<1> QED BY <1>1, <1>2, <1>3, <1>6, EndStep

-----------------------------------------------------------------------------
(* Requests begin                                                          *)

\* A console request reads the member and begins; the bounds leave it room for the id
\* and the secret it will draw.
LEMMA BeginStep ==
  ASSUME IInv, NEW r \in Admins, NEW kind \in Kinds, NEW pc \in AdminCalls, Begin(r, kind, pc),
         pc \in PlainCalls \cup {"add"},
         pc # "add" => member # NoMember,
         pc = "add" => CanAdd,
         pc \in MintingCalls => CanMint
  PROVE  IInv'
<1>1. r \in Requests
  BY DEF Requests
<1>2. /\ member' = member /\ token' = token /\ codes' = codes /\ grants' = grants
      /\ added' = added /\ minted' = minted /\ crashes' = crashes /\ faults' = faults
      /\ held' = held /\ deleted' = deleted /\ undone' = undone
  BY DEF Begin, stores, ledger
<1>3. /\ TypeOK /\ req \in [Requests -> Request] /\ member \in Member \cup {NoMember}
      /\ Drawn /\ Budget /\ req[r].pc = "idle"
  BY DEF IInv, TypeOK, Begin, At
<1> DEFINE q == [Idle EXCEPT !.pc = pc, !.kind = kind, !.m = member]
<1>4. q \in Request /\ q.pc = pc /\ q.m = member
  <2>1. Idle \in Request
    BY IdleSound
  <2> QED BY <1>3, <2>1 DEF Request
<1>5. req' = [req EXCEPT ![r] = q]
  BY DEF Begin
<1> HIDE DEF q
<1>6. OnlyMoves(r) /\ req'[r] = q
  BY <1>1, <1>3, <1>4, <1>5 DEF OnlyMoves
<1>7. Sound(req[r])'
  <2>1. pc \in PlainCalls => pc \notin {"issue", "advance", "mail", "pin", "selfMail", "voidAdvance",
                                        "voidMail", "unwrap", "activate"}
    BY DEF PlainCalls, AdminCalls, MintingCalls
  <2>2. pc # "add" => member \in Member /\ member.id <= added
    BY <1>3 DEF Drawn
  <2> QED BY <1>2, <1>4, <1>6, <2>1, <2>2 DEF Sound
<1>8. CodesGrow
  BY <1>2, <1>3, CodesSame
<1>9. RequestsSound'
  <2>1. added' \in Nat /\ minted' \in Nat /\ added <= added' /\ minted <= minted'
    BY <1>2, <1>3, Numbers
  <2> QED BY <1>1, <1>6, <1>7, <1>8, <2>1, OthersSound
<1>10. Budget'
  <2> DEFINE a == Cardinality(Calling({"add"}))
             m == Cardinality(Calling(MintingCalls))
             i == Cardinality(Calling({"issue"}))
  <2>1. a \in Nat /\ a' \in Nat /\ a' <= a + 1 /\ (pc # "add" => a' <= a)
    BY <1>1, <1>4, <1>6, CallingBound
  <2>2. m \in Nat /\ m' \in Nat /\ m' <= m + 1 /\ (pc \notin MintingCalls => m' <= m)
    BY <1>1, <1>4, <1>6, CallingBound
  <2>3. i \in Nat /\ i' \in Nat /\ i' <= i
    <3>1. pc # "issue"
      BY DEF PlainCalls
    <3> QED BY <1>1, <1>4, <1>6, <3>1, CallingBound
  <2>4. pc = "add" => added + a < MaxIds
    <3>1. Calling({"add"}) = {x \in Admins : req[x].pc = "add"}
      BY DEF Calling
    <3> QED BY <3>1 DEF CanAdd
  <2>5. pc \in MintingCalls => minted + m < MaxSecrets
    BY DEF CanMint, Calling
  <2>6. added + a <= MaxIds /\ minted + m <= MaxSecrets /\ Len(codes) + i <= minted
    BY <1>3 DEF Budget
  <2> HIDE DEF a, m, i
  <2>7. added + a' <= MaxIds
    <3>1. CASE pc = "add"
      BY <1>3, <2>1, <2>4, <3>1, Numbers
    <3>2. CASE pc # "add"
      BY <1>3, <2>1, <2>6, <3>2, Numbers
    <3> QED BY <3>1, <3>2
  <2>8. minted + m' <= MaxSecrets
    <3>1. CASE pc \in MintingCalls
      <4>1. minted + m < MaxSecrets /\ m' <= m + 1
        BY <2>2, <2>5, <3>1
      <4> QED BY <1>3, <2>2, <4>1, Numbers
    <3>2. CASE pc \notin MintingCalls
      <4>1. minted + m <= MaxSecrets /\ m' <= m
        BY <2>2, <2>6, <3>2
      <4> QED BY <1>3, <2>2, <4>1, Numbers
    <3> QED BY <3>1, <3>2
  <2>9. Len(codes) + i' <= minted
    BY <1>3, <2>3, <2>6, Numbers
  <2> QED BY <1>2, <2>7, <2>8, <2>9 DEF Budget, a, m, i
<1>11. TypeOK'
  BY <1>2, <1>3, <1>6 DEF TypeOK, OnlyMoves
<1>12. Drawn' /\ ActiveWasRedeemed' /\ InvitedHasCode'
  BY <1>2 DEF IInv, Drawn, ActiveWasRedeemed, InvitedHasCode, OfMember
<1> QED BY <1>9, <1>10, <1>11, <1>12 DEF IInv

\* The handlers that begin.
LEMMA StartStep ==
  ASSUME IInv, NEW r \in Admins, AdminStart(r)
  PROVE  IInv'
<1>1. /\ {"resend", "cancel", "delete", "deactivate", "invite", "self"} \subseteq Kinds
      /\ {"wasOnline", "voidAll", "delToken", "check", "conflict", "selfRevoke"} \subseteq PlainCalls
      /\ "add" \in AdminCalls
      /\ {"voidAll", "delToken", "check"} \cap MintingCalls = {}
  BY DEF Kinds, PlainCalls, AdminCalls, MintingCalls
<1>2. PlainCalls \subseteq AdminCalls
  BY DEF PlainCalls
<1>3. {"wasOnline", "voidAll", "delToken", "check", "conflict", "selfRevoke"} \cap {"add"} = {}
  OBVIOUS
<1>4. CASE Resend(r)
  BY <1>1, <1>2, <1>3, <1>4, BeginStep DEF Resend
<1>5. CASE Cancel(r)
  BY <1>1, <1>2, <1>3, <1>5, BeginStep DEF Cancel
<1>6. CASE Delete(r)
  BY <1>1, <1>2, <1>3, <1>6, BeginStep DEF Delete
<1>7. CASE Deactivate(r)
  BY <1>1, <1>2, <1>3, <1>7, BeginStep DEF Deactivate
<1>8. CASE Invite(r)
  <2>1. CASE member = NoMember
    BY <1>1, <1>2, <1>8, <2>1, BeginStep DEF Invite
  <2>2. CASE member # NoMember
    BY <1>1, <1>2, <1>8, <2>2, BeginStep DEF Invite
  <2> QED BY <2>1, <2>2
<1>9. CASE SelfInvite(r)
  <2>1. CASE member = NoMember
    BY <1>1, <1>2, <1>9, <2>1, BeginStep DEF SelfInvite
  <2>2. CASE member # NoMember
    BY <1>1, <1>2, <1>9, <2>2, BeginStep DEF SelfInvite
  <2> QED BY <2>1, <2>2
<1>10. CASE UnknownUser(r)
  <2>1. /\ member' = member /\ token' = token /\ codes' = codes /\ grants' = grants /\ req' = req
        /\ added' = added /\ minted' = minted /\ crashes' = crashes /\ faults' = faults
        /\ held' = held /\ deleted' = deleted /\ undone' = undone
    BY <1>10 DEF UnknownUser, vars, stores, ledger
  <2> QED BY <2>1 DEF IInv, TypeOK, Budget, Calling, RequestsSound, Sound, Drawn,
                      ActiveWasRedeemed, InvitedHasCode, OfMember
<1> QED BY <1>4, <1>5, <1>6, <1>7, <1>8, <1>9, <1>10 DEF AdminStart

\* A code is numbered by its position, and there are no more codes than secrets.
LEMMA CodeFacts ==
  ASSUME TypeOK, NEW k \in DOMAIN codes
  PROVE  k \in Secrets /\ codes[k] \in Code
<1>1. /\ codes \in Seq(Code) /\ DOMAIN codes = 1..Len(codes) /\ Len(codes) \in Nat
      /\ Len(codes) <= minted /\ minted <= MaxSecrets /\ minted \in Nat /\ MaxSecrets \in Nat
  BY Numbers
<1>2. k \in 1..Len(codes)
  BY <1>1
<1>3. k \in 1..MaxSecrets
  BY <1>1, <1>2
<1>4. codes[k] \in Code
  BY <1>1, <1>2
<1> QED BY <1>3, <1>4 DEF Secrets

\* An agent presents a code, or the secret it was given.
LEMMA AgentStartStep ==
  ASSUME IInv, NEW a \in Agents, (\E k \in DOMAIN codes : Redeem(a, k)) \/ Report(a)
  PROVE  IInv'
<1>1. a \in Requests
  BY DEF Requests
<1>2. UNCHANGED <<member, token, codes, grants, added, minted, crashes, faults, held, deleted, undone>>
  BY DEF Redeem, Report, stores, ledger
<1>3. /\ token' \in Token \cup {NoToken} /\ grants' \subseteq Ids
      /\ TypeOK /\ req \in [Requests -> Request]
  BY <1>1, <1>2, Here DEF TypeOK
<1>4. /\ {"unwrap", "mark"} \subseteq AdminCalls \cup AgentCalls
      /\ {"redeem", "report"} \subseteq Kinds
      /\ "unwrap" \notin MintingCalls /\ "mark" \notin MintingCalls
      /\ "unwrap" \notin AdminCalls /\ "mark" \notin AdminCalls
  BY DEF AdminCalls, AgentCalls, Kinds, MintingCalls
<1>5. Idle \in Request
  BY IdleSound
<1>6. CASE Report(a)
  <2> DEFINE q == [Idle EXCEPT !.pc = "mark", !.kind = "report"]
  <2>1. q \in Request /\ q.pc = "mark"
    BY <1>4, <1>5 DEF Request
  <2>2. req' = [req EXCEPT ![a] = q]
    BY <1>6 DEF Report
  <2> HIDE DEF q
  <2>3. OnlyMoves(a) /\ req'[a].pc = "mark"
    BY <1>1, <1>3, <2>1, <2>2 DEF OnlyMoves
  <2>4. Sound(req[a])'
    BY <1>4, <2>3 DEF Sound
  <2> QED BY <1>1, <1>2, <1>3, <1>4, <2>3, <2>4, ReadStep
<1>7. ASSUME NEW k \in DOMAIN codes, Redeem(a, k) PROVE IInv'
  <2> DEFINE q == [Idle EXCEPT !.pc = "unwrap", !.kind = "redeem", !.code = k]
  <2>1. q \in Request /\ q.pc = "unwrap" /\ q.code = k
    <3>1. k \in Secrets
      BY <1>3, <1>7, CodeFacts
    <3> QED BY <1>4, <1>5, <3>1 DEF Request
  <2>2. req' = [req EXCEPT ![a] = q]
    BY <1>7 DEF Redeem
  <2> HIDE DEF q
  <2>3. OnlyMoves(a) /\ req'[a].pc = "unwrap" /\ req'[a].code = k
    BY <1>1, <1>3, <2>1, <2>2 DEF OnlyMoves
  <2>4. Sound(req[a])'
    BY <1>2, <1>4, <1>7, <2>3 DEF Sound
  <2> QED BY <1>1, <1>2, <1>3, <1>4, <2>3, <2>4, ReadStep
<1> QED BY <1>6, <1>7

-----------------------------------------------------------------------------
(* Calls that write codes                                                  *)

\* A statement on one row.
LEMMA OneCodeWritten ==
  ASSUME TypeOK, NEW k \in DOMAIN codes, NEW c \in Code, codes' = [codes EXCEPT ![k] = c],
         c.id = codes[k].id, c.secret = codes[k].secret,
         codes[k].status = "consumed" => c.status = "consumed"
  PROVE  CodesGrow /\ Len(codes') = Len(codes) /\ DOMAIN codes' = DOMAIN codes /\ codes'[k] = c
<1>1. \A j \in DOMAIN codes : codes[j] \in Code
  BY CodeFacts
<1>2. codes' = [j \in DOMAIN codes |-> codes'[j]] /\ codes'[k] = c
  OBVIOUS
<1>3. \A j \in DOMAIN codes :
           /\ codes'[j] \in Code
           /\ codes'[j].id = codes[j].id
           /\ codes'[j].secret = codes[j].secret
           /\ codes[j].status = "consumed" => codes'[j].status = "consumed"
  BY <1>1
<1> QED BY <1>2, <1>3, CodesRewritten

\* A code that is given up as it is.
LEMMA AbandonedCode ==
  ASSUME TypeOK, NEW r \in Requests, req[r].code \in DOMAIN codes, NEW out \in BOOLEAN,
         codes' = Abandoned(r, out)
  PROVE  \E c \in Code : /\ codes' = [codes EXCEPT ![req[r].code] = c]
                         /\ c.id = codes[req[r].code].id
                         /\ c.secret = codes[req[r].code].secret
                         /\ c.status = codes[req[r].code].status
                         /\ c.outcome = "abandoned" /\ c.by = req[r].kind
<1> DEFINE k == req[r].code
           c == [codes[k] EXCEPT !.outcome = "abandoned", !.by = req[r].kind, !.out = out]
<1>1. codes[k] \in Code
  BY CodeFacts
<1>2. req[r].kind \in Kinds
  BY DEF TypeOK, Request
<1>3. /\ c \in Code /\ c.id = codes[k].id /\ c.secret = codes[k].secret
      /\ c.status = codes[k].status /\ c.outcome = "abandoned" /\ c.by = req[r].kind
  BY <1>1, <1>2 DEF Code
<1>4. codes' = [codes EXCEPT ![k] = c]
  BY DEF Abandoned
<1> QED BY <1>3, <1>4

\* RevokeAllPendingForMember closes pending codes only.
LEMMA AllVoidedGrow ==
  ASSUME TypeOK, NEW id, codes' = AllVoided(id)
  PROVE  CodesGrow /\ Len(codes') = Len(codes) /\ DOMAIN codes' = DOMAIN codes
<1>1. codes' = [k \in DOMAIN codes |-> codes'[k]]
  BY DEF AllVoided
<1>2. ASSUME NEW k \in DOMAIN codes
      PROVE  /\ codes'[k] \in Code
             /\ codes'[k].id = codes[k].id
             /\ codes'[k].secret = codes[k].secret
             /\ codes[k].status = "consumed" => codes'[k].status = "consumed"
  <2>1. codes[k] \in Code
    BY CodeFacts
  <2>2. codes'[k] = IF codes[k].id = id /\ codes[k].status = "pending"
                      THEN [codes[k] EXCEPT !.status = "revoked"] ELSE codes[k]
    BY DEF AllVoided
  <2>3. CASE codes'[k] = codes[k]
    BY <2>1, <2>3
  <2>4. CASE codes'[k] = [codes[k] EXCEPT !.status = "revoked"] /\ codes[k].status = "pending"
    BY <2>1, <2>4 DEF Code
  <2> QED BY <2>2, <2>3, <2>4
<1> QED BY <1>1, <1>2, CodesRewritten

\* A call that writes codes in place, and nothing else.
LEMMA CodeStep ==
  ASSUME IInv, NEW r \in Requests, OnlyMoves(r), Sound(req[r])',
         req'[r].pc = "add" => req[r].pc = "add",
         req'[r].pc \in MintingCalls => req[r].pc \in MintingCalls,
         req'[r].pc = "issue" => req[r].pc = "issue",
         CodesGrow, Len(codes') = Len(codes), Fault \/ faults' = faults,
         UNCHANGED <<member, token, grants, added, minted, crashes, held, deleted, undone>>
  PROVE  IInv'
<1>1. TypeOK /\ Drawn
  BY DEF IInv
<1>2. /\ member' = member /\ token' = token /\ grants' = grants /\ added' = added /\ held' = held
      /\ deleted' = deleted /\ undone' = undone
  OBVIOUS
<1>3. added <= added' /\ added \in Nat /\ added' \in Nat
  BY <1>1, <1>2, Numbers
<1>4. ActiveWasRedeemed' /\ InvitedHasCode'
  BY <1>2, <1>3, MemberStays
<1>5. /\ member' \in Member \cup {NoMember} /\ held' \subseteq 1..minted
      /\ deleted' \subseteq 1..added /\ undone' \subseteq 1..added
      /\ token' \in Token \cup {NoToken} /\ grants' \subseteq Ids
  BY <1>1, <1>2 DEF TypeOK
<1>6. member' # NoMember => member'.id <= added
  BY <1>1, <1>2 DEF Drawn
<1> QED BY <1>4, <1>5, <1>6, CallStep

\* cancelInvitation and the delete cascade void every pending code of the member.
LEMMA VoidAllStep ==
  ASSUME IInv, NEW r \in Admins, VoidAll(r) \/ DeleteCodes(r)
  PROVE  IInv'
<1>1. r \in Requests /\ TypeOK
  BY DEF Requests, IInv
<1>2. /\ UNCHANGED <<member, token, grants, added, minted, crashes, held, deleted, undone>>
      /\ Fault \/ faults' = faults
      /\ codes' = codes \/ codes' = AllVoided(req[r].m.id)
      /\ req[r].pc \in {"voidAll", "delCodes"}
      /\ Done(r) \/ Goto(r, "delMember")
  BY DEF VoidAll, DeleteCodes, ledger, At
<1>3. CodesGrow /\ Len(codes') = Len(codes)
  <2>1. CASE codes' = codes
    BY <1>1, <2>1, CodesSame
  <2>2. CASE codes' = AllVoided(req[r].m.id)
    <3> DEFINE id == req[r].m.id
    <3>1. codes' = AllVoided(id)
      BY <2>2
    <3> HIDE DEF id
    <3> QED BY <1>1, <3>1, AllVoidedGrow
  <2> QED BY <1>2, <2>1, <2>2
<1>4. CASE Done(r)
  <2>1. OnlyMoves(r) /\ req'[r] = Idle
    BY <1>1, <1>4, DoneMoves
  <2> QED BY <1>1, <1>2, <1>3, <2>1, EndedSound, CodeStep
<1>5. CASE Goto(r, "delMember")
  <2>1. /\ "delMember" \in PlainCalls /\ "delMember" \notin MintingCalls
        /\ "delMember" \in AdminCalls \cup AgentCalls
        /\ {"voidAll", "delCodes"} \subseteq AdminCalls \ {"idle", "add"}
    BY DEF PlainCalls, AdminCalls, MintingCalls
  <2>2. WentOn(r, "delMember")
    BY <1>1, <1>5, <2>1, GotoMoves
  <2>3. OnlyMoves(r)
    BY <2>2 DEF WentOn
  <2>4. Sound(req[r])' /\ req'[r].pc = "delMember"
    BY <1>1, <1>2, <2>1, <2>2, WentOnSound
  <2> QED BY <1>1, <1>2, <1>3, <2>1, <2>3, <2>4, CodeStep
<1> QED BY <1>2, <1>4, <1>5

\* The steps that follow a code on its way out: announced, or voided when that failed.
LEMMA AnnounceStep ==
  ASSUME IInv, NEW r \in Admins, Mail(r) \/ Pin(r) \/ SelfMail(r) \/ Void(r)
  PROVE  IInv'
<1>1. r \in Requests /\ TypeOK
  BY DEF Requests, IInv
<1>2. /\ UNCHANGED <<member, token, grants, added, minted, crashes, held, deleted, undone>>
      /\ Fault \/ faults' = faults
      /\ req[r].pc \in {"mail", "pin", "selfMail", "voidAdvance", "voidMail"}
      /\ \/ Done(r) \/ Fail(r) \/ Goto(r, "unmint") \/ Goto(r, "voidMail")
         \/ req[r].pc = "pin" /\ Goto(r, "selfMail")
  BY DEF Mail, Pin, SelfMail, Void, ledger, At
<1> DEFINE k == req[r].code
<1>3. /\ k \in DOMAIN codes /\ codes[k].id = req[r].m.id
      /\ req[r].pc = "pin" => req[r].kind = "self"
      /\ req[r].m \in Member /\ req[r].m.id <= added
  <2>1. req[r].pc \in AdminCalls \ {"idle", "add"}
    BY <1>2 DEF AdminCalls
  <2> QED BY <1>1, <1>2, <2>1 DEF IInv, RequestsSound, Sound
<1>4. PICK c \in Code : /\ codes' = [codes EXCEPT ![k] = c]
                        /\ c.id = codes[k].id /\ c.secret = codes[k].secret
                        /\ codes[k].status = "consumed" => c.status = "consumed"
  <2>1. codes[k] \in Code /\ codes \in Seq(Code)
    BY <1>1, <1>3, CodeFacts, Numbers
  <2>2. TRUE \in BOOLEAN
    BY Zenon
  <2>3. \/ codes' = [codes EXCEPT ![k].outcome = "sent", ![k].out = TRUE]
        \/ \E b \in BOOLEAN : codes' = [codes EXCEPT ![k].out = b]
        \/ \E b \in BOOLEAN : codes' = Abandoned(r, b)
        \/ codes' = [codes EXCEPT ![k].outcome = "unvoided"]
        \/ codes[k].status = "pending" /\ codes' = [codes EXCEPT ![k].status = "revoked"]
        \/ codes' = codes
    <3>1. codes[k].out \in BOOLEAN
      BY <2>1 DEF Code
    <3> QED BY <3>1 DEF Mail, Pin, SelfMail, Void
  <2>4. CASE codes' = [codes EXCEPT ![k].outcome = "sent", ![k].out = TRUE]
    <3> DEFINE c == [codes[k] EXCEPT !.outcome = "sent", !.out = TRUE]
    <3>1. /\ c \in Code /\ c.id = codes[k].id /\ c.secret = codes[k].secret
          /\ c.status = codes[k].status
      BY <2>1, <2>2 DEF Code
    <3>2. codes' = [codes EXCEPT ![k] = c]
      BY <2>1, <2>4, <1>3
    <3> QED BY <3>1, <3>2
  <2>5. ASSUME NEW b \in BOOLEAN, codes' = [codes EXCEPT ![k].out = b]
        PROVE  \E c \in Code : /\ codes' = [codes EXCEPT ![k] = c]
                               /\ c.id = codes[k].id /\ c.secret = codes[k].secret
                               /\ codes[k].status = "consumed" => c.status = "consumed"
    <3> DEFINE c == [codes[k] EXCEPT !.out = b]
    <3>1. /\ c \in Code /\ c.id = codes[k].id /\ c.secret = codes[k].secret
          /\ c.status = codes[k].status
      BY <2>1 DEF Code
    <3>2. codes' = [codes EXCEPT ![k] = c]
      BY <2>1, <2>5, <1>3
    <3> QED BY <3>1, <3>2
  <2>6. CASE codes' = [codes EXCEPT ![k].outcome = "unvoided"]
    <3> DEFINE c == [codes[k] EXCEPT !.outcome = "unvoided"]
    <3>1. /\ c \in Code /\ c.id = codes[k].id /\ c.secret = codes[k].secret
          /\ c.status = codes[k].status
      BY <2>1 DEF Code
    <3>2. codes' = [codes EXCEPT ![k] = c]
      BY <2>1, <2>6, <1>3
    <3> QED BY <3>1, <3>2
  <2>7. CASE codes[k].status = "pending" /\ codes' = [codes EXCEPT ![k].status = "revoked"]
    <3> DEFINE c == [codes[k] EXCEPT !.status = "revoked"]
    <3>1. c \in Code /\ c.id = codes[k].id /\ c.secret = codes[k].secret
      BY <2>1 DEF Code
    <3>2. codes' = [codes EXCEPT ![k] = c]
      BY <2>1, <2>7, <1>3
    <3> QED BY <2>7, <3>1, <3>2
  <2>8. ASSUME NEW b \in BOOLEAN, codes' = Abandoned(r, b)
        PROVE  \E c \in Code : /\ codes' = [codes EXCEPT ![k] = c]
                               /\ c.id = codes[k].id /\ c.secret = codes[k].secret
                               /\ codes[k].status = "consumed" => c.status = "consumed"
    BY <1>1, <1>3, <2>8, AbandonedCode
  <2>9. CASE codes' = codes
    <3>1. codes' = [codes EXCEPT ![k] = codes[k]]
      BY <2>1, <2>9, <1>3
    <3> QED BY <2>1, <3>1
  <2> QED BY <2>3, <2>4, <2>5, <2>6, <2>7, <2>8, <2>9
<1>5. CodesGrow /\ Len(codes') = Len(codes) /\ k \in DOMAIN codes'
      /\ codes'[k].id = req[r].m.id
  BY <1>1, <1>3, <1>4, OneCodeWritten
<1> HIDE DEF k
<1>6. CASE OnlyMoves(r) /\ req'[r] = Idle
  BY <1>1, <1>2, <1>5, <1>6, EndedSound, CodeStep
<1>7. ASSUME NEW pc \in {"undoGrant", "undoMember", "unmint"}, WentOn(r, pc) PROVE IInv'
  <2>1. /\ pc \in PlainCalls /\ pc \notin MintingCalls
        /\ {"mail", "pin", "selfMail", "voidAdvance", "voidMail"}
             \subseteq AdminCalls \ {"idle", "add"}
    BY DEF PlainCalls, AdminCalls, MintingCalls
  <2>2. OnlyMoves(r)
    BY <1>7 DEF WentOn
  <2>3. Sound(req[r])' /\ req'[r].pc = pc /\ pc \notin {"add", "issue"}
    BY <1>1, <1>2, <1>7, <2>1, WentOnSound
  <2> QED BY <1>1, <1>2, <1>5, <2>1, <2>2, <2>3, CodeStep
<1>8. ASSUME NEW pc \in {"voidMail", "selfMail"}, Goto(r, pc),
             pc = "selfMail" => req[r].pc = "pin"
      PROVE  IInv'
  <2>1. pc \in AdminCalls \cup AgentCalls /\ pc \notin MintingCalls
    BY DEF AdminCalls, MintingCalls
  <2>2. WentOn(r, pc)
    BY <1>1, <1>8, <2>1, GotoMoves
  <2>3. /\ OnlyMoves(r) /\ req'[r].pc = pc /\ req'[r].m = req[r].m
        /\ req'[r].code = k /\ req'[r].kind = req[r].kind
    BY <2>2 DEF WentOn, k
  <2>4. Sound(req[r])'
    BY <1>2, <1>3, <1>5, <1>8, <2>3 DEF Sound
  <2> QED BY <1>1, <1>2, <1>5, <2>1, <2>3, <2>4, CodeStep
<1>9. CASE Done(r)
  BY <1>1, <1>6, <1>9, DoneMoves
<1>10. CASE Fail(r)
  BY <1>1, <1>6, <1>7, <1>10, FailMoves
<1>11. CASE Goto(r, "unmint")
  <2>1. "unmint" \in AdminCalls \cup AgentCalls
    BY DEF AdminCalls
  <2> QED BY <1>1, <1>7, <1>11, <2>1, GotoMoves
<1> QED BY <1>2, <1>8, <1>9, <1>10, <1>11

\* Unwrap burns a pending code, once.
LEMMA UnwrapStep ==
  ASSUME IInv, NEW a \in Agents, Unwrap(a)
  PROVE  IInv'
<1>1. a \in Requests /\ TypeOK
  BY DEF Requests, IInv
<1>2. /\ UNCHANGED <<member, token, grants, added, minted, crashes, held, deleted, undone>>
      /\ Fault \/ faults' = faults
      /\ req[a].pc = "unwrap"
  BY DEF Unwrap, ledger, At
<1> DEFINE k == req[a].code
<1>3. /\ k \in DOMAIN codes /\ codes[k] \in Code /\ req[a] \in Request
      /\ codes \in Seq(Code) /\ req \in [Requests -> Request]
  <2>1. k \in DOMAIN codes
    BY <1>1, <1>2 DEF IInv, RequestsSound, Sound
  <2> QED BY <1>1, <2>1, CodeFacts DEF TypeOK
<1>4. CASE Done(a) /\ codes' = codes
  <2>1. OnlyMoves(a) /\ req'[a] = Idle
    BY <1>1, <1>4, DoneMoves
  <2>2. CodesGrow /\ Len(codes') = Len(codes)
    BY <1>1, <1>4, CodesSame
  <2> QED BY <1>1, <1>2, <2>1, <2>2, EndedSound, CodeStep
<1>5. CASE /\ codes[k].status = "pending"
           /\ codes' = [codes EXCEPT ![k].status = "consumed"]
           /\ req' = [req EXCEPT ![a].pc = "activate", ![a].secret = codes[k].secret]
  <2> DEFINE c == [codes[k] EXCEPT !.status = "consumed"]
             q == [req[a] EXCEPT !.pc = "activate", !.secret = codes[k].secret]
  <2>1. /\ c \in Code /\ c.id = codes[k].id /\ c.secret = codes[k].secret
        /\ c.status = "consumed" /\ codes[k].secret \in Secrets
    BY <1>3 DEF Code
  <2>2. codes' = [codes EXCEPT ![k] = c]
    BY <1>3, <1>5
  <2>3. CodesGrow /\ Len(codes') = Len(codes) /\ k \in DOMAIN codes' /\ codes'[k] = c
    BY <1>1, <1>3, <2>1, <2>2, OneCodeWritten
  <2>4. q \in Request /\ q.pc = "activate" /\ q.secret = codes[k].secret /\ q.code = k
    <3>1. "activate" \in AdminCalls \cup AgentCalls
      BY DEF AgentCalls
    <3> QED BY <1>3, <2>1, <3>1 DEF Request
  <2>5. req' = [req EXCEPT ![a] = q]
    BY <1>1, <1>3, <1>5
  <2> HIDE DEF q, c
  <2>6. OnlyMoves(a) /\ req'[a] = q
    BY <1>1, <1>3, <2>4, <2>5 DEF OnlyMoves
  <2>7. "activate" \notin AdminCalls /\ "activate" \notin MintingCalls
    BY DEF AdminCalls, MintingCalls
  <2> HIDE DEF k
  <2>8. Sound(req[a])'
    BY <2>1, <2>3, <2>4, <2>6, <2>7 DEF Sound
  <2> QED BY <1>1, <1>2, <2>3, <2>4, <2>6, <2>7, <2>8, CodeStep
<1> QED BY <1>4, <1>5 DEF Unwrap

-----------------------------------------------------------------------------
(* Calls that write the member                                             *)

\* A call that ends its request and leaves the member in its status, or removes it.
LEMMA MemberEndStep ==
  ASSUME IInv, NEW r \in Requests, Done(r), Fault \/ faults' = faults,
         \/ member' = member
         \/ member' = NoMember
         \/ /\ member # NoMember /\ member' \in Member
            /\ member'.id = member.id /\ member'.status = member.status,
         deleted' \subseteq 1..added, undone' \subseteq 1..added,
         UNCHANGED <<token, codes, grants, added, minted, crashes, held>>
  PROVE  IInv'
<1>1. TypeOK /\ Drawn
  BY DEF IInv
<1>2. /\ token' = token /\ codes' = codes /\ grants' = grants /\ added' = added
      /\ minted' = minted /\ held' = held
  OBVIOUS
<1>3. CodesGrow /\ Len(codes') = Len(codes)
  BY <1>1, <1>2, CodesSame
<1>4. added <= added' /\ added \in Nat /\ added' \in Nat
  BY <1>1, <1>2, Numbers
<1>5. /\ ActiveWasRedeemed' /\ InvitedHasCode'
      /\ member' # NoMember => member'.id <= added
  BY <1>2, <1>3, <1>4, MemberStays
<1>6. OnlyMoves(r) /\ req'[r] = Idle
  BY <1>1, DoneMoves
<1>7. /\ member' \in Member \cup {NoMember} /\ token' \in Token \cup {NoToken}
      /\ grants' \subseteq Ids /\ held' \subseteq 1..minted
  BY <1>1, <1>2 DEF TypeOK
<1> QED BY <1>3, <1>5, <1>6, <1>7, EndedSound, CallStep

\* The undo removes the member it added, a delete the one it was asked for, and a
\* deactivation stamps it.
LEMMA RemoveStep ==
  ASSUME IInv, NEW r \in Admins, UndoMember(r) \/ DeleteMember(r) \/ StampEnd(r)
  PROVE  IInv'
<1>1. r \in Requests /\ TypeOK
  BY DEF Requests, IInv
<1>2. /\ UNCHANGED <<token, codes, grants, added, minted, crashes, held>>
      /\ Fault \/ faults' = faults
      /\ Done(r)
      /\ req[r].pc \in {"undoMember", "delMember", "stampEnd"}
  BY DEF UndoMember, DeleteMember, StampEnd, ledger, At
<1>3. req[r].m.id \in 1..added
  <2>1. req[r].pc \in AdminCalls \ {"idle", "add"}
    BY <1>2 DEF AdminCalls
  <2>2. req[r].m.id \in Ids /\ req[r].m.id <= added
    BY <1>1, <2>1, Here
  <2>3. req[r].m.id \in 1..MaxIds /\ MaxIds \in Nat /\ added \in Nat
    BY <1>1, <2>2, Numbers DEF Ids
  <2> QED BY <2>2, <2>3
<1>4. deleted' \subseteq 1..added /\ undone' \subseteq 1..added
  <2>1. deleted \subseteq 1..added /\ undone \subseteq 1..added
    BY <1>1 DEF TypeOK
  <2>2. /\ deleted' = deleted \/ deleted' = deleted \cup {req[r].m.id}
        /\ undone' = undone \/ undone' = undone \cup {req[r].m.id}
    BY DEF UndoMember, DeleteMember, StampEnd
  <2> QED BY <1>3, <2>1, <2>2
<1>5. \/ member' = member
      \/ member' = NoMember
      \/ /\ member # NoMember /\ member' \in Member
         /\ member'.id = member.id /\ member'.status = member.status
  <2>1. member \in Member \cup {NoMember}
    BY <1>1 DEF TypeOK
  <2>2. TRUE \in BOOLEAN
    BY Zenon
  <2>3. member # NoMember => /\ [member EXCEPT !.ended = TRUE] \in Member
                             /\ [member EXCEPT !.ended = TRUE].id = member.id
                             /\ [member EXCEPT !.ended = TRUE].status = member.status
    BY <2>1, <2>2 DEF Member
  <2>4. \/ member' = member
        \/ member' = NoMember
        \/ member # NoMember /\ member' = [member EXCEPT !.ended = TRUE]
    BY DEF UndoMember, DeleteMember, StampEnd, Present
  <2> QED BY <2>3, <2>4
<1> QED BY <1>1, <1>2, <1>4, <1>5, MemberEndStep

\* Activate follows a burned code of the very member it activates.
LEMMA ActivateStep ==
  ASSUME IInv, NEW a \in Agents, Activate(a)
  PROVE  IInv'
<1>1. a \in Requests /\ TypeOK
  BY DEF Requests, IInv
<1>2. /\ UNCHANGED <<token, codes, grants, added, minted, crashes, deleted, undone>>
      /\ Fault \/ faults' = faults
      /\ Done(a)
      /\ req[a].pc = "activate"
  BY DEF Activate, ledger, At
<1> DEFINE k == req[a].code
           id == codes[k].id
<1>3. /\ k \in DOMAIN codes /\ codes[k].status = "consumed"
      /\ req[a].secret = codes[k].secret
  BY <1>1, <1>2 DEF IInv, RequestsSound, Sound
<1>4. CASE member' = member /\ held' = held
  <2>1. deleted' \subseteq 1..added /\ undone' \subseteq 1..added
    BY <1>1, <1>2 DEF TypeOK
  <2> QED BY <1>1, <1>2, <1>4, <2>1, MemberEndStep
<1>5. CASE /\ Present(id)
           /\ member' = [member EXCEPT !.status = "active"]
           /\ held' = held \cup {req[a].secret}
  <2>1. member \in Member /\ member.id = id /\ member.id <= added
    BY <1>1, <1>5 DEF Present, TypeOK, IInv, Drawn
  <2>2. /\ member' \in Member /\ member'.id = member.id /\ member'.status = "active"
    BY <1>5, <2>1 DEF Member, MemberStatuses
  <2>3. held' \subseteq 1..minted
    <3>1. codes[k] \in Code /\ codes[k].secret <= minted /\ held \subseteq 1..minted
      BY <1>1, <1>3, CodeFacts DEF IInv, Drawn, TypeOK
    <3>2. codes[k].secret \in 1..MaxSecrets /\ MaxSecrets \in Nat /\ minted \in Nat
      BY <1>1, <3>1, Numbers DEF Code, Secrets
    <3>3. codes[k].secret \in 1..minted
      BY <3>1, <3>2
    <3> QED BY <1>3, <1>5, <3>1, <3>3
  <2>4. codes' = codes /\ CodesGrow /\ Len(codes') = Len(codes)
    BY <1>1, <1>2, CodesSame
  <2>5. k \in OfMember(member.id)
    BY <1>3, <2>1 DEF OfMember
  <2>6. k \in OfMember(member.id)' /\ codes'[k].status = "consumed"
    BY <1>3, <2>2, <2>4, <2>5 DEF OfMember
  <2>7. ActiveWasRedeemed' /\ InvitedHasCode'
    BY <2>6 DEF ActiveWasRedeemed, InvitedHasCode
  <2>8. OnlyMoves(a) /\ req'[a] = Idle
    BY <1>1, <1>2, DoneMoves
  <2>9. /\ token' \in Token \cup {NoToken} /\ grants' \subseteq Ids
        /\ deleted' \subseteq 1..added /\ undone' \subseteq 1..added
    BY <1>1, <1>2 DEF TypeOK
  <2>10. member' # NoMember => member'.id <= added
    BY <2>1, <2>2
  <2> QED BY <1>1, <1>2, <2>2, <2>3, <2>4, <2>7, <2>8, <2>9, <2>10, EndedSound, CallStep
<1> QED BY <1>4, <1>5 DEF Activate

\* The status advances only after the request's own code of that member was issued.
LEMMA AdvanceStep ==
  ASSUME IInv, NEW r \in Admins, Advance(r)
  PROVE  IInv'
<1>1. r \in Requests /\ TypeOK
  BY DEF Requests, IInv
<1>2. /\ UNCHANGED <<token, codes, grants, added, minted, crashes, held, deleted, undone>>
      /\ Fault \/ faults' = faults
      /\ req[r].pc = "advance"
  BY DEF Advance, ledger, At
<1> DEFINE k == req[r].code
<1>3. /\ k \in DOMAIN codes /\ codes[k].id = req[r].m.id
      /\ req[r].m \in Member /\ req[r].m.id <= added
  <2>1. req[r].pc \in AdminCalls \ {"idle", "add"}
    BY <1>2 DEF AdminCalls
  <2> QED BY <1>1, <1>2, <2>1 DEF IInv, RequestsSound, Sound
<1>4. PICK pc \in {"pin", "mail", "voidAdvance"} :
        Goto(r, pc) /\ (pc = "pin" => req[r].kind = "self")
  BY DEF Advance
<1>5. /\ pc \in AdminCalls \cup AgentCalls /\ pc \notin MintingCalls
      /\ pc \notin {"add", "issue", "unwrap", "activate", "selfMail"}
  BY DEF AdminCalls, MintingCalls
<1>6. WentOn(r, pc)
  BY <1>1, <1>4, <1>5, GotoMoves
<1>7. /\ OnlyMoves(r) /\ req'[r].pc = pc /\ req'[r].m = req[r].m /\ req'[r].code = k
      /\ req'[r].kind = req[r].kind
  BY <1>6 DEF WentOn
<1>8. Sound(req[r])'
  BY <1>2, <1>3, <1>4, <1>5, <1>7 DEF Sound
<1>9. codes' = codes /\ CodesGrow /\ Len(codes') = Len(codes)
  BY <1>1, <1>2, CodesSame
<1>10. /\ member' \in Member \cup {NoMember}
       /\ member' # NoMember => member'.id <= added
       /\ ActiveWasRedeemed' /\ InvitedHasCode'
  <2>1. CASE member' = member
    <3>1. added <= added' /\ added \in Nat /\ added' \in Nat
      BY <1>1, <1>2, Numbers
    <3> QED BY <1>1, <1>9, <2>1, <3>1, MemberStays DEF TypeOK, IInv, Drawn
  <2>2. CASE member' # member
    <3>1. /\ WritesStatus(r)
          /\ member' = [member EXCEPT !.status = StatusAfter(r),
                                      !.ended = IF Reinvites(r) THEN FALSE ELSE @]
      BY <2>2 DEF Advance
    <3>2. Present(req[r].m.id) /\ StatusAfter(r) = "invited"
      BY <3>1 DEF WritesStatus, AdvanceOK, StatusAfter
    <3>3. member \in Member /\ member.id = req[r].m.id /\ member.id <= added
      BY <1>1, <3>2 DEF Present, TypeOK, IInv, Drawn
    <3>4. FALSE \in BOOLEAN /\ member.ended \in BOOLEAN
      BY <3>3, Zenon DEF Member
    <3>5. (IF Reinvites(r) THEN FALSE ELSE member.ended) \in BOOLEAN
      BY <3>4, Zenon
    <3> DEFINE e == IF Reinvites(r) THEN FALSE ELSE member.ended
    <3>6. member' = [member EXCEPT !.status = "invited", !.ended = e]
      BY <3>1, <3>2
    <3>7. e \in BOOLEAN
      BY <3>5
    <3> HIDE DEF e
    <3>8. member' \in Member /\ member'.id = member.id /\ member'.status = "invited"
      BY <3>3, <3>6, <3>7 DEF Member, MemberStatuses
    <3>9. k \in OfMember(member.id)'
      BY <1>3, <1>9, <3>3, <3>8 DEF OfMember
    <3>10. ActiveWasRedeemed' /\ InvitedHasCode'
      BY <3>8, <3>9 DEF ActiveWasRedeemed, InvitedHasCode
    <3> QED BY <3>3, <3>8, <3>10
  <2> QED BY <2>1, <2>2
<1>11. /\ token' \in Token \cup {NoToken} /\ grants' \subseteq Ids /\ held' \subseteq 1..minted
       /\ deleted' \subseteq 1..added /\ undone' \subseteq 1..added
  BY <1>1, <1>2 DEF TypeOK
<1> QED BY <1>1, <1>2, <1>5, <1>7, <1>8, <1>9, <1>10, <1>11, CallStep

-----------------------------------------------------------------------------
(* Ids, secrets and codes are drawn                                        *)

\* What fits still fits when less is asked for.
LEMMA Fits ==
  \A n, x, y, max \in Nat : y <= x /\ n + x <= max => n + y <= max
OBVIOUS

\* One more code is one less call that may still append one.
LEMMA OneUp ==
  \A n, x, y, max \in Nat : y + 1 <= x /\ n + x <= max => (n + 1) + y <= max
OBVIOUS

\* members.Add draws the id that CanAdd kept free.
LEMMA AddStep ==
  ASSUME IInv, NEW r \in Admins, AddMember(r)
  PROVE  IInv'
<1>1. r \in Requests /\ TypeOK /\ Budget
  BY DEF Requests, IInv
<1>2. /\ token' = token /\ codes' = codes /\ grants' = grants /\ minted' = minted
      /\ crashes' = crashes /\ held' = held /\ deleted' = deleted /\ undone' = undone
      /\ req[r].pc = "add"
  BY DEF AddMember, At
<1>3. CASE Done(r) /\ member' = member /\ added' = added /\ (Fault \/ faults' = faults)
  <2>1. token' \in Token \cup {NoToken} /\ grants' \subseteq Ids
    BY <1>1, <1>2, Here
  <2> QED BY <1>1, <1>2, <1>3, <2>1, EndStep
<1>4. CASE /\ member' = NewMember /\ added' = added + 1 /\ faults' = faults
           /\ req' = [req EXCEPT ![r].m = member', ![r].isNew = TRUE,
                                 ![r].pc = IF req[r].kind = "invite" THEN "grant" ELSE "mint"]
  <2> DEFINE pc == IF req[r].kind = "invite" THEN "grant" ELSE "mint"
             q == [req[r] EXCEPT !.m = member', !.isNew = TRUE, !.pc = pc]
             a == Cardinality(Calling({"add"}))
             m == Cardinality(Calling(MintingCalls))
             i == Cardinality(Calling({"issue"}))
  <2>1. pc \in {"grant", "mint"}
    OBVIOUS
  <2>2. /\ pc \in PlainCalls /\ pc \in MintingCalls /\ pc # "add" /\ pc # "issue"
        /\ pc \in AdminCalls \cup AgentCalls /\ "add" \in MintingCalls
    BY <2>1 DEF PlainCalls, AdminCalls, MintingCalls
  <2>3. added \in Nat /\ added + a <= MaxIds /\ MaxIds \in Nat /\ minted \in Nat
    BY <1>1, Numbers DEF Budget
  <2>4. req \in [Requests -> Request] /\ req[r] \in Request
    BY <1>1 DEF TypeOK
  <2>5. a \in Nat /\ a >= 1
    <3>1. IsFiniteSet(Calling({"add"})) /\ r \in Calling({"add"})
      BY <1>2, OnboardingAssumption, FS_Subset DEF Calling
    <3>2. Cardinality(Calling({"add"})) \in Nat /\ Cardinality(Calling({"add"})) # 0
      BY <3>1, FS_CardinalityType, FS_EmptySet
    <3> QED BY <3>2
  <2>6. added + 1 \in 1..MaxIds
    BY <2>3, <2>5
  <2>7. member' \in Member /\ member'.id = added + 1 /\ member'.status = "registered"
    <3>1. FALSE \in BOOLEAN
      BY Zenon
    <3>2. added + 1 \in Ids
      BY <2>6 DEF Ids
    <3> QED BY <1>4, <3>1, <3>2 DEF NewMember, Member, MemberStatuses
  <2>8. q \in Request /\ q.pc = pc /\ q.m = member'
    <3>1. TRUE \in BOOLEAN
      BY Zenon
    <3> HIDE DEF pc
    <3> QED BY <2>2, <2>4, <2>7, <3>1 DEF Request
  <2>9. req' = [req EXCEPT ![r] = q]
    BY <1>1, <1>4, <2>4
  <2> HIDE DEF q, pc
  <2>10. OnlyMoves(r) /\ req'[r] = q
    BY <1>1, <2>4, <2>8, <2>9 DEF OnlyMoves
  <2>11. added' \in Nat /\ added <= added' /\ member'.id <= added' /\ minted' \in Nat /\ minted <= minted'
    BY <1>2, <1>4, <2>3, <2>7
  <2>12. Sound(req[r])'
    <3>1. pc \notin {"issue", "advance", "mail", "pin", "selfMail", "voidAdvance", "voidMail",
                     "unwrap", "activate"}
      BY <2>1
    <3> QED BY <2>7, <2>8, <2>10, <2>11, <3>1 DEF Sound
  <2>13. CodesGrow
    BY <1>1, <1>2, CodesSame
  <2>14. RequestsSound'
    BY <1>1, <2>10, <2>11, <2>12, <2>13, OthersSound
  <2>15. Budget'
    <3>1. a \in Nat /\ a' \in Nat /\ a' + 1 <= a
      BY <1>1, <1>2, <2>2, <2>8, <2>10, CallingBound
    <3>2. m \in Nat /\ m' \in Nat /\ m' <= m
      BY <1>1, <1>2, <2>2, <2>8, <2>10, CallingBound
    <3>3. i \in Nat /\ i' \in Nat /\ i' <= i
      BY <1>1, <2>2, <2>8, <2>10, CallingBound
    <3>4. added + a <= MaxIds /\ minted + m <= MaxSecrets /\ Len(codes) + i <= minted
      BY <1>1 DEF Budget
    <3>5. Len(codes) \in Nat /\ MaxSecrets \in Nat
      BY <1>1, Numbers
    <3> HIDE DEF a, m, i
    <3>6. added' + a' <= MaxIds
      BY <1>4, <2>3, <3>1, <3>4
    <3>7. minted + m' <= MaxSecrets
      <4>1. minted \in Nat /\ minted + m <= MaxSecrets
        BY <2>3, <3>4
      <4> QED BY <3>2, <3>5, <4>1, Fits
    <3>8. Len(codes) + i' <= minted
      <4>1. minted \in Nat /\ Len(codes) + i <= minted
        BY <2>3, <3>4
      <4> QED BY <3>3, <3>5, <4>1
    <3> QED BY <1>2, <3>6, <3>7, <3>8 DEF Budget, a, m, i
  <2>16. Drawn' /\ ActiveWasRedeemed' /\ InvitedHasCode'
    BY <1>2, <2>7, <2>11 DEF IInv, Drawn, ActiveWasRedeemed, InvitedHasCode
  <2>17. TypeOK'
    <3>1. added' \in 0..MaxIds
      BY <1>4, <2>3, <2>6
    <3>2. 1..added \subseteq 1..added'
      BY <1>4, <2>3
    <3>3. deleted' \subseteq 1..added' /\ undone' \subseteq 1..added'
      BY <1>1, <1>2, <3>2 DEF TypeOK
    <3>4. req' \in [Requests -> Request]
      BY <2>10 DEF OnlyMoves
    <3> QED BY <1>1, <1>2, <1>4, <2>7, <3>1, <3>3, <3>4 DEF TypeOK
  <2> QED BY <2>14, <2>15, <2>16, <2>17 DEF IInv
<1> QED BY <1>3, <1>4 DEF AddMember

\* A new secret is one that CanMint kept free; the request that minted it is the only
\* one that will issue a code for it.
LEMMA MintStep ==
  ASSUME IInv, NEW r \in Admins, Mint(r)
  PROVE  IInv'
<1>1. r \in Requests /\ TypeOK /\ Budget
  BY DEF Requests, IInv
<1>2. /\ member' = member /\ codes' = codes /\ grants' = grants /\ added' = added
      /\ crashes' = crashes /\ held' = held /\ deleted' = deleted /\ undone' = undone
      /\ req[r].pc = "mint"
  BY DEF Mint, At
<1>3. "mint" \in AdminCalls \ {"idle", "add"} /\ "mint" \in MintingCalls /\ "issue" \notin MintingCalls
  BY DEF AdminCalls, MintingCalls
<1>4. req[r].m \in Member /\ req[r].m.id \in Ids /\ req[r].m.id <= added
  BY <1>1, <1>2, <1>3, Here
<1>5. CASE Fail(r) /\ token' = token /\ minted' = minted /\ (Fault \/ faults' = faults)
  <2>1. token' \in Token \cup {NoToken} /\ grants' \subseteq Ids
    BY <1>1, <1>2, <1>5, Here
  <2> QED BY <1>1, <1>2, <1>3, <1>5, <2>1, FailStep
<1>6. CASE /\ token' = [secret |-> minted + 1, for |-> req[r].m.id, activated |-> FALSE]
           /\ minted' = minted + 1 /\ faults' = faults
           /\ req' = [req EXCEPT ![r].pc = "issue", ![r].secret = minted + 1]
  <2> DEFINE q == [req[r] EXCEPT !.pc = "issue", !.secret = minted + 1]
             a == Cardinality(Calling({"add"}))
             m == Cardinality(Calling(MintingCalls))
             i == Cardinality(Calling({"issue"}))
  <2>1. /\ minted \in Nat /\ minted + m <= MaxSecrets /\ MaxSecrets \in Nat /\ added \in Nat
        /\ MaxIds \in Nat /\ Len(codes) \in Nat
    BY <1>1, Numbers DEF Budget
  <2>2. req \in [Requests -> Request] /\ req[r] \in Request
    BY <1>1 DEF TypeOK
  <2>3. m \in Nat /\ m >= 1
    <3>1. IsFiniteSet(Calling(MintingCalls)) /\ r \in Calling(MintingCalls)
      BY <1>2, <1>3, OnboardingAssumption, FS_Subset DEF Calling
    <3>2. Cardinality(Calling(MintingCalls)) \in Nat /\ Cardinality(Calling(MintingCalls)) # 0
      BY <3>1, FS_CardinalityType, FS_EmptySet
    <3> QED BY <3>2
  <2>4. minted + 1 \in 1..MaxSecrets
    BY <2>1, <2>3
  <2>5. minted + 1 \in Secrets
    BY <2>4 DEF Secrets
  <2>6. token' \in Token
    <3>1. FALSE \in BOOLEAN
      BY Zenon
    <3> QED BY <1>4, <1>6, <2>5, <3>1 DEF Token
  <2>7. q \in Request /\ q.pc = "issue" /\ q.m = req[r].m /\ q.secret = minted + 1
    <3>1. "issue" \in AdminCalls
      BY DEF AdminCalls
    <3> QED BY <2>2, <2>5, <3>1 DEF Request
  <2>8. req' = [req EXCEPT ![r] = q]
    BY <1>1, <1>6, <2>2
  <2> HIDE DEF q
  <2>9. OnlyMoves(r) /\ req'[r] = q
    BY <1>1, <2>2, <2>7, <2>8 DEF OnlyMoves
  <2>10. /\ minted' \in Nat /\ minted <= minted' /\ minted + 1 <= minted'
         /\ added' \in Nat /\ added <= added'
    BY <1>2, <1>6, <2>1
  <2>11. Sound(req[r])'
    BY <1>2, <1>4, <2>5, <2>7, <2>9, <2>10 DEF Sound
  <2>12. CodesGrow
    BY <1>1, <1>2, CodesSame
  <2>13. RequestsSound'
    BY <1>1, <2>9, <2>10, <2>11, <2>12, OthersSound
  <2>14. Budget'
    <3>1. a \in Nat /\ a' \in Nat /\ a' <= a
      BY <1>1, <2>7, <2>9, CallingBound
    <3>2. m \in Nat /\ m' \in Nat /\ m' + 1 <= m
      BY <1>1, <1>2, <1>3, <2>7, <2>9, CallingBound
    <3>3. i \in Nat /\ i' \in Nat /\ i' <= i + 1
      BY <1>1, <2>9, CallingBound
    <3>4. added + a <= MaxIds /\ minted + m <= MaxSecrets /\ Len(codes) + i <= minted
      BY <1>1 DEF Budget
    <3> HIDE DEF a, m, i
    <3>5. added + a' <= MaxIds
      <4>1. added \in Nat /\ MaxIds \in Nat /\ added + a <= MaxIds
        BY <2>1, <3>4
      <4> QED BY <3>1, <4>1, Fits
    <3>6. minted' + m' <= MaxSecrets
      BY <1>6, <2>1, <3>2, <3>4
    <3>7. Len(codes) + i' <= minted'
      BY <1>6, <2>1, <3>3, <3>4
    <3> QED BY <1>2, <3>5, <3>6, <3>7 DEF Budget, a, m, i
  <2>15. Drawn'
    <3>1. ASSUME NEW k \in DOMAIN codes PROVE codes[k].secret <= minted'
      <4>1. codes[k].secret \in Secrets /\ codes[k].secret <= minted
        BY <1>1, CodeFacts DEF Code, IInv, Drawn
      <4>2. codes[k].secret \in Nat
        BY <2>1, <4>1 DEF Secrets
      <4> QED BY <2>1, <2>10, <4>1, <4>2
    <3> QED BY <1>2, <3>1 DEF IInv, Drawn
  <2>16. ActiveWasRedeemed' /\ InvitedHasCode'
    BY <1>2 DEF IInv, ActiveWasRedeemed, InvitedHasCode, OfMember
  <2>17. TypeOK'
    <3>1. minted' \in 0..MaxSecrets
      BY <1>6, <2>1, <2>4
    <3>2. 1..minted \subseteq 1..minted'
      BY <1>6, <2>1
    <3>3. held' \subseteq 1..minted'
      BY <1>1, <1>2, <3>2 DEF TypeOK
    <3>4. codes' \in Seq(Code) /\ Len(codes') <= minted'
      <4>1. codes \in Seq(Code) /\ Len(codes) <= minted
        BY <1>1, Numbers
      <4>2. Len(codes) <= minted'
        BY <2>1, <2>10, <4>1
      <4> QED BY <1>2, <4>1, <4>2
    <3>5. req' \in [Requests -> Request]
      BY <2>9 DEF OnlyMoves
    <3> QED BY <1>1, <1>2, <1>6, <2>6, <3>1, <3>3, <3>4, <3>5 DEF TypeOK
  <2> QED BY <2>13, <2>14, <2>15, <2>16, <2>17 DEF IInv
<1> QED BY <1>5, <1>6 DEF Mint

\* invites.Issue appends the code that wraps the secret the request minted.
LEMMA IssueStep ==
  ASSUME IInv, NEW r \in Admins, Issue(r)
  PROVE  IInv'
<1>1. r \in Requests /\ TypeOK /\ Budget
  BY DEF Requests, IInv
<1>2. /\ member' = member /\ token' = token /\ grants' = grants /\ added' = added
      /\ minted' = minted /\ crashes' = crashes /\ held' = held /\ deleted' = deleted
      /\ undone' = undone /\ req[r].pc = "issue"
  BY DEF Issue, ledger, At
<1>3. /\ "issue" \in AdminCalls \ {"idle", "add"}
      /\ "unmint" \in PlainCalls /\ "unmint" \notin MintingCalls
      /\ "advance" \in AdminCalls \cup AgentCalls /\ "advance" \notin MintingCalls
  BY DEF AdminCalls, PlainCalls, MintingCalls
<1>4. /\ req[r].m \in Member /\ req[r].m.id \in Ids /\ req[r].m.id <= added
      /\ req[r].secret \in Secrets /\ req[r].secret <= minted
  BY <1>1, <1>2, <1>3, Here DEF IInv, RequestsSound, Sound
<1>5. token' \in Token \cup {NoToken} /\ grants' \subseteq Ids
  BY <1>1, <1>2, Here
<1>6. CASE Fault /\ codes' = codes /\ Fail(r)
  BY <1>1, <1>2, <1>3, <1>5, <1>6, FailStep
<1>7. CASE Fault /\ codes' = codes /\ Goto(r, "unmint")
  BY <1>1, <1>2, <1>3, <1>5, <1>7, GoStep
<1>8. CASE /\ codes' = Enveloped(r) /\ faults' = faults
           /\ req' = [req EXCEPT ![r].pc = "advance", ![r].code = Len(codes')]
  <2> DEFINE c == [id |-> req[r].m.id, secret |-> req[r].secret, out |-> FALSE,
                   by |-> "none", outcome |-> "open", status |-> "pending"]
             n == Len(codes) + 1
             q == [req[r] EXCEPT !.pc = "advance", !.code = n]
             a == Cardinality(Calling({"add"}))
             m == Cardinality(Calling(MintingCalls))
             i == Cardinality(Calling({"issue"}))
  <2>1. c \in Code /\ c.id = req[r].m.id /\ c.secret = req[r].secret
    <3>1. FALSE \in BOOLEAN
      BY Zenon
    <3>2. "none" \in Kinds
      BY DEF Kinds
    <3> QED BY <1>4, <3>1, <3>2 DEF Code
  <2>2. codes' = Append(codes, c)
    BY <1>8 DEF Enveloped
  <2> HIDE DEF c
  <2>3. codes \in Seq(Code) /\ Len(codes) \in Nat /\ DOMAIN codes = 1..Len(codes)
    BY <1>1, Numbers
  <2>4. /\ codes' \in Seq(Code) /\ Len(codes') = n /\ DOMAIN codes' = 1..n
        /\ codes'[n] = c /\ \A k \in 1..Len(codes) : codes'[k] = codes[k]
    BY <2>1, <2>2, <2>3
  <2>5. /\ minted \in Nat /\ MaxSecrets \in Nat /\ minted <= MaxSecrets
        /\ added \in Nat /\ MaxIds \in Nat
    BY <1>1, Numbers
  <2>6. i \in Nat /\ i >= 1
    <3>1. IsFiniteSet(Calling({"issue"})) /\ r \in Calling({"issue"})
      BY <1>2, OnboardingAssumption, FS_Subset DEF Calling
    <3>2. Cardinality(Calling({"issue"})) \in Nat /\ Cardinality(Calling({"issue"})) # 0
      BY <3>1, FS_CardinalityType, FS_EmptySet
    <3> QED BY <3>2
  <2>7. Len(codes) + i <= minted
    BY <1>1 DEF Budget
  <2>8. n <= minted /\ n \in 1..MaxSecrets /\ n \in Nat
    BY <2>3, <2>5, <2>6, <2>7
  <2>9. n \in Secrets
    BY <2>8 DEF Secrets
  <2>10. req \in [Requests -> Request] /\ req[r] \in Request
    BY <1>1 DEF TypeOK
  <2>11. req' = [req EXCEPT ![r] = q]
    BY <1>1, <1>8, <2>4, <2>10
  <2>12. CodesGrow
    <3>1. \A k \in 1..Len(codes) : k \in 1..n
      BY <2>3
    <3>2. Len(codes) <= n
      BY <2>3
    <3> HIDE DEF n
    <3> QED BY <2>3, <2>4, <3>1, <3>2 DEF CodesGrow
  <2>13. n \in DOMAIN codes'
    BY <2>3, <2>4
  <2> HIDE DEF n
  <2>14. q \in Request /\ q.pc = "advance" /\ q.m = req[r].m /\ q.code = n /\ q.kind = req[r].kind
    BY <1>3, <2>9, <2>10 DEF Request
  <2> HIDE DEF q
  <2>15. OnlyMoves(r) /\ req'[r] = q
    BY <1>1, <2>10, <2>11, <2>14 DEF OnlyMoves
  <2>16. added' \in Nat /\ added <= added' /\ minted' \in Nat /\ minted <= minted'
    BY <1>2, <2>5
  <2>17. Sound(req[r])'
    BY <1>2, <1>4, <2>1, <2>4, <2>13, <2>14, <2>15 DEF Sound
  <2>18. RequestsSound'
    BY <1>1, <2>12, <2>15, <2>16, <2>17, OthersSound
  <2>19. Budget'
    <3>1. a \in Nat /\ a' \in Nat /\ a' <= a
      BY <1>1, <2>14, <2>15, CallingBound
    <3>2. m \in Nat /\ m' \in Nat /\ m' <= m
      BY <1>1, <1>3, <2>14, <2>15, CallingBound
    <3>3. i \in Nat /\ i' \in Nat /\ i' + 1 <= i
      BY <1>1, <1>2, <2>14, <2>15, CallingBound
    <3>4. added + a <= MaxIds /\ minted + m <= MaxSecrets /\ Len(codes) + i <= minted
      BY <1>1 DEF Budget
    <3> HIDE DEF a, m, i
    <3>5. added + a' <= MaxIds
      BY <2>5, <3>1, <3>4, Fits
    <3>6. minted + m' <= MaxSecrets
      BY <2>5, <3>2, <3>4, Fits
    <3>7. Len(codes)' + i' <= minted
      <4>1. Len(codes)' = Len(codes) + 1
        BY <2>4 DEF n
      <4>2. /\ Len(codes) \in Nat /\ minted \in Nat /\ i \in Nat /\ i' \in Nat
            /\ i' + 1 <= i /\ Len(codes) + i <= minted
        BY <2>3, <2>5, <3>3, <3>4
      <4> QED BY <4>1, <4>2, OneUp
    <3> QED BY <1>2, <3>5, <3>6, <3>7 DEF Budget, a, m, i
  <2>20. Drawn'
    <3>1. ASSUME NEW k \in DOMAIN codes' PROVE codes'[k].secret <= minted
      <4>1. k \in 1..Len(codes) \/ k = n
        BY <2>3, <2>4 DEF n
      <4>2. CASE k \in 1..Len(codes)
        BY <2>3, <2>4, <4>2 DEF IInv, Drawn
      <4>3. CASE k = n
        BY <1>4, <2>1, <2>4, <4>3
      <4> QED BY <4>1, <4>2, <4>3
    <3> QED BY <1>2, <3>1 DEF IInv, Drawn
  <2>21. ActiveWasRedeemed' /\ InvitedHasCode'
    BY <1>2, <2>5, <2>12, <2>16, MemberStays
  <2>22. TypeOK'
    <3>1. req' \in [Requests -> Request]
      BY <2>15 DEF OnlyMoves
    <3>2. codes' \in Seq(Code) /\ Len(codes') <= minted'
      BY <1>2, <2>4, <2>8
    <3> QED BY <1>1, <1>2, <1>8, <3>1, <3>2 DEF TypeOK
  <2> QED BY <2>18, <2>19, <2>20, <2>21, <2>22 DEF IInv
<1> QED BY <1>6, <1>7, <1>8 DEF Issue

-----------------------------------------------------------------------------
(* Time and crashes                                                        *)

\* A code that ages out was not redeemed and is not redeemed.
LEMMA AgeStep ==
  ASSUME IInv, NEW k \in DOMAIN codes, Age(k)
  PROVE  IInv'
<1>1. TypeOK
  BY DEF IInv
<1>2. /\ member' = member /\ token' = token /\ grants' = grants /\ req' = req /\ added' = added
      /\ minted' = minted /\ crashes' = crashes /\ faults' = faults /\ held' = held
      /\ deleted' = deleted /\ undone' = undone
      /\ codes[k].status = "pending" /\ codes' = [codes EXCEPT ![k].status = "aged"]
  BY DEF Age, ledger
<1> DEFINE c == [codes[k] EXCEPT !.status = "aged"]
<1>3. codes[k] \in Code /\ codes \in Seq(Code)
  BY <1>1, CodeFacts, Numbers
<1>4. c \in Code /\ c.id = codes[k].id /\ c.secret = codes[k].secret
  BY <1>3 DEF Code
<1>5. codes' = [codes EXCEPT ![k] = c]
  BY <1>2, <1>3
<1> HIDE DEF c
<1>6. CodesGrow /\ Len(codes') = Len(codes) /\ DOMAIN codes' = DOMAIN codes
  BY <1>1, <1>2, <1>4, <1>5, OneCodeWritten
<1>7. /\ added \in Nat /\ minted \in Nat /\ added' \in Nat /\ minted' \in Nat
      /\ added <= added' /\ minted <= minted'
  BY <1>1, <1>2, Numbers
<1>8. RequestsSound'
  BY <1>2, <1>6, <1>7, SoundStays DEF IInv, RequestsSound
<1>9. Budget'
  BY <1>2, <1>6 DEF IInv, Budget, Calling
<1>10. Drawn'
  BY <1>2, <1>6 DEF IInv, Drawn, CodesGrow
<1>11. ActiveWasRedeemed' /\ InvitedHasCode'
  BY <1>2, <1>6, <1>7, MemberStays
<1>12. TypeOK'
  <2>1. codes' \in Seq(Code) /\ Len(codes') <= minted'
    BY <1>1, <1>2, <1>6 DEF CodesGrow, TypeOK
  <2> QED BY <1>1, <1>2, <2>1 DEF TypeOK
<1> QED BY <1>8, <1>9, <1>10, <1>11, <1>12 DEF IInv

\* A crash forgets the requests; rows and what they justify stay.
LEMMA CrashStep ==
  ASSUME IInv, Crash
  PROVE  IInv'
<1>1. TypeOK /\ Budget
  BY DEF IInv
<1>2. /\ member' = member /\ token' = token /\ grants' = grants /\ added' = added
      /\ minted' = minted /\ faults' = faults /\ held' = held
      /\ deleted' = deleted /\ undone' = undone
      /\ req' = [r \in Requests |-> Idle]
      /\ crashes < MaxCrashes /\ crashes' = crashes + 1
  BY DEF Crash
<1>3. CodesGrow /\ Len(codes') = Len(codes) /\ DOMAIN codes' = DOMAIN codes
  <2>1. codes' = [k \in DOMAIN codes |-> codes'[k]]
    BY DEF Crash
  <2>2. ASSUME NEW k \in DOMAIN codes
        PROVE  /\ codes'[k] \in Code
               /\ codes'[k].id = codes[k].id
               /\ codes'[k].secret = codes[k].secret
               /\ codes[k].status = "consumed" => codes'[k].status = "consumed"
    <3>1. codes[k] \in Code
      BY <1>1, CodeFacts
    <3>2. \/ codes'[k] = codes[k]
          \/ codes'[k] = [codes[k] EXCEPT !.outcome = "crashed"]
      BY DEF Crash
    <3>3. CASE codes'[k] = [codes[k] EXCEPT !.outcome = "crashed"]
      BY <3>1, <3>3 DEF Code
    <3> QED BY <3>1, <3>2, <3>3
  <2> QED BY <1>1, <2>1, <2>2, CodesRewritten
<1>4. Idle \in Request /\ Idle.pc = "idle"
  BY IdleSound
<1>5. RequestsSound'
  <2>1. \A r \in Requests : req'[r] = Idle
    BY <1>2
  <2>2. \A r \in Requests : Sound(req[r])'
    BY <2>1, EndedSound
  <2> QED BY <2>2 DEF RequestsSound
<1>6. Budget'
  <2>1. ASSUME NEW P, "idle" \notin P
        PROVE  Cardinality(Calling(P))' = 0 /\ Cardinality(Calling(P)) \in Nat
    <3>1. Calling(P)' = {}
      BY <1>2, <1>4, <2>1 DEF Calling, Requests
    <3>2. IsFiniteSet(Calling(P))
      BY OnboardingAssumption, FS_Subset DEF Calling
    <3> QED BY <3>1, <3>2, FS_EmptySet, FS_CardinalityType
  <2>2. "idle" \notin MintingCalls
    BY DEF MintingCalls
  <2> DEFINE a == Cardinality(Calling({"add"}))
             m == Cardinality(Calling(MintingCalls))
             i == Cardinality(Calling({"issue"}))
  <2>3. a' = 0 /\ m' = 0 /\ i' = 0
    BY <2>1, <2>2
  <2> HIDE DEF a, m, i
  <2>4. added + a' <= MaxIds /\ minted + m' <= MaxSecrets /\ Len(codes) + i' <= minted
    BY <1>1, <2>3, Numbers
  <2> QED BY <1>2, <1>3, <2>4 DEF Budget, a, m, i
<1>7. Drawn'
  BY <1>2, <1>3 DEF IInv, Drawn, CodesGrow
<1>8. ActiveWasRedeemed' /\ InvitedHasCode'
  <2>1. added \in Nat /\ added' \in Nat /\ added <= added'
    BY <1>1, <1>2, Numbers
  <2> QED BY <1>2, <1>3, <2>1, MemberStays
<1>9. TypeOK'
  <2>1. codes' \in Seq(Code) /\ Len(codes') <= minted'
    BY <1>1, <1>2, <1>3 DEF CodesGrow, TypeOK
  <2>2. crashes' \in 0..MaxCrashes
    <3>1. crashes \in 0..MaxCrashes /\ MaxCrashes \in Nat
      BY <1>1, OnboardingAssumption DEF TypeOK
    <3> QED BY <1>2, <3>1
  <2>3. req' \in [Requests -> Request]
    BY <1>2, <1>4
  <2> QED BY <1>1, <1>2, <2>1, <2>2, <2>3 DEF TypeOK
<1> QED BY <1>5, <1>6, <1>7, <1>8, <1>9 DEF IInv

-----------------------------------------------------------------------------
(* Theorems                                                                *)

\* Nobody is registered at first.
LEMMA InitIInv == Init => IInv
<1> SUFFICES ASSUME Init PROVE IInv
  OBVIOUS
<1>1. /\ member = NoMember /\ token = NoToken /\ codes = <<>> /\ grants = {}
      /\ req = [r \in Requests |-> Idle]
      /\ added = 0 /\ minted = 0 /\ faults = 0 /\ crashes = 0
      /\ held = {} /\ deleted = {} /\ undone = {}
  BY DEF Init
<1>2. Idle \in Request /\ Idle.pc = "idle" /\ Sound(Idle)
  BY IdleSound
<1>3. codes \in Seq(Code) /\ Len(codes) = 0 /\ DOMAIN codes = {}
  BY <1>1
<1>4. TypeOK
  <2>1. req \in [Requests -> Request]
    BY <1>1, <1>2
  <2>2. added \in 0..MaxIds /\ minted \in 0..MaxSecrets /\ faults \in 0..MaxFaults
        /\ crashes \in 0..MaxCrashes
    BY <1>1, OnboardingAssumption
  <2>3. Len(codes) <= minted
    BY <1>1, <1>3
  <2> QED BY <1>1, <1>3, <2>1, <2>2, <2>3 DEF TypeOK
<1>5. Budget
  <2>1. \A P : "idle" \notin P => Calling(P) = {}
    BY <1>1, <1>2 DEF Calling, Requests
  <2>2. "idle" \notin MintingCalls
    BY DEF MintingCalls
  <2>3. /\ Cardinality(Calling({"add"})) = 0 /\ Cardinality(Calling(MintingCalls)) = 0
        /\ Cardinality(Calling({"issue"})) = 0
    BY <2>1, <2>2, FS_EmptySet
  <2> QED BY <1>1, <1>3, <2>3, OnboardingAssumption DEF Budget
<1>6. RequestsSound
  BY <1>1, <1>2 DEF RequestsSound
<1>7. Drawn /\ ActiveWasRedeemed /\ InvitedHasCode
  BY <1>1, <1>3 DEF Drawn, ActiveWasRedeemed, InvitedHasCode, NoMember
<1> QED BY <1>4, <1>5, <1>6, <1>7 DEF IInv

\* Every step of every handler keeps the invariant.
LEMMA IInvStep == IInv /\ [Next]_vars => IInv'
<1> SUFFICES ASSUME IInv, [Next]_vars PROVE IInv'
  OBVIOUS
<1>1. ASSUME NEW r \in Admins, AdminStart(r) \/ AdminStep(r) PROVE IInv'
  BY <1>1, StartStep, AddStep, AdvanceStep, RemoveStep, DecideStep, GrantStep, PrepareStep,
     RevokeStep, MintStep, IssueStep, AnnounceStep, VoidAllStep DEF AdminStep
<1>2. ASSUME NEW a \in Agents, AgentStep(a) PROVE IInv'
  BY <1>2, AgentStartStep, UnwrapStep, ActivateStep, MarkStep DEF AgentStep
<1>3. ASSUME NEW k \in DOMAIN codes, Age(k) PROVE IInv'
  BY <1>3, AgeStep
<1>4. CASE UNCHANGED vars
  <2>1. /\ member' = member /\ token' = token /\ codes' = codes /\ grants' = grants /\ req' = req
        /\ added' = added /\ minted' = minted /\ crashes' = crashes /\ faults' = faults
        /\ held' = held /\ deleted' = deleted /\ undone' = undone
    BY <1>4 DEF vars, stores, ledger
  <2> QED BY <2>1 DEF IInv, TypeOK, Budget, Calling, RequestsSound, Sound, Drawn,
                      ActiveWasRedeemed, InvitedHasCode, OfMember
<1> QED BY <1>1, <1>2, <1>3, <1>4, CrashStep DEF Next

\* The inductive invariant holds in every reachable state.
THEOREM Inductive == Spec => []IInv
BY InitIInv, IInvStep, PTL DEF Spec

\* Every variable keeps its type; no request ever issues a code for a secret it did not
\* mint, so there are never more codes than secrets.
THEOREM TypeCorrect == Spec => []TypeOK
<1>1. IInv => TypeOK
  BY DEF IInv
<1> QED BY Inductive, <1>1, PTL

\* Nobody is active who did not redeem a code of their own member id, whatever handlers,
\* undo steps, refusals and crashes interleave (grpc.go Unwrap, members.Activate).
THEOREM ActivationIsEarned == Spec => []ActiveWasRedeemed
<1>1. IInv => ActiveWasRedeemed
  BY DEF IInv
<1> QED BY Inductive, <1>1, PTL

\* A member past registered has a persisted invite of its own (MarkInvited, Reinvite: the
\* code is issued before the status advances).
THEOREM StatusFollowsInvite == Spec => []InvitedHasCode
<1>1. IInv => InvitedHasCode
  BY DEF IInv
<1> QED BY Inductive, <1>1, PTL

-----------------------------------------------------------------------------
(* One console request at a time: the invariant                            *)

\* The console serves its requests one after the other.
OneAdmin == \A r, s \in Admins : r = s

\* A request that has looked its member up, or added it.
Busy == AdminCalls \ {"idle", "add"}

\* The calls of the delete cascade after its first.
CascadeCalls == {"delGrants", "delCodes", "delMember"}

\* No code of this member can be redeemed.
NoneOpen(id) == \A k \in OfMember(id) : codes[k].status # "pending"

\* Nothing in the stores refers to this member any more.
Left(id) == ~Present(id) /\ id \notin grants /\ NoneOpen(id)

\* A request works on the member that is registered.
AtWork == \A r \in Admins : req[r].pc \in Busy => Present(req[r].m.id)

\* What the delete cascade has cleared stays cleared.
CascadeSound ==
  \A r \in Admins :
    /\ req[r].pc \in CascadeCalls => token = NoToken
    /\ req[r].pc \in {"delCodes", "delMember"} => req[r].m.id \notin grants
    /\ req[r].pc = "delMember" => NoneOpen(req[r].m.id)

\* Memberships and codes are those of members that were added.
IdsDrawn == grants \subseteq 1..added /\ \A k \in DOMAIN codes : codes[k].id \in 1..added

DeletedLeft == \A id \in deleted : Left(id) /\ token.for # id

SerialInv == AtWork /\ CascadeSound /\ IdsDrawn /\ DeletedLeft

-----------------------------------------------------------------------------
(* Steps that only take away                                               *)

\* Request r goes on with its member, or is over.
Continues(r) ==
  /\ OnlyMoves(r)
  /\ req'[r].pc \in Busy => req[r].pc \in Busy /\ req'[r].m = req[r].m

\* The rows stay, and none becomes redeemable.
CodesEase ==
  /\ DOMAIN codes' = DOMAIN codes
  /\ \A k \in DOMAIN codes : /\ codes'[k].id = codes[k].id
                             /\ codes'[k].status = "pending" => codes[k].status = "pending"

\* No member is added or removed, and no membership, redeemable code or credential given.
Eases ==
  /\ member = NoMember => member' = NoMember
  /\ member # NoMember => member' # NoMember /\ member'.id = member.id
  /\ grants' \subseteq grants
  /\ CodesEase
  /\ token' = NoToken \/ (token # NoToken /\ token'.for = token.for)
  /\ added' = added /\ deleted' = deleted

\* A step that only takes away keeps the serial invariant, however many requests run.
LEMMA EasesKeeps ==
  ASSUME IInv, SerialInv, NEW r \in Requests, Eases, Continues(r),
         req'[r].pc \notin CascadeCalls
  PROVE  SerialInv'
<1>1. \A id : (Present(id) => Present(id)') /\ (~Present(id) => ~Present(id)')
  BY DEF Eases, Present
<1>2. \A id : NoneOpen(id) => NoneOpen(id)'
  BY DEF Eases, CodesEase, NoneOpen, OfMember
<1>3. \A x \in Admins : x # r => req'[x] = req[x]
  BY DEF Continues, OnlyMoves, Requests
<1>4. AtWork'
  BY <1>1, <1>3 DEF SerialInv, AtWork, Continues
<1>5. CascadeSound'
  <2>1. SUFFICES ASSUME NEW x \in Admins, req'[x].pc \in CascadeCalls
                 PROVE  /\ token' = NoToken
                        /\ req'[x].pc \in {"delCodes", "delMember"} => req'[x].m.id \notin grants'
                        /\ req'[x].pc = "delMember" => NoneOpen(req[x].m.id)'
    BY DEF CascadeSound, CascadeCalls
  <2>2. req'[x] = req[x]
    BY <1>3, <2>1
  <2> QED BY <1>2, <2>1, <2>2 DEF SerialInv, CascadeSound, Eases, CascadeCalls
<1>6. IdsDrawn'
  BY DEF SerialInv, IdsDrawn, Eases, CodesEase
<1>7. DeletedLeft'
  <2>1. NoToken.for = 0 /\ \A id \in deleted : id # 0
    BY DEF NoToken, IInv, TypeOK
  <2>2. \A id \in deleted : token'.for # id
    BY <2>1 DEF SerialInv, DeletedLeft, Eases
  <2>3. ASSUME NEW id \in deleted PROVE Left(id)'
    <3>1. Left(id)
      BY DEF SerialInv, DeletedLeft
    <3> QED BY <1>1, <1>2, <3>1 DEF Left, Eases
  <2>4. deleted' = deleted
    BY DEF Eases
  <2> QED BY <2>2, <2>3, <2>4 DEF DeletedLeft
<1> QED BY <1>4, <1>5, <1>6, <1>7 DEF SerialInv

\* How the three ways to move a request continue it.
LEMMA MovesContinue ==
  ASSUME IInv, NEW r \in Requests
  PROVE  /\ Done(r) => Continues(r) /\ req'[r] = Idle /\ req'[r].pc \notin Busy
         /\ req[r].pc \in Busy /\ Fail(r) =>
              Continues(r) /\ req'[r].pc \in {"idle", "undoGrant", "undoMember"}
         /\ \A pc \in Busy : req[r].pc \in Busy /\ Goto(r, pc) => Continues(r) /\ req'[r].pc = pc
<1>1. TypeOK /\ Idle.pc = "idle"
  BY IdleSound DEF IInv
<1>2. Done(r) => Continues(r) /\ req'[r] = Idle /\ req'[r].pc \notin Busy
  BY <1>1, DoneMoves DEF Continues, Busy
<1>3. ASSUME NEW pc, WentOn(r, pc), req[r].pc \in Busy PROVE Continues(r) /\ req'[r].pc = pc
  BY <1>3 DEF WentOn, Continues
<1>4. ASSUME NEW pc \in Busy, req[r].pc \in Busy, Goto(r, pc) PROVE Continues(r) /\ req'[r].pc = pc
  <2>1. pc \in AdminCalls \cup AgentCalls
    BY DEF Busy
  <2> QED BY <1>1, <1>3, <1>4, <2>1, GotoMoves
<1>5. ASSUME req[r].pc \in Busy, Fail(r)
      PROVE  Continues(r) /\ req'[r].pc \in {"idle", "undoGrant", "undoMember"}
  <2>1. CASE OnlyMoves(r) /\ req'[r] = Idle
    BY <1>1, <2>1 DEF Continues, Busy
  <2>2. CASE WentOn(r, "undoGrant") \/ WentOn(r, "undoMember")
    BY <1>3, <1>5, <2>2
  <2> QED BY <1>1, <1>5, <2>1, <2>2, FailMoves
<1> QED BY <1>2, <1>4, <1>5

\* Which calls are which.
LEMMA CallNames ==
  /\ {"conflict", "grant", "needsToken", "needsCode", "wasOnline", "rotated", "selfRevoke",
      "mint", "issue", "unmint", "advance", "mail", "pin", "selfMail", "voidAdvance", "voidMail",
      "undoGrant", "undoMember", "voidAll", "delToken", "delGrants", "delCodes", "delMember",
      "check", "endSession", "stampEnd"} \subseteq Busy
  /\ {"idle", "add", "unwrap", "activate", "mark"} \cap Busy = {}
  /\ CascadeCalls \subseteq Busy
BY DEF Busy, AdminCalls, MintingCalls, CascadeCalls

\* A call that reads the stores and ends its request or goes on.
LEMMA QuietEases ==
  ASSUME IInv, SerialInv, NEW r \in Requests, Continues(r), req'[r].pc \notin CascadeCalls,
         UNCHANGED <<member, token, codes, grants, added, deleted>>
  PROVE  SerialInv'
<1>1. Eases
  BY DEF Eases, CodesEase
<1> QED BY <1>1, EasesKeeps

\* The reads of issueCode set one of the request's variables.
LEMMA PrepareMoves ==
  ASSUME IInv, NEW r \in Admins, WasOnline(r) \/ Rotated(r)
  PROVE  /\ Continues(r) /\ req[r].pc \in Busy
         /\ req'[r] \in Request
         /\ req'[r].kind = req[r].kind /\ req'[r].isNew = req[r].isNew /\ req'[r].m = req[r].m
         /\ WasOnline(r) => /\ req'[r].pc = "rotated"
                            /\ req'[r].wasOnline = (req[r].m.status = "active" /\ token # NoToken)
         /\ Rotated(r) => /\ req'[r].pc = "mint" /\ req'[r].wasOnline = req[r].wasOnline
                          /\ req'[r].rotated = (token # NoToken)
<1>1. /\ r \in Requests /\ req \in [Requests -> Request] /\ req[r] \in Request
      /\ {"rotated", "mint"} \subseteq AdminCalls \cup AgentCalls
  BY DEF Requests, IInv, TypeOK, AdminCalls, MintingCalls
<1>2. CASE WasOnline(r)
  <2> DEFINE b == (req[r].m.status = "active" /\ token # NoToken)
             q == [req[r] EXCEPT !.pc = "rotated", !.wasOnline = b]
  <2>1. b \in BOOLEAN
    OBVIOUS
  <2>2. req' = [req EXCEPT ![r] = q] /\ req[r].pc = "wasOnline"
    BY <1>1, <1>2 DEF WasOnline, At
  <2> HIDE DEF b
  <2>3. /\ q \in Request /\ q.pc = "rotated" /\ q.wasOnline = b /\ q.kind = req[r].kind
        /\ q.isNew = req[r].isNew /\ q.m = req[r].m
    BY <1>1, <2>1 DEF Request
  <2> HIDE DEF q
  <2>4. OnlyMoves(r) /\ req'[r] = q
    BY <1>1, <2>2, <2>3 DEF OnlyMoves
  <2>5. ~Rotated(r)
    BY <2>2 DEF Rotated, At
  <2> QED BY <2>2, <2>3, <2>4, <2>5, CallNames DEF Continues, b
<1>3. CASE Rotated(r)
  <2> DEFINE b == (token # NoToken)
             q == [req[r] EXCEPT !.pc = "mint", !.rotated = b]
  <2>1. b \in BOOLEAN
    OBVIOUS
  <2>2. req' = [req EXCEPT ![r] = q] /\ req[r].pc = "rotated"
    BY <1>1, <1>3 DEF Rotated, At
  <2> HIDE DEF b
  <2>3. /\ q \in Request /\ q.pc = "mint" /\ q.rotated = b /\ q.kind = req[r].kind
        /\ q.isNew = req[r].isNew /\ q.m = req[r].m /\ q.wasOnline = req[r].wasOnline
    BY <1>1, <2>1 DEF Request
  <2> HIDE DEF q
  <2>4. OnlyMoves(r) /\ req'[r] = q
    BY <1>1, <2>2, <2>3 DEF OnlyMoves
  <2>5. ~WasOnline(r)
    BY <2>2 DEF WasOnline, At
  <2> QED BY <2>2, <2>3, <2>4, <2>5, CallNames DEF Continues, b
<1> QED BY <1>2, <1>3

\* The decisions, and the calls that only revoke or stamp.
LEMMA TakingStep ==
  ASSUME IInv, SerialInv, NEW r \in Admins,
         \/ Conflict(r) \/ NeedsToken(r) \/ NeedsCode(r) \/ CheckSession(r)
         \/ WasOnline(r) \/ Rotated(r)
         \/ SelfRevoke(r) \/ Unmint(r) \/ EndSession(r) \/ UndoGrant(r)
  PROVE  SerialInv'
<1>1. r \in Requests
  BY DEF Requests
<1>2. CASE Conflict(r) \/ NeedsToken(r) \/ NeedsCode(r) \/ CheckSession(r)
  <2>1. /\ UNCHANGED <<member, token, codes, grants, added, deleted>>
        /\ req[r].pc \in {"conflict", "needsToken", "needsCode", "check"}
        /\ \/ Done(r)
           \/ \E pc \in {"grant", "needsCode", "wasOnline", "endSession"} : Goto(r, pc)
    BY <1>2 DEF Conflict, NeedsToken, NeedsCode, CheckSession, stores, ledger, At
  <2>2. Continues(r) /\ req'[r].pc \notin CascadeCalls
    BY <1>1, <2>1, MovesContinue, CallNames DEF CascadeCalls
  <2> QED BY <1>1, <2>1, <2>2, QuietEases
<1>3. CASE WasOnline(r) \/ Rotated(r)
  <2>1. UNCHANGED <<member, token, codes, grants, added, deleted>>
    BY <1>3 DEF WasOnline, Rotated, stores, ledger
  <2>2. Continues(r) /\ req'[r].pc \notin CascadeCalls
    BY <1>3, PrepareMoves DEF CascadeCalls
  <2> QED BY <1>1, <2>1, <2>2, QuietEases
<1>4. CASE SelfRevoke(r) \/ Unmint(r) \/ EndSession(r) \/ UndoGrant(r)
  <2>1. /\ UNCHANGED <<member, codes, added, deleted>>
        /\ token' = token \/ token' = NoToken
        /\ grants' \subseteq grants
        /\ req[r].pc \in {"selfRevoke", "unmint", "endSession", "undoGrant"}
        /\ \/ Done(r) \/ Fail(r)
           \/ \E pc \in {"mint", "stampEnd", "undoMember"} : Goto(r, pc)
    BY <1>4 DEF SelfRevoke, Unmint, EndSession, UndoGrant, ledger, At
  <2>2. Continues(r) /\ req'[r].pc \notin CascadeCalls
    BY <1>1, <2>1, MovesContinue, CallNames DEF CascadeCalls
  <2>3. Eases
    BY <2>1 DEF Eases, CodesEase
  <2> QED BY <1>1, <2>2, <2>3, EasesKeeps
<1> QED BY <1>2, <1>3, <1>4

\* A statement on one row that does not make it redeemable.
LEMMA OneCodeEases ==
  ASSUME TypeOK, NEW k \in DOMAIN codes,
         \/ \E o, b : codes' = [codes EXCEPT ![k].outcome = o, ![k].out = b]
         \/ \E b \in BOOLEAN : codes' = [codes EXCEPT ![k].out = b]
         \/ \E o : codes' = [codes EXCEPT ![k].outcome = o]
         \/ \E c : /\ codes' = [codes EXCEPT ![k] = c]
                  /\ c.id = codes[k].id /\ c.status = codes[k].status
         \/ \E s : s # "pending" /\ codes' = [codes EXCEPT ![k].status = s]
         \/ codes' = codes
  PROVE  CodesEase
<1>1. \A j \in DOMAIN codes : codes[j] \in Code
  BY CodeFacts
<1>2. ASSUME NEW c, codes' = [codes EXCEPT ![k] = c], c.id = codes[k].id,
             c.status = "pending" => codes[k].status = "pending"
      PROVE  CodesEase
  <2>1. DOMAIN codes' = DOMAIN codes
    BY <1>2
  <2>2. \A j \in DOMAIN codes : codes'[j] = IF j = k THEN c ELSE codes[j]
    BY <1>2
  <2> QED BY <1>2, <2>1, <2>2 DEF CodesEase
<1>3. ASSUME NEW o, NEW b, codes' = [codes EXCEPT ![k].outcome = o, ![k].out = b]
      PROVE  CodesEase
  <2> DEFINE c == [codes[k] EXCEPT !.outcome = o, !.out = b]
  <2>1. c.id = codes[k].id /\ c.status = codes[k].status
    BY <1>1 DEF Code
  <2>2. codes' = [codes EXCEPT ![k] = c]
    BY <1>3
  <2> HIDE DEF c
  <2> QED BY <1>2, <2>1, <2>2
<1>4. ASSUME NEW b \in BOOLEAN, codes' = [codes EXCEPT ![k].out = b] PROVE CodesEase
  <2> DEFINE c == [codes[k] EXCEPT !.out = b]
  <2>1. c.id = codes[k].id /\ c.status = codes[k].status
    BY <1>1 DEF Code
  <2>2. codes' = [codes EXCEPT ![k] = c]
    BY <1>4
  <2> HIDE DEF c
  <2> QED BY <1>2, <2>1, <2>2
<1>5. ASSUME NEW o, codes' = [codes EXCEPT ![k].outcome = o] PROVE CodesEase
  <2> DEFINE c == [codes[k] EXCEPT !.outcome = o]
  <2>1. c.id = codes[k].id /\ c.status = codes[k].status
    BY <1>1 DEF Code
  <2>2. codes' = [codes EXCEPT ![k] = c]
    BY <1>5
  <2> HIDE DEF c
  <2> QED BY <1>2, <2>1, <2>2
<1>6. ASSUME NEW s, s # "pending", codes' = [codes EXCEPT ![k].status = s] PROVE CodesEase
  <2> DEFINE c == [codes[k] EXCEPT !.status = s]
  <2>1. c.id = codes[k].id /\ c.status = s
    BY <1>1 DEF Code
  <2>2. codes' = [codes EXCEPT ![k] = c]
    BY <1>6
  <2> HIDE DEF c
  <2> QED BY <1>2, <1>6, <2>1, <2>2
<1>7. CASE codes' = codes
  BY <1>7 DEF CodesEase
<1> QED BY <1>2, <1>3, <1>4, <1>5, <1>6, <1>7

\* RevokeAllPendingForMember leaves the member no code that can be redeemed.
LEMMA AllVoidedEases ==
  ASSUME TypeOK, NEW id, codes' = AllVoided(id)
  PROVE  CodesEase /\ \A k \in DOMAIN codes : codes'[k].id = id => codes'[k].status # "pending"
<1>1. DOMAIN codes' = DOMAIN codes
  BY DEF AllVoided
<1>2. ASSUME NEW k \in DOMAIN codes
      PROVE  /\ codes'[k].id = codes[k].id
             /\ codes'[k].status = "pending" => codes[k].status = "pending"
             /\ codes'[k].id = id => codes'[k].status # "pending"
  <2>1. codes[k] \in Code
    BY CodeFacts
  <2>2. codes'[k] = IF codes[k].id = id /\ codes[k].status = "pending"
                      THEN [codes[k] EXCEPT !.status = "revoked"] ELSE codes[k]
    BY DEF AllVoided
  <2>3. [codes[k] EXCEPT !.status = "revoked"].id = codes[k].id
        /\ [codes[k] EXCEPT !.status = "revoked"].status = "revoked"
    BY <2>1 DEF Code
  <2> QED BY <2>2, <2>3
<1> QED BY <1>1, <1>2 DEF CodesEase

\* What a step of a console request does to the codes: only Issue makes one redeemable.
LEMMA AdminCodes ==
  ASSUME IInv, NEW r \in Admins, AdminStart(r) \/ AdminStep(r)
  PROVE  \/ CodesEase
         \/ /\ Issue(r) /\ codes' = Enveloped(r)
            /\ req' = [req EXCEPT ![r].pc = "advance", ![r].code = Len(codes')]
<1>1. r \in Requests /\ TypeOK
  BY DEF Requests, IInv
<1>2. CASE codes' = codes
  BY <1>2 DEF CodesEase
<1>3. CASE VoidAll(r) \/ DeleteCodes(r)
  <2>1. PICK me : me = req[r].m.id
    OBVIOUS
  <2>2. codes' = codes \/ codes' = AllVoided(me)
    BY <1>3, <2>1 DEF VoidAll, DeleteCodes
  <2> QED BY <1>1, <1>2, <2>2, AllVoidedEases
<1>4. CASE Mail(r) \/ Pin(r) \/ SelfMail(r) \/ Void(r)
  <2> DEFINE k == req[r].code
  <2>1. k \in DOMAIN codes
    <3>1. req[r].pc \in {"mail", "pin", "selfMail", "voidAdvance", "voidMail"}
      BY <1>4 DEF Mail, Pin, SelfMail, Void, At
    <3> QED BY <1>1, <3>1 DEF IInv, RequestsSound, Sound
  <2>2. \/ codes' = [codes EXCEPT ![k].outcome = "sent", ![k].out = TRUE]
        \/ \E b \in BOOLEAN : codes' = [codes EXCEPT ![k].out = b]
        \/ \E b \in BOOLEAN : codes' = Abandoned(r, b)
        \/ codes' = [codes EXCEPT ![k].outcome = "unvoided"]
        \/ codes' = [codes EXCEPT ![k].status = "revoked"]
        \/ codes' = codes
    <3>1. codes[k].out \in BOOLEAN
      BY <1>1, <2>1, CodeFacts DEF Code
    <3> QED BY <1>4, <3>1 DEF Mail, Pin, SelfMail, Void
  <2>4. ASSUME NEW b \in BOOLEAN, codes' = Abandoned(r, b)
        PROVE  \E c : /\ codes' = [codes EXCEPT ![k] = c]
                      /\ c.id = codes[k].id /\ c.status = codes[k].status
    BY <1>1, <2>1, <2>4, AbandonedCode
  <2> HIDE DEF k
  <2>3. \/ \E o, b : codes' = [codes EXCEPT ![k].outcome = o, ![k].out = b]
        \/ \E b \in BOOLEAN : codes' = [codes EXCEPT ![k].out = b]
        \/ \E o : codes' = [codes EXCEPT ![k].outcome = o]
        \/ \E c : /\ codes' = [codes EXCEPT ![k] = c]
                 /\ c.id = codes[k].id /\ c.status = codes[k].status
        \/ \E s : s # "pending" /\ codes' = [codes EXCEPT ![k].status = s]
        \/ codes' = codes
    BY <2>2, <2>4
  <2> QED BY <1>1, <2>1, <2>3, OneCodeEases
<1>5. CASE Issue(r)
  BY <1>2, <1>5 DEF Issue
<1>6. CASE AdminStart(r)
  BY <1>2, <1>6 DEF AdminStart, Resend, Cancel, Delete, Deactivate, UnknownUser, Invite,
     SelfInvite, Begin, vars, stores
<1>7. CASE AddMember(r) \/ Advance(r) \/ UndoMember(r) \/ Conflict(r) \/ Grant(r) \/ NeedsToken(r)
           \/ NeedsCode(r) \/ UndoGrant(r) \/ WasOnline(r) \/ Rotated(r) \/ SelfRevoke(r)
  BY <1>2, <1>7 DEF AddMember, Advance, UndoMember, Conflict, Grant, NeedsToken, NeedsCode,
     UndoGrant, WasOnline, Rotated, SelfRevoke, stores
<1>8. CASE Mint(r) \/ Unmint(r) \/ DeleteToken(r) \/ DeleteGrants(r) \/ DeleteMember(r)
           \/ CheckSession(r) \/ EndSession(r) \/ StampEnd(r)
  BY <1>2, <1>8 DEF Mint, Unmint, DeleteToken, DeleteGrants, DeleteMember, CheckSession,
     EndSession, StampEnd, stores
<1> QED BY <1>3, <1>4, <1>5, <1>6, <1>7, <1>8 DEF AdminStep

\* The code on its way out, and the cancellation.
LEMMA OutgoingStep ==
  ASSUME IInv, SerialInv, NEW r \in Admins, Mail(r) \/ Pin(r) \/ SelfMail(r) \/ Void(r)
                                         \/ VoidAll(r)
  PROVE  SerialInv'
<1>1. r \in Requests /\ TypeOK
  BY DEF Requests, IInv
<1>2. /\ UNCHANGED <<member, token, grants, added, deleted>>
      /\ req[r].pc \in {"mail", "pin", "selfMail", "voidAdvance", "voidMail", "voidAll"}
      /\ \/ Done(r) \/ Fail(r)
         \/ \E pc \in {"unmint", "selfMail", "voidMail"} : Goto(r, pc)
  BY DEF Mail, Pin, SelfMail, Void, VoidAll, ledger, At
<1>3. Continues(r) /\ req'[r].pc \notin CascadeCalls
  BY <1>1, <1>2, MovesContinue, CallNames DEF CascadeCalls
<1>4. CodesEase
  BY <1>2, AdminCodes DEF AdminStep, Issue, At
<1>5. Eases
  BY <1>2, <1>4 DEF Eases
<1> QED BY <1>1, <1>3, <1>5, EasesKeeps

\* What a step of a console request does to the member: Add creates it, two calls remove
\* it, and the others leave its id.
LEMMA AdminMember ==
  ASSUME IInv, NEW r \in Admins, AdminStart(r) \/ AdminStep(r)
  PROVE  \/ AddMember(r) /\ member = NoMember /\ member' = NewMember
         \/ (UndoMember(r) \/ DeleteMember(r)) /\ member' = NoMember
         \/ member' = member
         \/ member # NoMember /\ member' # NoMember /\ member'.id = member.id
<1>1. CASE AddMember(r)
  BY <1>1 DEF AddMember
<1>2. CASE UndoMember(r) \/ DeleteMember(r)
  BY <1>2 DEF UndoMember, DeleteMember
<1>3. ASSUME \/ member' = member
             \/ \E s, e : member # NoMember /\ member' = [member EXCEPT !.status = s, !.ended = e]
             \/ \E e : member # NoMember /\ member' = [member EXCEPT !.ended = e]
      PROVE  member' = member \/ (member # NoMember /\ member' # NoMember /\ member'.id = member.id)
  <2>1. member # NoMember => member \in Member /\ member.id # 0
    BY OnboardingAssumption DEF IInv, TypeOK, Member, Ids
  <2>2. NoMember.id = 0
    BY DEF NoMember
  <2>3. ASSUME NEW s, NEW e, member # NoMember, member' = [member EXCEPT !.status = s, !.ended = e]
        PROVE  member'.id = member.id
    BY <2>1, <2>3 DEF Member
  <2>4. ASSUME NEW e, member # NoMember, member' = [member EXCEPT !.ended = e]
        PROVE  member'.id = member.id
    BY <2>1, <2>4 DEF Member
  <2> QED BY <1>3, <2>1, <2>2, <2>3, <2>4
<1>4. CASE Advance(r)
  <2>1. \/ member' = member
        \/ /\ WritesStatus(r)
           /\ member' = [member EXCEPT !.status = StatusAfter(r),
                                       !.ended = IF Reinvites(r) THEN FALSE ELSE @]
    BY <1>4 DEF Advance
  <2>2. WritesStatus(r) => member # NoMember
    BY DEF WritesStatus, AdvanceOK, Present
  <2> QED BY <1>3, <2>1, <2>2
<1>5. CASE StampEnd(r)
  <2>1. member' = member \/ (member # NoMember /\ member' = [member EXCEPT !.ended = TRUE])
    BY <1>5 DEF StampEnd, Present
  <2> QED BY <1>3, <2>1
<1>6. CASE AdminStart(r)
  BY <1>6 DEF AdminStart, Resend, Cancel, Delete, Deactivate, UnknownUser, Invite, SelfInvite,
     Begin, vars, stores
<1>7. CASE Conflict(r) \/ Grant(r) \/ NeedsToken(r) \/ NeedsCode(r) \/ UndoGrant(r)
           \/ WasOnline(r) \/ Rotated(r) \/ SelfRevoke(r) \/ Mail(r) \/ Pin(r) \/ SelfMail(r) \/ Void(r)
  BY <1>7 DEF Conflict, Grant, NeedsToken, NeedsCode, UndoGrant, WasOnline, Rotated, SelfRevoke,
     Mail, Pin, SelfMail, Void, stores
<1>8. CASE Mint(r) \/ Issue(r) \/ Unmint(r) \/ VoidAll(r) \/ DeleteToken(r) \/ DeleteGrants(r)
           \/ DeleteCodes(r) \/ CheckSession(r) \/ EndSession(r)
  BY <1>8 DEF Mint, Issue, Unmint, VoidAll, DeleteToken, DeleteGrants, DeleteCodes, CheckSession,
     EndSession, stores
<1> QED BY <1>1, <1>2, <1>4, <1>5, <1>6, <1>7, <1>8 DEF AdminStep

\* The member is written, not replaced.
LEMMA MemberWritten ==
  ASSUME IInv, SerialInv, NEW r \in Admins, Advance(r) \/ StampEnd(r)
  PROVE  SerialInv'
<1>1. r \in Requests /\ TypeOK
  BY DEF Requests, IInv
<1>2. /\ UNCHANGED <<token, codes, grants, added, deleted>>
      /\ req[r].pc \in {"advance", "stampEnd"}
      /\ \/ Done(r)
         \/ \E pc \in {"pin", "mail", "voidAdvance"} : Goto(r, pc)
  BY DEF Advance, StampEnd, ledger, At
<1>3. Continues(r) /\ req'[r].pc \notin CascadeCalls
  BY <1>1, <1>2, MovesContinue, CallNames DEF CascadeCalls
<1>4. /\ member = NoMember => member' = NoMember
      /\ member # NoMember => member' # NoMember /\ member'.id = member.id
  BY <1>2, AdminMember DEF AdminStep, AddMember, UndoMember, DeleteMember, At
<1>5. Eases
  BY <1>2, <1>4 DEF Eases, CodesEase
<1> QED BY <1>1, <1>3, <1>5, EasesKeeps

\* No RPC of an agent is a console request in flight.
LEMMA AgentContinues ==
  ASSUME IInv, NEW a \in Agents, AgentStep(a)
  PROVE  /\ Continues(a) /\ req'[a].pc \notin Busy
         /\ UNCHANGED <<grants, added, minted, crashes, deleted, undone>>
<1>1. /\ a \in Requests /\ TypeOK /\ req \in [Requests -> Request] /\ req[a] \in Request
      /\ Idle \in Request
      /\ {"unwrap", "activate", "mark"} \subseteq AdminCalls \cup AgentCalls
      /\ {"redeem", "report"} \subseteq Kinds
  BY IdleSound DEF Requests, IInv, TypeOK, AgentCalls, Kinds
<1>2. UNCHANGED <<grants, added, minted, crashes, deleted, undone>>
  BY DEF AgentStep, Redeem, Unwrap, Activate, Report, Mark, stores, ledger
<1>3. CASE Done(a)
  BY <1>1, <1>2, <1>3, MovesContinue
<1>4. ASSUME NEW q \in Request, req' = [req EXCEPT ![a] = q],
             q.pc \in {"unwrap", "activate", "mark"}
      PROVE  Continues(a) /\ req'[a].pc \notin Busy
  <2>1. OnlyMoves(a) /\ req'[a] = q
    BY <1>1, <1>4 DEF OnlyMoves
  <2> QED BY <1>4, <2>1, CallNames DEF Continues
<1>5. ASSUME NEW k \in DOMAIN codes, Redeem(a, k) PROVE Continues(a) /\ req'[a].pc \notin Busy
  <2> DEFINE q == [Idle EXCEPT !.pc = "unwrap", !.kind = "redeem", !.code = k]
  <2>1. k \in Secrets
    BY <1>1, <1>5, CodeFacts
  <2>2. q \in Request /\ q.pc = "unwrap"
    BY <1>1, <2>1 DEF Request
  <2>3. req' = [req EXCEPT ![a] = q]
    BY <1>5 DEF Redeem
  <2> HIDE DEF q
  <2> QED BY <1>4, <2>2, <2>3
<1>6. CASE Report(a)
  <2> DEFINE q == [Idle EXCEPT !.pc = "mark", !.kind = "report"]
  <2>1. q \in Request /\ q.pc = "mark"
    BY <1>1 DEF Request
  <2>2. req' = [req EXCEPT ![a] = q]
    BY <1>6 DEF Report
  <2> HIDE DEF q
  <2> QED BY <1>2, <1>4, <2>1, <2>2
<1>7. CASE Unwrap(a) /\ ~Done(a)
  <2> DEFINE k == req[a].code
             q == [req[a] EXCEPT !.pc = "activate", !.secret = codes[k].secret]
  <2>1. req' = [req EXCEPT ![a].pc = "activate", ![a].secret = codes[k].secret]
        /\ req[a].pc = "unwrap"
    BY <1>7 DEF Unwrap, At
  <2>2. codes[k].secret \in Secrets
    <3>1. k \in DOMAIN codes
      BY <1>1, <2>1 DEF IInv, RequestsSound, Sound
    <3> QED BY <1>1, <3>1, CodeFacts DEF Code
  <2>3. q \in Request /\ q.pc = "activate"
    BY <1>1, <2>2 DEF Request
  <2>4. req' = [req EXCEPT ![a] = q]
    BY <1>1, <2>1
  <2> HIDE DEF q
  <2> QED BY <1>2, <1>4, <2>3, <2>4
<1>8. Activate(a) \/ Mark(a) => Done(a)
  BY DEF Activate, Mark
<1> QED BY <1>2, <1>3, <1>5, <1>6, <1>7, <1>8 DEF AgentStep

\* What an agent does to the stores: a code is burned, its member activated, the token
\* marked.
LEMMA AgentEases ==
  ASSUME IInv, NEW a \in Agents, AgentStep(a)
  PROVE  Eases
<1>1. a \in Requests /\ TypeOK
  BY DEF Requests, IInv
<1>2. UNCHANGED <<grants, added, deleted>>
  BY AgentContinues
<1>3. CodesEase
  <2>1. CASE codes' = codes
    BY <2>1 DEF CodesEase
  <2>2. CASE codes' # codes
    <3> DEFINE k == req[a].code
    <3>1. codes' = [codes EXCEPT ![k].status = "consumed"] /\ req[a].pc = "unwrap"
      BY <2>2 DEF AgentStep, Redeem, Unwrap, Activate, Report, Mark, stores, At
    <3>2. k \in DOMAIN codes
      BY <1>1, <3>1 DEF IInv, RequestsSound, Sound
    <3> HIDE DEF k
    <3>3. \E s : s # "pending" /\ codes' = [codes EXCEPT ![k].status = s]
      BY <3>1
    <3> QED BY <1>1, <3>2, <3>3, OneCodeEases
  <2> QED BY <2>1, <2>2
<1>4. token' = NoToken \/ (token # NoToken /\ token'.for = token.for)
  <2>1. \/ token' = token
        \/ token # NoToken /\ token' = [token EXCEPT !.activated = TRUE]
    BY DEF AgentStep, Redeem, Unwrap, Activate, Report, Mark, stores
  <2>2. token # NoToken => [token EXCEPT !.activated = TRUE].for = token.for
    BY <1>1 DEF TypeOK, Token
  <2> QED BY <2>1, <2>2
<1>5. /\ member = NoMember => member' = NoMember
      /\ member # NoMember => member' # NoMember /\ member'.id = member.id
  <2>1. \/ member' = member
        \/ member # NoMember /\ member' = [member EXCEPT !.status = "active"]
    BY DEF AgentStep, Redeem, Unwrap, Activate, Report, Mark, stores, Present
  <2>2. member # NoMember => member \in Member /\ member.id # 0
    BY <1>1 DEF TypeOK, Member, Ids
  <2>3. NoMember.id = 0 /\ (member \in Member => [member EXCEPT !.status = "active"].id = member.id)
    BY DEF NoMember, Member
  <2> QED BY <2>1, <2>2, <2>3
<1> QED BY <1>2, <1>3, <1>4, <1>5 DEF Eases

-----------------------------------------------------------------------------
(* Steps that give, and the cascade                                        *)

\* A request begins with the member it looked up.
LEMMA BeginSerial ==
  ASSUME IInv, SerialInv, NEW r \in Admins, NEW kind, NEW pc, Begin(r, kind, pc),
         pc \in {"add", "wasOnline", "voidAll", "delToken", "check", "conflict", "selfRevoke"},
         pc # "add" => member # NoMember
  PROVE  SerialInv'
<1>1. /\ member' = member /\ token' = token /\ codes' = codes /\ grants' = grants
      /\ added' = added /\ deleted' = deleted
  BY DEF Begin, stores, ledger
<1>2. /\ r \in Requests /\ req \in [Requests -> Request] /\ Idle \in Request
  BY IdleSound DEF Requests, IInv, TypeOK
<1> DEFINE q == [Idle EXCEPT !.pc = pc, !.kind = kind, !.m = member]
<1>3. q.pc = pc /\ q.m = member
  BY <1>2 DEF Idle
<1>4. req' = [req EXCEPT ![r] = q]
  BY DEF Begin
<1> HIDE DEF q
<1>5. req'[r] = q /\ \A x \in Requests : x # r => req'[x] = req[x]
  BY <1>2, <1>4
<1>6. \A id : /\ Present(id)' <=> Present(id)
              /\ NoneOpen(id)' <=> NoneOpen(id)
              /\ Left(id)' <=> Left(id)
  BY <1>1 DEF Present, NoneOpen, Left, OfMember
<1>7. AtWork'
  <2>1. SUFFICES ASSUME NEW x \in Admins, req'[x].pc \in Busy PROVE Present(req'[x].m.id)
    BY <1>6 DEF AtWork
  <2>2. CASE x = r
    <3>1. member # NoMember
      BY <1>3, <1>5, <2>1, <2>2, CallNames
    <3> QED BY <1>3, <1>5, <2>2, <3>1 DEF Present
  <2>3. CASE x # r
    BY <1>5, <2>1, <2>3 DEF SerialInv, AtWork, Requests
  <2> QED BY <2>2, <2>3
<1>8. CascadeSound'
  <2>1. SUFFICES ASSUME NEW x \in Admins, req'[x].pc \in CascadeCalls
                 PROVE  /\ token = NoToken
                        /\ req'[x].pc \in {"delCodes", "delMember"} => req'[x].m.id \notin grants
                        /\ req'[x].pc = "delMember" => NoneOpen(req'[x].m.id)
    BY <1>1, <1>6 DEF CascadeSound, CascadeCalls
  <2>2. x # r
    BY <1>3, <1>5, <2>1 DEF CascadeCalls
  <2>3. req'[x] = req[x]
    BY <1>5, <2>2 DEF Requests
  <2> QED BY <2>1, <2>3 DEF SerialInv, CascadeSound
<1>9. IdsDrawn' /\ DeletedLeft'
  BY <1>1, <1>6 DEF SerialInv, IdsDrawn, DeletedLeft
<1> QED BY <1>7, <1>8, <1>9 DEF SerialInv

\* A request that begins disturbs none that runs.
LEMMA StartSerial ==
  ASSUME IInv, SerialInv, NEW r \in Admins, AdminStart(r)
  PROVE  SerialInv'
<1>1. CASE UnknownUser(r)
  <2>1. /\ member' = member /\ token' = token /\ codes' = codes /\ grants' = grants /\ req' = req
        /\ added' = added /\ deleted' = deleted
    BY <1>1 DEF UnknownUser, vars, stores, ledger
  <2> QED BY <2>1 DEF SerialInv, AtWork, CascadeSound, IdsDrawn, DeletedLeft, Present, NoneOpen,
                      Left, OfMember
<1>2. CASE Resend(r) \/ Cancel(r) \/ Delete(r) \/ Deactivate(r)
  BY <1>2, BeginSerial DEF Resend, Cancel, Delete, Deactivate
<1>3. CASE Invite(r)
  <2>1. CASE member = NoMember
    BY <1>3, <2>1, BeginSerial DEF Invite
  <2>2. CASE member # NoMember
    BY <1>3, <2>2, BeginSerial DEF Invite
  <2> QED BY <2>1, <2>2
<1>4. CASE SelfInvite(r)
  <2>1. CASE member = NoMember
    BY <1>4, <2>1, BeginSerial DEF SelfInvite
  <2>2. CASE member # NoMember
    BY <1>4, <2>2, BeginSerial DEF SelfInvite
  <2> QED BY <2>1, <2>2
<1> QED BY <1>1, <1>2, <1>3, <1>4 DEF AdminStart

\* The request of members.Add after it succeeded.
LEMMA AddMoves ==
  ASSUME IInv, NEW r \in Admins, AddMember(r)
  PROVE  \/ /\ Continues(r) /\ req'[r] = Idle /\ UNCHANGED <<member, added>>
         \/ /\ OnlyMoves(r) /\ member = NoMember /\ member' = NewMember
            /\ added' = added + 1 /\ faults' = faults
            /\ req'[r].pc = IF req[r].kind = "invite" THEN "grant" ELSE "mint"
            /\ req'[r].m = NewMember /\ req'[r].isNew = TRUE /\ req'[r].kind = req[r].kind
            /\ req'[r].wasOnline = req[r].wasOnline /\ req'[r].rotated = req[r].rotated
            /\ req'[r].code = req[r].code
<1>1. /\ r \in Requests /\ req \in [Requests -> Request] /\ req[r] \in Request
  BY DEF Requests, IInv, TypeOK
<1>2. CASE Done(r) /\ UNCHANGED <<member, added>>
  BY <1>1, <1>2, MovesContinue
<1>3. CASE /\ member = NoMember /\ member' = NewMember /\ added' = added + 1 /\ faults' = faults
           /\ req' = [req EXCEPT ![r].m = member', ![r].isNew = TRUE,
                                 ![r].pc = IF req[r].kind = "invite" THEN "grant" ELSE "mint"]
  <2> DEFINE pc == IF req[r].kind = "invite" THEN "grant" ELSE "mint"
             q == [req[r] EXCEPT !.m = NewMember, !.isNew = TRUE, !.pc = pc]
  <2>1. req' = [req EXCEPT ![r] = q]
    BY <1>1, <1>3
  <2>2. IInv'
    BY AddStep
  <2>3. req' \in [Requests -> Request]
    BY <2>2 DEF IInv, TypeOK
  <2>4. /\ q.pc = pc /\ q.m = NewMember /\ q.isNew = TRUE /\ q.kind = req[r].kind
        /\ q.wasOnline = req[r].wasOnline /\ q.rotated = req[r].rotated /\ q.code = req[r].code
    BY <1>1 DEF Request
  <2> HIDE DEF q
  <2>5. OnlyMoves(r) /\ req'[r] = q
    BY <1>1, <2>1, <2>3 DEF OnlyMoves
  <2> QED BY <1>3, <2>4, <2>5
<1> QED BY <1>2, <1>3 DEF AddMember

\* A member is added under an id that nothing in the stores refers to.
LEMMA AddSerial ==
  ASSUME IInv, SerialInv, NEW r \in Admins, AddMember(r)
  PROVE  SerialInv'
<1>1. r \in Requests /\ UNCHANGED <<token, codes, grants, deleted>>
  BY DEF Requests, AddMember
<1>2. CASE Continues(r) /\ req'[r] = Idle /\ UNCHANGED <<member, added>>
  <2>1. req'[r].pc \notin CascadeCalls
    BY <1>2 DEF Idle, CascadeCalls
  <2> QED BY <1>1, <1>2, <2>1, QuietEases
<1>3. CASE /\ OnlyMoves(r) /\ member = NoMember /\ member' = NewMember /\ added' = added + 1
           /\ req'[r].pc \in {"grant", "mint"} /\ req'[r].m = NewMember
  <2>1. /\ added \in Nat /\ NewMember.id = added + 1 /\ NewMember # NoMember
        /\ deleted \subseteq 1..added
    <3>1. added \in Nat /\ NewMember.id = added + 1 /\ NoMember.id = 0
      BY Numbers DEF NewMember, NoMember, IInv
    <3> QED BY <3>1 DEF IInv, TypeOK
  <2>2. \A x \in Admins : x # r => req'[x] = req[x] /\ req'[x].pc \notin Busy
    <3>1. \A x \in Admins : req[x].pc \notin Busy
      BY <1>3 DEF SerialInv, AtWork, Present
    <3> QED BY <1>3, <3>1 DEF OnlyMoves, Requests
  <2>3. AtWork'
    BY <1>3, <2>1, <2>2 DEF AtWork, Present
  <2>4. CascadeSound'
    <3>1. \A x \in Admins : req'[x].pc \notin CascadeCalls
      BY <1>3, <2>2, CallNames DEF CascadeCalls
    <3> QED BY <3>1 DEF CascadeSound, CascadeCalls
  <2>5. IdsDrawn'
    <3>1. 1..added \subseteq 1..added'
      BY <1>3, <2>1
    <3> QED BY <1>1, <3>1 DEF SerialInv, IdsDrawn
  <2>6. DeletedLeft'
    <3>1. SUFFICES ASSUME NEW id \in deleted PROVE Left(id)' /\ token.for # id
      BY <1>1 DEF DeletedLeft
    <3>2. id # NewMember.id
      BY <2>1
    <3>3. Left(id) /\ token.for # id
      BY DEF SerialInv, DeletedLeft
    <3> QED BY <1>1, <1>3, <3>2, <3>3 DEF Left, Present, NoneOpen, OfMember
  <2> QED BY <2>3, <2>4, <2>5, <2>6 DEF SerialInv
<1> QED BY <1>2, <1>3, AddMoves

\* The one console request in flight may do anything to its own member.
LEMMA AloneKeeps ==
  ASSUME IInv, SerialInv, OneAdmin, NEW r \in Admins, req[r].pc \in Busy, OnlyMoves(r),
         NEW me, me = req[r].m.id,
         req'[r].pc \in Busy => req'[r].m.id = me /\ Present(me)',
         \A id : Present(id)' => Present(id),
         grants' \subseteq grants \cup {me},
         \A k \in DOMAIN codes' : \/ codes'[k].id = me
                                  \/ /\ k \in DOMAIN codes /\ codes'[k].id = codes[k].id
                                     /\ codes'[k].status = "pending" => codes[k].status = "pending",
         token' = NoToken \/ token'.for = token.for \/ token'.for = me,
         added' = added,
         \A id \in deleted' : id \in deleted \/ (Left(id)' /\ token'.for # id),
         req'[r].pc \in CascadeCalls => token' = NoToken,
         req'[r].pc \in {"delCodes", "delMember"} => me \notin grants',
         req'[r].pc = "delMember" => NoneOpen(me)'
  PROVE  SerialInv'
<1>1. \A x \in Admins : x = r
  BY DEF OneAdmin
<1>2. Present(me) /\ me \in 1..added
  <2>1. Present(me)
    BY DEF SerialInv, AtWork
  <2>2. me \in Ids /\ me <= added
    BY <2>1 DEF Present, IInv, Drawn, TypeOK, Member
  <2>3. me \in Nat /\ 1 <= me
    BY <2>2, OnboardingAssumption DEF Ids
  <2> QED BY <2>1, <2>2, <2>3, Numbers DEF IInv
<1>3. AtWork'
  BY <1>1 DEF AtWork
<1>4. CascadeSound'
  BY <1>1, CallNames DEF CascadeSound, CascadeCalls
<1>5. IdsDrawn'
  BY <1>2 DEF SerialInv, IdsDrawn
<1>6. DeletedLeft'
  <2>1. SUFFICES ASSUME NEW id \in deleted' PROVE Left(id)' /\ token'.for # id
    BY DEF DeletedLeft
  <2>2. CASE Left(id)' /\ token'.for # id
    BY <2>2
  <2>3. CASE id \in deleted
    <3>1. Left(id) /\ token.for # id /\ id # 0
      BY <2>3 DEF SerialInv, DeletedLeft, IInv, TypeOK
    <3>2. id # me
      BY <1>2, <3>1 DEF Left
    <3>3. ~Present(id)' /\ id \notin grants'
      BY <3>1, <3>2 DEF Left
    <3>4. NoneOpen(id)'
      BY <3>1, <3>2 DEF Left, NoneOpen, OfMember
    <3>5. token'.for # id
      BY <3>1, <3>2 DEF NoToken
    <3> QED BY <3>3, <3>4, <3>5 DEF Left
  <2> QED BY <2>1, <2>2, <2>3
<1> QED BY <1>3, <1>4, <1>5, <1>6 DEF SerialInv

\* Where a step leaves the rows of the other members alone.
LEMMA SameRows ==
  /\ codes' = codes => \A k \in DOMAIN codes' :
        /\ k \in DOMAIN codes /\ codes'[k].id = codes[k].id
        /\ codes'[k].status = "pending" => codes[k].status = "pending"
  /\ member' = member => \A id : Present(id)' <=> Present(id)
BY DEF Present

\* Grant gives the request's own member a membership.
LEMMA GrantSerial ==
  ASSUME IInv, SerialInv, OneAdmin, NEW r \in Admins, Grant(r)
  PROVE  SerialInv'
<1>1. r \in Requests /\ req[r].pc = "grant" /\ req[r].pc \in Busy
  BY CallNames DEF Requests, Grant, At
<1>2. member' = member /\ token' = token /\ codes' = codes /\ added' = added /\ deleted' = deleted
  BY DEF Grant, ledger
<1>3. CASE grants' = grants \cup {req[r].m.id} /\ Goto(r, "needsToken")
  <2>1. Continues(r) /\ req'[r].pc = "needsToken"
    BY <1>1, <1>3, MovesContinue, CallNames
  <2>2. Present(req[r].m.id)
    BY <1>1 DEF SerialInv, AtWork
  <2>3. OnlyMoves(r) /\ req'[r].m.id = req[r].m.id
    BY <1>1, <2>1, CallNames DEF Continues
  <2> DEFINE me == req[r].m.id
  <2>4. me = req[r].m.id /\ grants' \subseteq grants \cup {me}
    BY <1>3
  <2> HIDE DEF me
  <2> QED BY <1>1, <1>2, <2>1, <2>2, <2>3, <2>4, SameRows, AloneKeeps DEF CascadeCalls
<1>4. CASE grants' = grants /\ (Goto(r, "undoMember") \/ Done(r))
  <2>1. Continues(r) /\ req'[r].pc \notin CascadeCalls
    BY <1>1, <1>4, MovesContinue, CallNames DEF CascadeCalls
  <2> QED BY <1>1, <1>2, <1>4, <2>1, QuietEases
<1> QED BY <1>3, <1>4 DEF Grant

\* The request after its secret was drawn.
LEMMA MintMoves ==
  ASSUME IInv, NEW r \in Admins, Mint(r), ~Fail(r)
  PROVE  /\ req[r].pc = "mint" /\ OnlyMoves(r)
         /\ req[r].rotated <=> token # NoToken
         /\ token' = [secret |-> minted + 1, for |-> req[r].m.id, activated |-> FALSE]
         /\ faults' = faults
         /\ req'[r].pc = "issue" /\ req'[r].kind = req[r].kind /\ req'[r].m = req[r].m
         /\ req'[r].isNew = req[r].isNew /\ req'[r].wasOnline = req[r].wasOnline
         /\ req'[r].rotated = req[r].rotated /\ req'[r].code = req[r].code
<1>1. /\ r \in Requests /\ req \in [Requests -> Request] /\ req[r] \in Request
  BY DEF Requests, IInv, TypeOK
<1> DEFINE q == [req[r] EXCEPT !.pc = "issue", !.secret = minted + 1]
<1>2. req' = [req EXCEPT ![r] = q]
  BY <1>1 DEF Mint
<1>3. req' \in [Requests -> Request]
  BY MintStep DEF IInv, TypeOK
<1>4. /\ q.pc = "issue" /\ q.m = req[r].m /\ q.isNew = req[r].isNew /\ q.kind = req[r].kind
      /\ q.wasOnline = req[r].wasOnline /\ q.rotated = req[r].rotated /\ q.code = req[r].code
  BY <1>1 DEF Request
<1> HIDE DEF q
<1>5. OnlyMoves(r) /\ req'[r] = q
  BY <1>1, <1>2, <1>3 DEF OnlyMoves
<1> QED BY <1>4, <1>5 DEF Mint, At

\* What a sequence is after Append.
LEMMA Appended ==
  ASSUME NEW S, NEW s \in Seq(S), NEW e \in S
  PROVE  LET t == Append(s, e) IN
           /\ Len(t) = Len(s) + 1 /\ DOMAIN t = 1..(Len(s) + 1) /\ t[Len(s) + 1] = e
           /\ \A k \in 1..Len(s) : t[k] = s[k]
OBVIOUS

\* The request after its code was issued: the code is the last row, and unannounced.
LEMMA IssueMoves ==
  ASSUME IInv, NEW r \in Admins, Issue(r), codes' = Enveloped(r),
         req' = [req EXCEPT ![r].pc = "advance", ![r].code = Len(codes')]
  PROVE  /\ req[r].pc = "issue" /\ OnlyMoves(r)
         /\ DOMAIN codes' = DOMAIN codes \cup {req'[r].code}
         /\ req'[r].code \notin DOMAIN codes
         /\ codes'[req'[r].code] = [id |-> req[r].m.id, secret |-> req[r].secret, out |-> FALSE,
                                    by |-> "none", outcome |-> "open", status |-> "pending"]
         /\ \A k \in DOMAIN codes : codes'[k] = codes[k]
         /\ req'[r].pc = "advance" /\ req'[r].kind = req[r].kind /\ req'[r].m = req[r].m
         /\ req'[r].isNew = req[r].isNew /\ req'[r].wasOnline = req[r].wasOnline
         /\ req'[r].rotated = req[r].rotated
<1>1. /\ r \in Requests /\ req \in [Requests -> Request] /\ req[r] \in Request
  BY DEF Requests, IInv, TypeOK
<1> DEFINE c == [id |-> req[r].m.id, secret |-> req[r].secret, out |-> FALSE,
                 by |-> "none", outcome |-> "open", status |-> "pending"]
           n == Len(codes) + 1
           q == [req[r] EXCEPT !.pc = "advance", !.code = n]
<1>2. codes' = Append(codes, c) /\ req[r].pc = "issue"
  BY DEF Issue, Enveloped, At
<1>3. codes \in Seq(Code) /\ Len(codes) \in Nat /\ DOMAIN codes = 1..Len(codes)
  BY Numbers DEF IInv
<1>4. /\ Len(codes') = n /\ DOMAIN codes' = 1..n
      /\ codes'[n] = c /\ \A k \in 1..Len(codes) : codes'[k] = codes[k]
  <2>1. "issue" \in AdminCalls \ {"idle", "add"} /\ TypeOK
    BY DEF AdminCalls, IInv
  <2>2. req[r].m.id \in Ids /\ req[r].secret \in Secrets
    BY <1>1, <1>2, <2>1, Here DEF IInv, RequestsSound, Sound
  <2>3. c \in Code
    <3>1. FALSE \in BOOLEAN
      BY Zenon
    <3>2. "none" \in Kinds
      BY DEF Kinds
    <3> QED BY <2>2, <3>1, <3>2 DEF Code
  <2> HIDE DEF c
  <2>4. codes' = Append(codes, c)
    BY <1>2 DEF c
  <2> QED BY <1>3, <2>3, <2>4, Appended
<1>5. req' = [req EXCEPT ![r] = q]
  BY <1>1, <1>2, <1>4
<1>6. 1..n = 1..Len(codes) \cup {n} /\ n \notin 1..Len(codes)
  BY <1>3
<1>7. req' \in [Requests -> Request]
  BY IssueStep DEF IInv, TypeOK
<1> HIDE DEF n, c
<1>8. /\ q.pc = "advance" /\ q.m = req[r].m /\ q.isNew = req[r].isNew /\ q.kind = req[r].kind
      /\ q.wasOnline = req[r].wasOnline /\ q.rotated = req[r].rotated /\ q.code = n
  BY <1>1 DEF Request
<1> HIDE DEF q
<1>9. OnlyMoves(r) /\ req'[r] = q
  BY <1>1, <1>5, <1>7 DEF OnlyMoves
<1>10. codes'[n] = [id |-> req[r].m.id, secret |-> req[r].secret, out |-> FALSE,
                    by |-> "none", outcome |-> "open", status |-> "pending"]
  BY <1>4 DEF c
<1> QED BY <1>2, <1>3, <1>4, <1>6, <1>8, <1>9, <1>10

\* The credential that Mint creates is the registered member's.
LEMMA MintSerial ==
  ASSUME IInv, SerialInv, OneAdmin, NEW r \in Admins, Mint(r)
  PROVE  SerialInv'
<1>1. r \in Requests /\ req[r].pc = "mint" /\ req[r].pc \in Busy
  BY CallNames DEF Requests, Mint, At
<1>2. member' = member /\ codes' = codes /\ grants' = grants /\ added' = added /\ deleted' = deleted
  BY DEF Mint
<1>3. CASE Fail(r)
  <2>1. Continues(r) /\ req'[r].pc \notin CascadeCalls
    BY <1>1, <1>3, MovesContinue DEF CascadeCalls
  <2>2. token' = token
    <3>1. AfterFailure(r) \in {"undoGrant", "undoMember", "idle"}
      BY DEF AfterFailure
    <3>2. req'[r].pc # "issue"
      BY <1>1, <1>3, MovesContinue
    <3>3. ASSUME req' = [req EXCEPT ![r].pc = "issue", ![r].secret = minted + 1]
          PROVE  req'[r].pc = "issue"
      <4>1. req \in [Requests -> Request] /\ req[r] \in Request
        BY <1>1 DEF IInv, TypeOK
      <4> QED BY <1>1, <3>3, <4>1 DEF Request
    <3> QED BY <3>2, <3>3 DEF Mint
  <2> QED BY <1>1, <1>2, <2>1, <2>2, QuietEases
<1>4. CASE ~Fail(r)
  <2>1. /\ OnlyMoves(r) /\ req'[r].pc = "issue" /\ req'[r].m = req[r].m
        /\ token'.for = req[r].m.id
    BY <1>4, MintMoves
  <2>2. Present(req[r].m.id)
    BY <1>1 DEF SerialInv, AtWork
  <2> DEFINE me == req[r].m.id
  <2>3. me = req[r].m.id /\ token'.for = me
    BY <2>1
  <2> HIDE DEF me
  <2> QED BY <1>1, <1>2, <2>1, <2>2, <2>3, SameRows, AloneKeeps DEF CascadeCalls
<1> QED BY <1>3, <1>4

\* The code that Issue makes redeemable is the registered member's.
LEMMA IssueSerial ==
  ASSUME IInv, SerialInv, OneAdmin, NEW r \in Admins, Issue(r)
  PROVE  SerialInv'
<1>1. r \in Requests /\ req[r].pc = "issue" /\ req[r].pc \in Busy
  BY CallNames DEF Requests, Issue, At
<1>2. member' = member /\ token' = token /\ grants' = grants /\ added' = added /\ deleted' = deleted
  BY DEF Issue, ledger
<1>3. CASE codes' = codes /\ (Fail(r) \/ Goto(r, "unmint"))
  <2>1. Continues(r) /\ req'[r].pc \notin CascadeCalls
    BY <1>1, <1>3, MovesContinue, CallNames DEF CascadeCalls
  <2> QED BY <1>1, <1>2, <1>3, <2>1, QuietEases
<1>4. CASE /\ codes' = Enveloped(r)
           /\ req' = [req EXCEPT ![r].pc = "advance", ![r].code = Len(codes')]
  <2> DEFINE me == req[r].m.id
  <2>1. me = req[r].m.id /\ Present(me)
    BY <1>1 DEF SerialInv, AtWork
  <2>2. /\ OnlyMoves(r) /\ req'[r].pc = "advance" /\ req'[r].m = req[r].m
        /\ DOMAIN codes' = DOMAIN codes \cup {req'[r].code}
        /\ codes'[req'[r].code].id = me
        /\ \A k \in DOMAIN codes : codes'[k] = codes[k]
    <3>1. codes'[req'[r].code] = [id |-> me, secret |-> req[r].secret, out |-> FALSE,
                                  by |-> "none", outcome |-> "open", status |-> "pending"]
      BY <1>4, IssueMoves
    <3>2. codes'[req'[r].code].id = me
      BY <3>1
    <3> QED BY <1>4, <3>2, IssueMoves
  <2> HIDE DEF me
  <2>3. \A k \in DOMAIN codes' : codes'[k].id = me \/ (k \in DOMAIN codes /\ codes'[k] = codes[k])
    BY <2>2
  <2>4. req'[r].m.id = me /\ req'[r].pc \notin CascadeCalls
        /\ req'[r].pc \notin {"delCodes", "delMember"} /\ grants' \subseteq grants \cup {me}
    BY <1>2, <2>1, <2>2 DEF CascadeCalls
  <2> QED BY <1>1, <1>2, <2>1, <2>2, <2>3, <2>4, SameRows, AloneKeeps
<1> QED BY <1>3, <1>4 DEF Issue

\* The calls of the delete cascade: each clears its store for the request's member, and
\* nobody is there to fill it again.
LEMMA CascadeSerial ==
  ASSUME IInv, SerialInv, OneAdmin, NEW r \in Admins,
         DeleteToken(r) \/ DeleteGrants(r) \/ DeleteCodes(r)
  PROVE  SerialInv'
<1>0. PICK me : me = req[r].m.id
  OBVIOUS
<1>1. /\ r \in Requests /\ TypeOK /\ me = req[r].m.id
      /\ req[r].pc \in {"delToken", "delGrants", "delCodes"} /\ req[r].pc \in Busy
  BY <1>0, CallNames DEF Requests, IInv, DeleteToken, DeleteGrants, DeleteCodes, At
<1>2. member' = member /\ added' = added /\ deleted' = deleted
  BY DEF DeleteToken, DeleteGrants, DeleteCodes, ledger
<1>3. Present(me)
  BY <1>1 DEF SerialInv, AtWork
<1>4. CASE Done(r) /\ UNCHANGED <<token, grants, codes>>
  <2>1. Continues(r) /\ req'[r].pc \notin CascadeCalls
    BY <1>1, <1>4, MovesContinue, CallNames
  <2> QED BY <1>1, <1>2, <1>4, <2>1, QuietEases
<1>5. ASSUME NEW pc \in CascadeCalls, Goto(r, pc)
      PROVE  OnlyMoves(r) /\ req'[r].pc = pc /\ req'[r].m.id = me
  BY <1>1, <1>5, MovesContinue, CallNames DEF Continues
<1>6. CASE DeleteToken(r) /\ token' = NoToken /\ Goto(r, "delGrants")
  <2>1. codes' = codes /\ grants' = grants
    BY <1>0, <1>6 DEF DeleteToken
  <2>2. OnlyMoves(r) /\ req'[r].pc = "delGrants" /\ req'[r].m.id = me
    BY <1>5, <1>6 DEF CascadeCalls
  <2>3. token' = NoToken
    BY <1>6
  <2> QED BY <1>1, <1>2, <1>3, <2>1, <2>2, <2>3, SameRows, AloneKeeps
<1>7. CASE DeleteGrants(r) /\ grants' = grants \ {me} /\ Goto(r, "delCodes")
  <2>1. codes' = codes /\ token' = token /\ token = NoToken
    BY <1>0, <1>7 DEF DeleteGrants, At, SerialInv, CascadeSound, CascadeCalls
  <2>2. OnlyMoves(r) /\ req'[r].pc = "delCodes" /\ req'[r].m.id = me
    BY <1>5, <1>7 DEF CascadeCalls
  <2>3. grants' = grants \ {me}
    BY <1>7
  <2> QED BY <1>1, <1>2, <1>3, <2>1, <2>2, <2>3, SameRows, AloneKeeps
<1>8. CASE DeleteCodes(r) /\ codes' = AllVoided(me) /\ Goto(r, "delMember")
  <2>1. grants' = grants /\ token' = token /\ token = NoToken /\ me \notin grants
    BY <1>0, <1>8 DEF DeleteCodes, At, SerialInv, CascadeSound, CascadeCalls
  <2>2. OnlyMoves(r) /\ req'[r].pc = "delMember" /\ req'[r].m.id = me
    BY <1>5, <1>8 DEF CascadeCalls
  <2>3. codes' = AllVoided(me)
    BY <1>8
  <2>4. CodesEase /\ \A k \in DOMAIN codes : codes'[k].id = me => codes'[k].status # "pending"
    BY <1>1, <2>3, AllVoidedEases
  <2>5. NoneOpen(me)'
    BY <2>4 DEF CodesEase, NoneOpen, OfMember
  <2>6. \A k \in DOMAIN codes' : /\ k \in DOMAIN codes /\ codes'[k].id = codes[k].id
                                 /\ codes'[k].status = "pending" => codes[k].status = "pending"
    BY <2>4 DEF CodesEase
  <2> QED BY <1>1, <1>2, <1>3, <2>1, <2>2, <2>5, <2>6, SameRows, AloneKeeps
<1> QED BY <1>0, <1>4, <1>6, <1>7, <1>8 DEF DeleteToken, DeleteGrants, DeleteCodes

\* The member itself is removed, by the cascade or by the undo of what created it.
LEMMA RemoveSerial ==
  ASSUME IInv, SerialInv, OneAdmin, NEW r \in Admins, DeleteMember(r) \/ UndoMember(r)
  PROVE  SerialInv'
<1>0. PICK me : me = req[r].m.id
  OBVIOUS
<1>1. /\ r \in Requests /\ TypeOK /\ me = req[r].m.id
      /\ req[r].pc \in {"delMember", "undoMember"} /\ req[r].pc \in Busy
  BY <1>0, CallNames DEF Requests, IInv, DeleteMember, UndoMember, At
<1>2. /\ token' = token /\ codes' = codes /\ grants' = grants /\ added' = added
      /\ Done(r) /\ (member' = member \/ member' = NoMember)
  BY DEF DeleteMember, UndoMember, ledger
<1>3. OnlyMoves(r) /\ req'[r].pc \notin Busy
  BY <1>1, <1>2, MovesContinue DEF Continues
<1>4. \A id : Present(id)' => Present(id)
  BY <1>2 DEF Present
<1>5. deleted' = deleted \/ (req[r].pc = "delMember" /\ member' = NoMember
                             /\ deleted' = deleted \cup {me})
  BY <1>0 DEF DeleteMember, UndoMember, At
<1>6. ASSUME req[r].pc = "delMember", member' = NoMember
      PROVE  Left(me)' /\ token'.for # me
  <2>1. token = NoToken /\ me \notin grants /\ NoneOpen(me)
    BY <1>0, <1>6 DEF SerialInv, CascadeSound, CascadeCalls
  <2>2. Present(me)
    BY <1>1 DEF SerialInv, AtWork
  <2>3. me # 0
    <3>1. me \in Ids
      BY <1>1, <2>2 DEF Present, TypeOK, Member
    <3> QED BY <3>1, OnboardingAssumption DEF Ids
  <2>4. NoneOpen(me)'
    BY <1>2, <2>1 DEF NoneOpen, OfMember
  <2> QED BY <1>2, <1>6, <2>1, <2>3, <2>4 DEF Left, Present, NoToken
<1>7. \A id \in deleted' : id \in deleted \/ (Left(id)' /\ token'.for # id)
  BY <1>5, <1>6
<1> QED BY <1>1, <1>2, <1>3, <1>4, <1>7, SameRows, CallNames, AloneKeeps DEF CascadeCalls

\* Time and crashes make no code redeemable.
LEMMA OutsideEases ==
  ASSUME IInv, Crash \/ \E k \in DOMAIN codes : Age(k)
  PROVE  CodesEase /\ \A k \in DOMAIN codes : codes'[k].out = codes[k].out
<1>1. TypeOK /\ \A k \in DOMAIN codes : codes[k] \in Code
  BY CodeFacts DEF IInv
<1>2. ASSUME NEW j \in DOMAIN codes, Age(j)
      PROVE  CodesEase /\ \A k \in DOMAIN codes : codes'[k].out = codes[k].out
  <2> DEFINE c == [codes[j] EXCEPT !.status = "aged"]
  <2>1. c.out = codes[j].out
    BY <1>1 DEF Code
  <2>2. codes' = [codes EXCEPT ![j] = c]
    BY <1>2 DEF Age
  <2> HIDE DEF c
  <2>3. \A k \in DOMAIN codes : codes'[k].out = codes[k].out
    BY <2>1, <2>2
  <2> QED BY <1>1, <1>2, <2>3, OneCodeEases DEF Age
<1>3. CASE Crash
  <2>1. ASSUME NEW k \in DOMAIN codes
        PROVE  /\ codes'[k].id = codes[k].id /\ codes'[k].status = codes[k].status
               /\ codes'[k].out = codes[k].out
    <3>1. \/ codes'[k] = codes[k]
          \/ codes'[k] = [codes[k] EXCEPT !.outcome = "crashed"]
      BY <1>3 DEF Crash
    <3>2. /\ [codes[k] EXCEPT !.outcome = "crashed"].id = codes[k].id
          /\ [codes[k] EXCEPT !.outcome = "crashed"].status = codes[k].status
          /\ [codes[k] EXCEPT !.outcome = "crashed"].out = codes[k].out
      BY <1>1 DEF Code
    <3> QED BY <3>1, <3>2
  <2>2. DOMAIN codes' = DOMAIN codes
    BY <1>3 DEF Crash
  <2> QED BY <2>1, <2>2 DEF CodesEase
<1> QED BY <1>2, <1>3

\* Time and crashes void nothing the serial invariant rests on.
LEMMA OutsideSerial ==
  ASSUME IInv, SerialInv, Crash \/ \E k \in DOMAIN codes : Age(k)
  PROVE  SerialInv'
<1>1. /\ member' = member /\ token' = token /\ grants' = grants /\ added' = added
      /\ deleted' = deleted /\ TypeOK
  BY DEF Crash, Age, ledger, IInv
<1>2. CodesEase
  BY OutsideEases
<1>3. \A x \in Admins : req'[x] = req[x] \/ req'[x].pc \notin Busy
  <2>1. Idle.pc \notin Busy
    BY IdleSound, CallNames
  <2> QED BY <2>1 DEF Crash, Age, Requests
<1>4. \A id : Present(id)' <=> Present(id)
  BY <1>1 DEF Present
<1>5. \A id : NoneOpen(id) => NoneOpen(id)'
  BY <1>2 DEF CodesEase, NoneOpen, OfMember
<1>6. AtWork'
  BY <1>3, <1>4 DEF SerialInv, AtWork
<1>7. CascadeSound'
  <2>1. SUFFICES ASSUME NEW x \in Admins, req'[x].pc \in CascadeCalls
                 PROVE  /\ token' = NoToken
                        /\ req'[x].pc \in {"delCodes", "delMember"} => req'[x].m.id \notin grants'
                        /\ req'[x].pc = "delMember" => NoneOpen(req[x].m.id)'
    BY DEF CascadeSound, CascadeCalls
  <2>2. req'[x] = req[x]
    BY <1>3, <2>1, CallNames
  <2> QED BY <1>1, <1>5, <2>1, <2>2 DEF SerialInv, CascadeSound, CascadeCalls
<1>8. IdsDrawn'
  BY <1>1, <1>2 DEF SerialInv, IdsDrawn, CodesEase
<1>9. DeletedLeft'
  <2>1. ASSUME NEW id \in deleted PROVE Left(id)' /\ token'.for # id
    <3>1. Left(id) /\ token.for # id
      BY DEF SerialInv, DeletedLeft
    <3> QED BY <1>1, <1>4, <1>5, <3>1 DEF Left
  <2> QED BY <1>1, <2>1 DEF DeletedLeft
<1> QED BY <1>6, <1>7, <1>8, <1>9 DEF SerialInv

\* Nothing has happened yet.
LEMMA InitSerial == Init => SerialInv
<1> SUFFICES ASSUME Init PROVE SerialInv
  OBVIOUS
<1>1. /\ codes = <<>> /\ grants = {} /\ deleted = {} /\ req = [r \in Requests |-> Idle]
  BY DEF Init
<1>2. \A r \in Admins : req[r].pc \notin Busy
  BY <1>1, IdleSound, CallNames DEF Requests
<1>3. AtWork /\ CascadeSound
  BY <1>2, CallNames DEF AtWork, CascadeSound, CascadeCalls
<1> QED BY <1>1, <1>3 DEF SerialInv, IdsDrawn, DeletedLeft

\* Every step keeps the serial invariant while one console request runs at a time.
LEMMA SerialStep ==
  ASSUME OneAdmin, IInv, SerialInv, [Next]_vars
  PROVE  SerialInv'
<1>1. ASSUME NEW r \in Admins, AdminStart(r) \/ AdminStep(r) PROVE SerialInv'
  BY <1>1, StartSerial, AddSerial, MemberWritten, RemoveSerial, TakingStep, GrantSerial,
     MintSerial, IssueSerial, OutgoingStep, CascadeSerial DEF AdminStep
<1>2. ASSUME NEW a \in Agents, AgentStep(a) PROVE SerialInv'
  <2>1. a \in Requests
    BY DEF Requests
  <2>2. Eases /\ Continues(a) /\ req'[a].pc \notin CascadeCalls
    BY <1>2, AgentEases, AgentContinues, CallNames
  <2> QED BY <2>1, <2>2, EasesKeeps
<1>3. CASE UNCHANGED vars
  <2>1. /\ member' = member /\ token' = token /\ codes' = codes /\ grants' = grants /\ req' = req
        /\ added' = added /\ deleted' = deleted
    BY <1>3 DEF vars, stores, ledger
  <2> QED BY <2>1 DEF SerialInv, AtWork, CascadeSound, IdsDrawn, DeletedLeft, Present, NoneOpen,
                      Left, OfMember
<1> QED BY <1>1, <1>2, <1>3, OutsideSerial DEF Next

\* The serial invariant holds in every reachable state of a console that serves one
\* request at a time.
THEOREM SerialInductive ==
  ASSUME OneAdmin
  PROVE  Spec => [](IInv /\ SerialInv)
<1>1. Init => SerialInv
  BY InitSerial
<1>2. IInv /\ SerialInv /\ [Next]_vars => SerialInv'
  BY SerialStep
<1> QED BY InitIInv, IInvStep, <1>1, <1>2, PTL DEF Spec

\* A member reported as deleted has left nothing behind, whatever agents, refusals and
\* crashes do meanwhile, as long as the console serves one request at a time
\* (usersDeleteBatch: "a pending code must not outlive its member").
THEOREM DeleteLeavesNothing ==
  ASSUME OneAdmin
  PROVE  Spec => []DeleteIsComplete
<1>1. IInv /\ SerialInv => DeleteIsComplete
  BY DEF SerialInv, DeletedLeft, Left, NoneOpen, DeleteIsComplete
<1> QED BY SerialInductive, <1>1, PTL

-----------------------------------------------------------------------------
(* Every code is accounted for                                             *)

\* The calls between issuing a code and announcing or voiding it.
Announcing == {"advance", "mail", "pin", "selfMail", "voidAdvance", "voidMail"}

\* A code that can be redeemed though it was not announced, and neither did its
\* revocation fail, nor the daemon die, nor a self-invite give it up.
Unsettled(k) ==
  /\ codes[k].status = "pending"
  /\ codes[k].outcome \notin {"sent", "unvoided", "crashed"}
  /\ ~(codes[k].outcome = "abandoned" /\ codes[k].by = "self")

\* Such a code is in the hands of the request that issued it.
Accounted ==
  \A k \in DOMAIN codes :
    Unsettled(k) => \E r \in Admins : req[r].code = k /\ req[r].pc \in Announcing

\* One request moved: it accounts for the code it issued, and settled the one it had.
LEMMA AccountKeeps ==
  ASSUME Accounted, NEW r \in Requests, OnlyMoves(r),
         \A k \in DOMAIN codes' :
           Unsettled(k)' =>
             \/ r \in Admins /\ req'[r].code = k /\ req'[r].pc \in Announcing
             \/ /\ k \in DOMAIN codes /\ Unsettled(k)
                /\ ~(req[r].pc \in Announcing /\ req[r].code = k)
  PROVE  Accounted'
<1> SUFFICES ASSUME NEW k \in DOMAIN codes', Unsettled(k)'
             PROVE  \E x \in Admins : req'[x].code = k /\ req'[x].pc \in Announcing
  BY DEF Accounted
<1>1. CASE r \in Admins /\ req'[r].code = k /\ req'[r].pc \in Announcing
  BY <1>1
<1>2. CASE k \in DOMAIN codes /\ Unsettled(k) /\ ~(req[r].pc \in Announcing /\ req[r].code = k)
  <2>1. PICK x \in Admins : req[x].code = k /\ req[x].pc \in Announcing
    BY <1>2 DEF Accounted
  <2>2. x # r /\ x \in Requests
    BY <1>2, <2>1 DEF Requests
  <2>3. req'[x] = req[x]
    BY <2>2 DEF OnlyMoves
  <2> QED BY <2>1, <2>3
<1> QED BY <1>1, <1>2

\* A call that announces nothing and unsettles nothing.
LEMMA AsideKeeps ==
  ASSUME Accounted, NEW r \in Requests, OnlyMoves(r), req[r].pc \notin Announcing,
         DOMAIN codes' = DOMAIN codes,
         \A k \in DOMAIN codes : Unsettled(k)' => Unsettled(k)
  PROVE  Accounted'
BY AccountKeeps

\* A step of a console request moves no other.
LEMMA AdminMoves ==
  ASSUME IInv, NEW r \in Admins, AdminStart(r) \/ AdminStep(r)
  PROVE  OnlyMoves(r)
<1>1. /\ r \in Requests /\ TypeOK /\ req \in [Requests -> Request]
      /\ req' \in [Requests -> Request]
  <2>1. [Next]_vars
    BY DEF Next
  <2>2. IInv'
    BY <2>1, IInvStep
  <2> QED BY <2>2 DEF IInv, TypeOK, Requests
<1>2. CASE AdminStart(r)
  <2>1. req' = req \/ \E q : req' = [req EXCEPT ![r] = q]
    BY <1>2 DEF AdminStart, Resend, Cancel, Delete, Deactivate, UnknownUser, Invite, SelfInvite,
                Begin, vars
  <2> QED BY <1>1, <2>1 DEF OnlyMoves
<1>3. CASE Done(r) \/ Fail(r) \/ \E pc : Goto(r, pc)
  BY <1>1, <1>3 DEF Done, Fail, Goto, OnlyMoves
<1>4. CASE AddMember(r) \/ WasOnline(r) \/ Rotated(r)
  BY <1>1, <1>4, AddMoves, PrepareMoves DEF Continues
<1>5. CASE Mint(r)
  <2>1. Fail(r) \/ req' = [req EXCEPT ![r].pc = "issue", ![r].secret = minted + 1]
    BY <1>5 DEF Mint
  <2> QED BY <1>1, <1>3, <2>1 DEF OnlyMoves
<1>6. CASE Issue(r)
  <2>1. \/ Fail(r) \/ Goto(r, "unmint")
        \/ req' = [req EXCEPT ![r].pc = "advance", ![r].code = Len(codes')]
    BY <1>6 DEF Issue
  <2> QED BY <1>1, <1>3, <2>1 DEF OnlyMoves
<1>7. CASE Conflict(r) \/ Grant(r) \/ NeedsToken(r) \/ NeedsCode(r) \/ UndoGrant(r)
           \/ SelfRevoke(r) \/ Unmint(r)
  BY <1>3, <1>7 DEF Conflict, Grant, NeedsToken, NeedsCode, UndoGrant, SelfRevoke, Unmint
<1>8. CASE Advance(r) \/ UndoMember(r) \/ Mail(r) \/ Pin(r) \/ SelfMail(r) \/ Void(r) \/ VoidAll(r)
  BY <1>3, <1>8 DEF Advance, UndoMember, Mail, Pin, SelfMail, Void, VoidAll
<1>9. CASE DeleteToken(r) \/ DeleteGrants(r) \/ DeleteCodes(r) \/ DeleteMember(r)
           \/ CheckSession(r) \/ EndSession(r) \/ StampEnd(r)
  BY <1>3, <1>9 DEF DeleteToken, DeleteGrants, DeleteCodes, DeleteMember, CheckSession,
                    EndSession, StampEnd
<1> QED BY <1>2, <1>4, <1>5, <1>6, <1>7, <1>8, <1>9 DEF AdminStep

\* Voiding every code of a member unsettles none.
LEMMA AllVoidedSettles ==
  ASSUME TypeOK, NEW id, codes' = AllVoided(id)
  PROVE  DOMAIN codes' = DOMAIN codes /\ \A k \in DOMAIN codes : Unsettled(k)' => Unsettled(k)
<1>1. DOMAIN codes' = DOMAIN codes
  BY DEF AllVoided
<1>2. ASSUME NEW k \in DOMAIN codes, Unsettled(k)' PROVE Unsettled(k)
  <2>1. codes[k] \in Code
    BY CodeFacts
  <2>2. codes'[k] = IF codes[k].id = id /\ codes[k].status = "pending"
                      THEN [codes[k] EXCEPT !.status = "revoked"] ELSE codes[k]
    BY DEF AllVoided
  <2>3. [codes[k] EXCEPT !.status = "revoked"].status = "revoked"
    BY <2>1 DEF Code
  <2> QED BY <1>2, <2>2, <2>3 DEF Unsettled
<1> QED BY <1>1, <1>2

\* What a statement on one row settles.
LEMMA OneCodeSettles ==
  ASSUME TypeOK, NEW j \in DOMAIN codes,
         \/ codes' = [codes EXCEPT ![j].outcome = "sent", ![j].out = TRUE]
         \/ codes' = [codes EXCEPT ![j].outcome = "unvoided"]
         \/ \E c : /\ codes' = [codes EXCEPT ![j] = c]
                  /\ c.outcome = "abandoned" /\ c.by = "self"
         \/ \E s : s # "pending" /\ codes' = [codes EXCEPT ![j].status = s]
  PROVE  /\ DOMAIN codes' = DOMAIN codes /\ ~Unsettled(j)'
         /\ \A k \in DOMAIN codes : k # j => codes'[k] = codes[k]
<1>1. codes[j] \in Code
  BY CodeFacts
<1>2. ASSUME NEW c, codes' = [codes EXCEPT ![j] = c],
             \/ c.status # "pending"
             \/ c.outcome \in {"sent", "unvoided", "crashed"}
             \/ c.outcome = "abandoned" /\ c.by = "self"
      PROVE  /\ DOMAIN codes' = DOMAIN codes /\ ~Unsettled(j)'
             /\ \A k \in DOMAIN codes : k # j => codes'[k] = codes[k]
  BY <1>2 DEF Unsettled
<1>3. CASE codes' = [codes EXCEPT ![j].outcome = "sent", ![j].out = TRUE]
  <2> DEFINE c == [codes[j] EXCEPT !.outcome = "sent", !.out = TRUE]
  <2>1. c.outcome = "sent" /\ codes' = [codes EXCEPT ![j] = c]
    BY <1>1, <1>3 DEF Code
  <2> HIDE DEF c
  <2> QED BY <1>2, <2>1
<1>4. CASE codes' = [codes EXCEPT ![j].outcome = "unvoided"]
  <2> DEFINE c == [codes[j] EXCEPT !.outcome = "unvoided"]
  <2>1. c.outcome = "unvoided" /\ codes' = [codes EXCEPT ![j] = c]
    BY <1>1, <1>4 DEF Code
  <2> HIDE DEF c
  <2> QED BY <1>2, <2>1
<1>5. ASSUME NEW s, s # "pending", codes' = [codes EXCEPT ![j].status = s]
      PROVE  /\ DOMAIN codes' = DOMAIN codes /\ ~Unsettled(j)'
             /\ \A k \in DOMAIN codes : k # j => codes'[k] = codes[k]
  <2> DEFINE c == [codes[j] EXCEPT !.status = s]
  <2>1. c.status = s /\ codes' = [codes EXCEPT ![j] = c]
    BY <1>1, <1>5 DEF Code
  <2> HIDE DEF c
  <2> QED BY <1>2, <1>5, <2>1
<1> QED BY <1>2, <1>3, <1>4, <1>5

\* The calls that write no code, or void all those of a member.
LEMMA AsideStep ==
  ASSUME IInv, Accounted, NEW r \in Admins, AdminStart(r) \/ AdminStep(r),
         ~Issue(r), ~Advance(r), ~Mail(r), ~Pin(r), ~SelfMail(r), ~Void(r)
  PROVE  Accounted'
<1>1. OnlyMoves(r) /\ r \in Requests /\ TypeOK
  BY AdminMoves DEF Requests, IInv
<1>2. CASE VoidAll(r) \/ DeleteCodes(r)
  <2>1. req[r].pc \notin Announcing
    BY <1>2 DEF VoidAll, DeleteCodes, At, Announcing
  <2>2. codes' = codes \/ codes' = AllVoided(req[r].m.id)
    BY <1>2 DEF VoidAll, DeleteCodes
  <2>3. PICK me : me = req[r].m.id
    OBVIOUS
  <2>4. codes' = codes \/ codes' = AllVoided(me)
    BY <2>2, <2>3
  <2>5. DOMAIN codes' = DOMAIN codes /\ \A k \in DOMAIN codes : Unsettled(k)' => Unsettled(k)
    <3>1. CASE codes' = codes
      BY <3>1 DEF Unsettled
    <3>2. CASE codes' = AllVoided(me)
      BY <1>1, <3>2, AllVoidedSettles
    <3> QED BY <2>4, <3>1, <3>2
  <2> QED BY <1>1, <2>1, <2>5, AsideKeeps
<1>3. CASE codes' = codes /\ req[r].pc \notin Announcing
  BY <1>1, <1>3, AsideKeeps DEF Unsettled
<1>4. CASE AdminStart(r)
  BY <1>3, <1>4 DEF AdminStart, Resend, Cancel, Delete, Deactivate, UnknownUser, Invite,
     SelfInvite, Begin, vars, stores, At, Announcing
<1>5. CASE AddMember(r) \/ UndoMember(r) \/ Conflict(r) \/ Grant(r) \/ NeedsToken(r)
           \/ NeedsCode(r) \/ UndoGrant(r) \/ WasOnline(r) \/ Rotated(r) \/ SelfRevoke(r)
  BY <1>3, <1>5 DEF AddMember, UndoMember, Conflict, Grant, NeedsToken, NeedsCode, UndoGrant,
     WasOnline, Rotated, SelfRevoke, stores, At, Announcing
<1>6. CASE Mint(r) \/ Unmint(r) \/ DeleteToken(r) \/ DeleteGrants(r) \/ DeleteMember(r)
           \/ CheckSession(r) \/ EndSession(r) \/ StampEnd(r)
  BY <1>3, <1>6 DEF Mint, Unmint, DeleteToken, DeleteGrants, DeleteMember, CheckSession,
     EndSession, StampEnd, stores, At, Announcing
<1> QED BY <1>2, <1>4, <1>5, <1>6 DEF AdminStep

\* Issue hands the new code to its request.
LEMMA IssueAccounted ==
  ASSUME IInv, Accounted, NEW r \in Admins, Issue(r)
  PROVE  Accounted'
<1>1. OnlyMoves(r) /\ r \in Requests /\ req[r].pc \notin Announcing
  BY AdminMoves DEF AdminStep, Requests, Issue, At, Announcing
<1>2. CASE codes' = codes
  BY <1>1, <1>2, AsideKeeps DEF Unsettled
<1>3. CASE /\ codes' = Enveloped(r)
           /\ req' = [req EXCEPT ![r].pc = "advance", ![r].code = Len(codes')]
  <2>1. /\ DOMAIN codes' = DOMAIN codes \cup {req'[r].code} /\ req'[r].pc = "advance"
        /\ \A k \in DOMAIN codes : codes'[k] = codes[k]
    BY <1>3, IssueMoves
  <2>2. ASSUME NEW k \in DOMAIN codes', Unsettled(k)'
        PROVE  \/ r \in Admins /\ req'[r].code = k /\ req'[r].pc \in Announcing
               \/ k \in DOMAIN codes /\ Unsettled(k) /\ ~(req[r].pc \in Announcing /\ req[r].code = k)
    BY <1>1, <2>1, <2>2 DEF Unsettled, Announcing
  <2> QED BY <1>1, <2>2, AccountKeeps
<1> QED BY <1>2, <1>3 DEF Issue

\* Whoever announces a code keeps it until the mail is out, or voids it.
LEMMA AnnounceAccounted ==
  ASSUME IInv, Accounted, NEW r \in Admins, Advance(r) \/ Mail(r) \/ Pin(r) \/ SelfMail(r)
                                         \/ Void(r)
  PROVE  Accounted'
<1>1. OnlyMoves(r) /\ r \in Requests /\ TypeOK
  BY AdminMoves DEF AdminStep, Requests, IInv
<1>2. PICK j : j = req[r].code
  OBVIOUS
<1>3. /\ req[r].pc \in Announcing /\ j \in DOMAIN codes
      /\ req[r].pc \in {"pin", "selfMail"} => req[r].kind = "self"
  <2>1. req[r].pc \in Announcing
    BY DEF Advance, Mail, Pin, SelfMail, Void, At, Announcing
  <2> QED BY <1>1, <1>2, <2>1 DEF Announcing, IInv, RequestsSound, Sound
<1>4. ASSUME NEW pc \in Announcing, Goto(r, pc), DOMAIN codes' = DOMAIN codes,
             \A k \in DOMAIN codes : Unsettled(k)' => Unsettled(k)
      PROVE  Accounted'
  <2>1. pc \in AdminCalls \cup AgentCalls
    BY DEF Announcing, AdminCalls
  <2>2. req'[r].pc = pc /\ req'[r].code = j
    BY <1>1, <1>2, <1>4, <2>1, GotoMoves DEF WentOn
  <2> QED BY <1>1, <1>2, <1>3, <1>4, <2>2, AccountKeeps
<1>5. ASSUME DOMAIN codes' = DOMAIN codes, ~Unsettled(j)',
             \A k \in DOMAIN codes : k # j => codes'[k] = codes[k]
      PROVE  Accounted'
  <2>1. ASSUME NEW k \in DOMAIN codes', Unsettled(k)'
        PROVE  k \in DOMAIN codes /\ Unsettled(k) /\ ~(req[r].pc \in Announcing /\ req[r].code = k)
    BY <1>2, <1>5, <2>1 DEF Unsettled
  <2> QED BY <1>1, <2>1, AccountKeeps
<1>6. CASE Advance(r)
  <2>1. codes' = codes /\ \E pc \in Announcing : Goto(r, pc)
    BY <1>6 DEF Advance, Announcing
  <2> QED BY <1>4, <2>1 DEF Unsettled
<1>7. CASE Goto(r, "voidMail") /\ \E late \in BOOLEAN : codes' = [codes EXCEPT ![j].out = late]
  <2>1. PICK late \in BOOLEAN : codes' = [codes EXCEPT ![j].out = late]
    BY <1>7
  <2>2. codes[j] \in Code
    BY <1>1, <1>3, CodeFacts
  <2> DEFINE c == [codes[j] EXCEPT !.out = late]
  <2>3. c.status = codes[j].status /\ c.outcome = codes[j].outcome
          /\ c.by = codes[j].by
    BY <2>2 DEF Code
  <2>4. codes' = [codes EXCEPT ![j] = c]
    BY <2>1
  <2> HIDE DEF c
  <2>5. DOMAIN codes' = DOMAIN codes /\ \A k \in DOMAIN codes : Unsettled(k)' => Unsettled(k)
    BY <1>3, <2>3, <2>4 DEF Unsettled
  <2> QED BY <1>4, <1>7, <2>5 DEF Announcing
<1>8. CASE \/ codes' = [codes EXCEPT ![j].outcome = "sent", ![j].out = TRUE]
           \/ codes' = [codes EXCEPT ![j].outcome = "unvoided"]
           \/ codes' = [codes EXCEPT ![j].status = "revoked"]
           \/ /\ req[r].pc \in {"pin", "selfMail"}
              /\ \E b \in BOOLEAN : codes' = Abandoned(r, b)
  <2>1. \/ codes' = [codes EXCEPT ![j].outcome = "sent", ![j].out = TRUE]
        \/ codes' = [codes EXCEPT ![j].outcome = "unvoided"]
        \/ \E c : /\ codes' = [codes EXCEPT ![j] = c]
                 /\ c.outcome = "abandoned" /\ c.by = "self"
        \/ \E s : s # "pending" /\ codes' = [codes EXCEPT ![j].status = s]
    <3>1. ASSUME NEW b \in BOOLEAN, codes' = Abandoned(r, b), req[r].kind = "self"
          PROVE  \E c : /\ codes' = [codes EXCEPT ![j] = c]
                        /\ c.outcome = "abandoned" /\ c.by = "self"
      BY <1>1, <1>2, <1>3, <3>1, AbandonedCode
    <3> QED BY <1>3, <1>8, <3>1
  <2> QED BY <1>1, <1>3, <1>5, <2>1, OneCodeSettles
<1>9. CASE codes' = codes /\ codes[j].status # "pending"
  BY <1>5, <1>9 DEF Unsettled
<1>10. CASE codes' = codes /\ Goto(r, "selfMail")
  BY <1>4, <1>10 DEF Announcing, Unsettled
<1>11. codes[j].out \in BOOLEAN
  BY <1>1, <1>3, CodeFacts DEF Code
<1> QED BY <1>2, <1>6, <1>7, <1>8, <1>9, <1>10, <1>11 DEF Mail, Pin, SelfMail, Void, At

\* An agent burns a code at most, and announces none.
LEMMA AgentAccounted ==
  ASSUME IInv, Accounted, NEW a \in Agents, AgentStep(a)
  PROVE  Accounted'
<1>1. OnlyMoves(a) /\ a \in Requests /\ TypeOK
  BY AgentContinues DEF Continues, Requests, IInv
<1>2. req[a].pc \notin Announcing
  BY DEF AgentStep, Redeem, Unwrap, Activate, Report, Mark, At, Announcing
<1>3. CASE codes' = codes
  BY <1>1, <1>2, <1>3, AsideKeeps DEF Unsettled
<1>4. CASE codes' # codes
  <2> DEFINE j == req[a].code
  <2>1. codes' = [codes EXCEPT ![j].status = "consumed"] /\ req[a].pc = "unwrap"
    BY <1>4 DEF AgentStep, Redeem, Unwrap, Activate, Report, Mark, stores, At
  <2>2. j \in DOMAIN codes
    BY <1>1, <2>1 DEF IInv, RequestsSound, Sound
  <2>3. PICK i : i = j
    OBVIOUS
  <2>4. i \in DOMAIN codes /\ codes' = [codes EXCEPT ![i].status = "consumed"]
    BY <2>1, <2>2, <2>3
  <2>5. /\ DOMAIN codes' = DOMAIN codes /\ ~Unsettled(i)'
        /\ \A k \in DOMAIN codes : k # i => codes'[k] = codes[k]
    BY <1>1, <2>4, OneCodeSettles
  <2>6. \A k \in DOMAIN codes : Unsettled(k)' => Unsettled(k)
    BY <2>5 DEF Unsettled
  <2> QED BY <1>1, <1>2, <2>5, <2>6, AsideKeeps
<1> QED BY <1>3, <1>4

\* A code that ages is settled; a crash leaves its mark on the codes in flight.
LEMMA OutsideAccounted ==
  ASSUME IInv, Accounted, Crash \/ \E k \in DOMAIN codes : Age(k)
  PROVE  Accounted'
<1>1. TypeOK
  BY DEF IInv
<1>2. ASSUME NEW j \in DOMAIN codes, Age(j) PROVE Accounted'
  <2>1. codes' = [codes EXCEPT ![j].status = "aged"] /\ req' = req
    BY <1>2 DEF Age
  <2>2. /\ DOMAIN codes' = DOMAIN codes /\ ~Unsettled(j)'
        /\ \A k \in DOMAIN codes : k # j => codes'[k] = codes[k]
    BY <1>1, <2>1, OneCodeSettles
  <2>3. \A k \in DOMAIN codes : Unsettled(k)' => Unsettled(k)
    BY <2>2 DEF Unsettled
  <2> QED BY <2>1, <2>2, <2>3 DEF Accounted
<1>3. CASE Crash
  <2>1. DOMAIN codes' = DOMAIN codes
    BY <1>3 DEF Crash
  <2>2. ASSUME NEW k \in DOMAIN codes, Unsettled(k)' PROVE FALSE
    <3>1. codes[k] \in Code
      BY <1>1, CodeFacts
    <3>2. [codes[k] EXCEPT !.outcome = "crashed"].outcome = "crashed"
      BY <3>1 DEF Code
    <3>3. codes'[k] = codes[k] /\ ~\E r \in Admins : req[r].code = k
      BY <1>3, <2>2, <3>2 DEF Crash, Unsettled
    <3>4. Unsettled(k)
      BY <2>2, <3>3 DEF Unsettled
    <3> QED BY <3>3, <3>4 DEF Accounted
  <2> QED BY <2>1, <2>2 DEF Accounted
<1> QED BY <1>2, <1>3

\* Every step keeps the codes accounted for.
LEMMA AccountedStep ==
  ASSUME IInv, Accounted, [Next]_vars
  PROVE  Accounted'
<1>1. ASSUME NEW r \in Admins, AdminStart(r) \/ AdminStep(r) PROVE Accounted'
  <2>1. CASE Issue(r)
    BY <2>1, IssueAccounted
  <2>2. CASE Advance(r) \/ Mail(r) \/ Pin(r) \/ SelfMail(r) \/ Void(r)
    BY <2>2, AnnounceAccounted
  <2> QED BY <1>1, <2>1, <2>2, AsideStep
<1>2. ASSUME NEW a \in Agents, AgentStep(a) PROVE Accounted'
  BY <1>2, AgentAccounted
<1>3. CASE UNCHANGED vars
  BY <1>3 DEF vars, stores, Accounted, Unsettled
<1> QED BY <1>1, <1>2, <1>3, OutsideAccounted DEF Next

\* No request, however many run at once and whatever fails, forgets a code it issued,
\* with one exception: a code that can be redeemed and was not announced is still in the
\* hands of the request that issued it (issueCode, IssueSelfInvite), unless its revocation
\* was refused or the daemon died.  The exception is a self-invite whose pin, registration
\* string or mail fails after the status advanced: handleInvite answers with the error and
\* gives the code up as it is.  An invitation or a resend never does.
THEOREM NoCodeForgotten == Spec => []Accounted
<1>1. Init => Accounted
  BY DEF Init, Accounted
<1>2. IInv /\ Accounted /\ [Next]_vars => Accounted'
  BY AccountedStep
<1> QED BY Inductive, <1>1, <1>2, PTL DEF Spec

-----------------------------------------------------------------------------
(* A failed invitation: what steps do to the stores                        *)

\* Only Grant gives a membership, and to the request's own member.
LEMMA AdminGrants ==
  ASSUME NEW r \in Admins, AdminStart(r) \/ AdminStep(r)
  PROVE  grants' \subseteq grants \/ (Grant(r) /\ grants' = grants \cup {req[r].m.id})
<1>1. CASE AdminStart(r)
  BY <1>1 DEF AdminStart, Resend, Cancel, Delete, Deactivate, UnknownUser, Invite, SelfInvite,
     Begin, vars, stores
<1>2. CASE AddMember(r) \/ Advance(r) \/ UndoMember(r) \/ Conflict(r) \/ Grant(r) \/ NeedsToken(r)
           \/ NeedsCode(r) \/ UndoGrant(r) \/ WasOnline(r) \/ Rotated(r) \/ SelfRevoke(r)
  BY <1>2 DEF AddMember, Advance, UndoMember, Conflict, Grant, NeedsToken, NeedsCode,
     UndoGrant, WasOnline, Rotated, SelfRevoke, stores
<1>3. CASE Mint(r) \/ Issue(r) \/ Unmint(r) \/ Mail(r) \/ Pin(r) \/ SelfMail(r) \/ Void(r) \/ VoidAll(r)
  BY <1>3 DEF Mint, Issue, Unmint, Mail, Pin, SelfMail, Void, VoidAll
<1>4. CASE DeleteToken(r) \/ DeleteGrants(r) \/ DeleteCodes(r) \/ DeleteMember(r)
           \/ CheckSession(r) \/ EndSession(r) \/ StampEnd(r)
  BY <1>4 DEF DeleteToken, DeleteGrants, DeleteCodes, DeleteMember, CheckSession, EndSession,
     StampEnd, stores
<1> QED BY <1>1, <1>2, <1>3, <1>4 DEF AdminStep

\* Whoever has left stays away: ids are not drawn twice, and a request gives memberships
\* and codes to the registered member only.
LEMMA LeftStays ==
  ASSUME IInv, SerialInv, [Next]_vars, NEW id \in 1..added, Left(id)
  PROVE  Left(id)'
<1>1. added \in Nat /\ TypeOK
  BY Numbers DEF IInv
<1>2. ASSUME CodesEase PROVE NoneOpen(id)'
  BY <1>2 DEF Left, CodesEase, NoneOpen, OfMember
<1>3. ASSUME NEW r \in Admins, AdminStart(r) \/ AdminStep(r) PROVE Left(id)'
  <2>1. req[r].pc \in {"grant", "issue"} => req[r].m.id # id
    BY CallNames DEF SerialInv, AtWork, Left
  <2>2. ~Present(id)'
    <3>1. NewMember.id = added + 1
      BY DEF NewMember
    <3>2. \/ member' = NewMember \/ member' = NoMember \/ member' = member
          \/ member # NoMember /\ member' # NoMember /\ member'.id = member.id
      BY <1>3, AdminMember
    <3> QED BY <1>1, <3>1, <3>2 DEF Left, Present
  <2>3. id \notin grants'
    BY <1>3, <2>1, AdminGrants DEF Left, Grant, At
  <2>4. NoneOpen(id)'
    <3>1. CASE /\ Issue(r) /\ codes' = Enveloped(r)
               /\ req' = [req EXCEPT ![r].pc = "advance", ![r].code = Len(codes')]
      <4>1. /\ DOMAIN codes' = DOMAIN codes \cup {req'[r].code}
            /\ codes'[req'[r].code] = [id |-> req[r].m.id, secret |-> req[r].secret, out |-> FALSE,
                                       by |-> "none", outcome |-> "open", status |-> "pending"]
            /\ \A k \in DOMAIN codes : codes'[k] = codes[k]
            /\ req[r].pc = "issue"
        BY <3>1, IssueMoves
      <4>2. codes'[req'[r].code].id # id
        BY <2>1, <4>1
      <4> QED BY <4>1, <4>2 DEF Left, NoneOpen, OfMember
    <3> QED BY <1>2, <1>3, <3>1, AdminCodes
  <2> QED BY <2>2, <2>3, <2>4 DEF Left
<1>4. ASSUME NEW a \in Agents, AgentStep(a) PROVE Left(id)'
  <2>1. Eases
    BY <1>4, AgentEases
  <2> QED BY <1>2, <2>1 DEF Eases, Left, Present
<1>5. CASE Crash \/ \E k \in DOMAIN codes : Age(k)
  <2>1. member' = member /\ grants' = grants
    BY <1>5 DEF Crash, Age
  <2> QED BY <1>2, <1>5, <2>1, OutsideEases DEF Left, Present
<1>6. CASE UNCHANGED vars
  BY <1>6 DEF vars, stores, Left, Present, NoneOpen, OfMember
<1> QED BY <1>3, <1>4, <1>5, <1>6 DEF Next

-----------------------------------------------------------------------------
(* A failed invitation: the invariant                                      *)

\* At most one store call or mail fails.
OneFault == MaxFaults <= 1

\* The calls of a request that created its member, before it issues a code, and those
\* that undo what it did.
Unissued == {"grant", "needsToken", "needsCode", "wasOnline", "rotated", "mint", "issue"}
Undoing == {"voidAdvance", "voidMail", "unmint", "undoGrant", "undoMember"}

\* What such a request knows: its member has no code but the request's own, which nobody
\* can redeem before it is announced; and it undoes something only after a failure.
Fresh(q) ==
  /\ q.pc \in Unissued \cup Announcing \cup Undoing
  /\ q.kind \in {"invite", "self"} /\ q.m.status = "registered" /\ ~q.wasOnline
  /\ q.pc \in Unissued => OfMember(q.m.id) = {}
  /\ q.pc = "grant" => q.kind = "invite"
  /\ q.pc = "advance" => codes[q.code].status # "consumed"
  /\ q.pc \in Announcing => OfMember(q.m.id) = {q.code}
  /\ q.pc \in {"unmint", "undoGrant", "undoMember"} => NoneOpen(q.m.id)
  /\ q.pc \in {"grant", "undoMember"} \/ q.kind = "self" => q.m.id \notin grants
  /\ q.pc \in Undoing => faults >= 1
  /\ q.pc = "mint" => (q.rotated <=> token # NoToken) \/ faults >= 1

\* A request that creates its member is fresh, and no other undoes one; nobody knows the
\* handle of a code that was not announced.
Good(q) ==
  /\ q.pc = "add" => q.kind \in {"invite", "self"} /\ ~q.wasOnline /\ ~q.rotated
  /\ q.isNew => Fresh(q)
  /\ q.pc = "undoMember" => q.isNew
  /\ q.pc \in {"advance", "mail", "pin", "selfMail"} => ~codes[q.code].out

AdminsGood == \A r \in Admins : Good(req[r])

\* Whoever redeems a code knows its handle.
OutSound == \A a \in Agents : req[a].pc = "unwrap" => codes[req[a].code].out

\* Only a failure leaves a credential without a member.
TokenSound == member = NoMember => token = NoToken \/ faults >= 1

UndoneLeft == \A id \in undone : Left(id)

FailInv == AdminsGood /\ OutSound /\ TokenSound /\ UndoneLeft

\* A new member is removed after the one failure there may be, so its removal succeeds.
LEMMA UndoneStep ==
  ASSUME OneAdmin, OneFault, IInv, SerialInv, FailInv, [Next]_vars
  PROVE  UndoneLeft'
<1>1. \A id \in undone : Left(id)'
  BY LeftStays DEF FailInv, UndoneLeft, IInv, TypeOK
<1>2. ASSUME NEW r \in Admins, UndoMember(r) PROVE UndoneLeft'
  <2>1. PICK me : me = req[r].m.id
    OBVIOUS
  <2>2. req[r].pc = "undoMember" /\ req[r].isNew
    BY <1>2 DEF UndoMember, At, FailInv, AdminsGood, Good
  <2>3. NoneOpen(me) /\ me \notin grants /\ faults >= 1
    BY <2>1, <2>2 DEF FailInv, AdminsGood, Good, Fresh, Undoing
  <2>4. ~Fault
    <3>1. faults \in Nat /\ MaxFaults \in Nat
      BY OnboardingAssumption DEF IInv, TypeOK
    <3> QED BY <2>3, <3>1 DEF Fault, OneFault
  <2>5. Present(me)
    BY <2>1, <2>2, CallNames DEF SerialInv, AtWork
  <2>6. /\ member' = NoMember /\ codes' = codes /\ grants' = grants /\ undone' = undone \cup {me}
    BY <1>2, <2>1, <2>4, <2>5 DEF UndoMember
  <2>7. Left(me)'
    BY <2>3, <2>6 DEF Left, Present, NoneOpen, OfMember
  <2> QED BY <1>1, <2>6, <2>7 DEF UndoneLeft
<1>3. (\E r \in Admins : UndoMember(r)) \/ undone' = undone
  <2>1. ASSUME NEW r \in Admins, AdminStart(r) PROVE undone' = undone
    BY <2>1 DEF AdminStart, Resend, Cancel, Delete, Deactivate, UnknownUser, Invite, SelfInvite,
       Begin, vars
  <2>2. ASSUME NEW r \in Admins, AdminStep(r), ~UndoMember(r) PROVE undone' = undone
    <3>1. CASE AddMember(r) \/ Advance(r) \/ Conflict(r) \/ Grant(r) \/ NeedsToken(r)
               \/ NeedsCode(r) \/ UndoGrant(r) \/ WasOnline(r) \/ Rotated(r) \/ SelfRevoke(r)
      BY <3>1 DEF AddMember, Advance, Conflict, Grant, NeedsToken, NeedsCode, UndoGrant,
         WasOnline, Rotated, SelfRevoke
    <3>2. CASE Mint(r) \/ Issue(r) \/ Unmint(r) \/ Mail(r) \/ Pin(r)
               \/ SelfMail(r) \/ Void(r) \/ VoidAll(r)
      BY <3>2 DEF Mint, Issue, Unmint, Mail, Pin, SelfMail, Void, VoidAll
    <3>3. CASE DeleteToken(r) \/ DeleteGrants(r) \/ DeleteCodes(r) \/ DeleteMember(r)
               \/ CheckSession(r) \/ EndSession(r) \/ StampEnd(r)
      BY <3>3 DEF DeleteToken, DeleteGrants, DeleteCodes, DeleteMember, CheckSession, EndSession,
         StampEnd
    <3> QED BY <2>2, <3>1, <3>2, <3>3 DEF AdminStep
  <2>3. ASSUME NEW a \in Agents, AgentStep(a) PROVE undone' = undone
    BY <2>3, AgentContinues
  <2>4. CASE Crash \/ (\E k \in DOMAIN codes : Age(k)) \/ UNCHANGED vars
    BY <2>4 DEF Crash, Age, vars
  <2> QED BY <2>1, <2>2, <2>3, <2>4 DEF Next
<1> QED BY <1>1, <1>2, <1>3 DEF UndoneLeft

\* Failures are counted.
LEMMA FaultsGrow ==
  ASSUME IInv, [Next]_vars
  PROVE  /\ faults \in Nat /\ faults' \in Nat /\ (faults >= 1 => faults' >= 1)
         /\ Fault => faults' >= 1
<1>1. faults \in Nat /\ faults' \in Nat
  <2>1. IInv'
    BY IInvStep
  <2> QED BY <2>1, OnboardingAssumption DEF IInv, TypeOK
<1>2. faults' = faults \/ Fault
  <2>1. ASSUME NEW r \in Admins, AdminStart(r) PROVE faults' = faults
    BY <2>1 DEF AdminStart, Resend, Cancel, Delete, Deactivate, UnknownUser, Invite, SelfInvite,
       Begin, vars
  <2>2. ASSUME NEW r \in Admins, AdminStep(r) PROVE faults' = faults \/ Fault
    <3>1. CASE AddMember(r) \/ Advance(r) \/ Conflict(r) \/ Grant(r) \/ NeedsToken(r)
               \/ NeedsCode(r) \/ UndoGrant(r) \/ WasOnline(r) \/ Rotated(r) \/ SelfRevoke(r)
      BY <3>1 DEF AddMember, Advance, Conflict, Grant, NeedsToken, NeedsCode, UndoGrant,
         WasOnline, Rotated, SelfRevoke
    <3>2. CASE Mint(r) \/ Issue(r) \/ Unmint(r) \/ Mail(r) \/ Pin(r)
               \/ SelfMail(r) \/ Void(r) \/ VoidAll(r)
      BY <3>2 DEF Mint, Issue, Unmint, Mail, Pin, SelfMail, Void, VoidAll
    <3>3. CASE DeleteToken(r) \/ DeleteGrants(r) \/ DeleteCodes(r) \/ DeleteMember(r)
               \/ CheckSession(r) \/ EndSession(r) \/ StampEnd(r) \/ UndoMember(r)
      BY <3>3 DEF DeleteToken, DeleteGrants, DeleteCodes, DeleteMember, CheckSession, EndSession,
         StampEnd, UndoMember
    <3> QED BY <2>2, <3>1, <3>2, <3>3 DEF AdminStep
  <2>3. ASSUME NEW a \in Agents, AgentStep(a) PROVE faults' = faults \/ Fault
    BY <2>3 DEF AgentStep, Redeem, Unwrap, Activate, Report, Mark
  <2>4. CASE Crash \/ (\E k \in DOMAIN codes : Age(k)) \/ UNCHANGED vars
    BY <2>4 DEF Crash, Age, vars
  <2> QED BY <2>1, <2>2, <2>3, <2>4 DEF Next
<1> QED BY <1>1, <1>2 DEF Fault

\* Only Mint creates a credential.
LEMMA AdminToken ==
  ASSUME NEW r \in Admins, AdminStart(r) \/ AdminStep(r)
  PROVE  token' = token \/ token' = NoToken \/ Mint(r)
<1>1. CASE AdminStart(r)
  BY <1>1 DEF AdminStart, Resend, Cancel, Delete, Deactivate, UnknownUser, Invite, SelfInvite,
     Begin, vars, stores
<1>2. CASE AddMember(r) \/ Advance(r) \/ UndoMember(r) \/ Conflict(r) \/ Grant(r) \/ NeedsToken(r)
           \/ NeedsCode(r) \/ UndoGrant(r) \/ WasOnline(r) \/ Rotated(r) \/ SelfRevoke(r)
  BY <1>2 DEF AddMember, Advance, UndoMember, Conflict, Grant, NeedsToken, NeedsCode,
     UndoGrant, WasOnline, Rotated, SelfRevoke, stores
<1>3. CASE Mint(r) \/ Issue(r) \/ Unmint(r) \/ Mail(r) \/ Pin(r) \/ SelfMail(r) \/ Void(r) \/ VoidAll(r)
  BY <1>3 DEF Issue, Unmint, Mail, Pin, SelfMail, Void, VoidAll
<1>4. CASE DeleteToken(r) \/ DeleteGrants(r) \/ DeleteCodes(r) \/ DeleteMember(r)
           \/ CheckSession(r) \/ EndSession(r) \/ StampEnd(r)
  BY <1>4 DEF DeleteToken, DeleteGrants, DeleteCodes, DeleteMember, CheckSession, EndSession,
     StampEnd, stores
<1> QED BY <1>1, <1>2, <1>3, <1>4 DEF AdminStep

\* A member leaves without its credential: the cascade revoked it first, and an undo
\* follows a failure.
LEMMA TokenStep ==
  ASSUME IInv, SerialInv, FailInv, [Next]_vars
  PROVE  TokenSound'
<1>1. faults >= 1 => faults' >= 1
  BY FaultsGrow
<1>2. ASSUME NEW r \in Admins, AdminStart(r) \/ AdminStep(r) PROVE TokenSound'
  <2>1. CASE UndoMember(r)
    BY <1>1, <2>1 DEF UndoMember, At, FailInv, AdminsGood, Good, Fresh, Undoing, TokenSound
  <2>2. CASE DeleteMember(r)
    BY <2>2 DEF DeleteMember, At, SerialInv, CascadeSound, CascadeCalls, TokenSound
  <2>3. CASE Mint(r)
    <3>1. member # NoMember
      BY <2>3, CallNames DEF Mint, At, SerialInv, AtWork, Present
    <3> QED BY <2>3, <3>1 DEF Mint, TokenSound
  <2>4. CASE AddMember(r) /\ member' = NewMember
    <3>1. NewMember # NoMember
      <4>1. NewMember.status = "registered" /\ NoMember.status = "none"
        BY DEF NewMember, NoMember
      <4> QED BY <4>1
    <3> QED BY <2>4, <3>1 DEF TokenSound
  <2>5. CASE token' = token \/ token' = NoToken
    BY <1>1, <1>2, <2>1, <2>2, <2>4, <2>5, AdminMember DEF FailInv, TokenSound
  <2> QED BY <1>2, <2>3, <2>5, AdminToken
<1>3. ASSUME NEW a \in Agents, AgentStep(a) PROVE TokenSound'
  BY <1>1, <1>3, AgentEases DEF Eases, FailInv, TokenSound
<1>4. CASE Crash \/ (\E k \in DOMAIN codes : Age(k)) \/ UNCHANGED vars
  BY <1>1, <1>4 DEF Crash, Age, vars, stores, FailInv, TokenSound
<1> QED BY <1>2, <1>3, <1>4 DEF Next

-----------------------------------------------------------------------------
(* A failed invitation: the request's own steps                            *)

\* Request r is at another call and has changed nothing else.
Turned(r, pc) ==
  /\ req'[r].pc = pc
  /\ req'[r].kind = req[r].kind /\ req'[r].m = req[r].m /\ req'[r].code = req[r].code
  /\ req'[r].isNew = req[r].isNew /\ req'[r].wasOnline = req[r].wasOnline
  /\ req'[r].rotated = req[r].rotated

\* Goto turns a request.
LEMMA Turns ==
  ASSUME IInv, NEW r \in Admins, NEW pc, Goto(r, pc)
  PROVE  Turned(r, pc)
<1>1. r \in Requests /\ req \in [Requests -> Request] /\ req[r] \in Request
  BY DEF Requests, IInv, TypeOK
<1> DEFINE q == [req[r] EXCEPT !.pc = pc]
<1>2. /\ q.pc = pc /\ q.kind = req[r].kind /\ q.m = req[r].m /\ q.code = req[r].code
      /\ q.isNew = req[r].isNew /\ q.wasOnline = req[r].wasOnline /\ q.rotated = req[r].rotated
  BY <1>1 DEF Request
<1>3. req' = [req EXCEPT ![r] = q]
  BY <1>1 DEF Goto
<1> HIDE DEF q
<1>4. req'[r] = q
  BY <1>1, <1>3
<1> QED BY <1>2, <1>4 DEF Turned

\* A request that is over.
LEMMA DoneGood ==
  ASSUME IInv, NEW r \in Admins, Done(r)
  PROVE  Good(req[r])'
<1>1. req'[r] = Idle
  BY DoneMoves DEF Requests, IInv
<1>2. Idle.pc = "idle" /\ Idle.isNew = FALSE
  BY DEF Idle
<1> QED BY <1>1, <1>2 DEF Good

\* A request that did not create its member and announces nothing.
LEMMA OldGood ==
  ASSUME NEW r, NEW pc, Turned(r, pc), ~req[r].isNew,
         pc \notin {"add", "undoMember", "advance", "mail", "pin", "selfMail"}
  PROVE  Good(req[r])'
BY DEF Turned, Good

\* What a request that created its member knows for good.
Made(q) == q.kind \in {"invite", "self"} /\ q.m.status = "registered" /\ ~q.wasOnline

\* A request fails: what it created is undone, in the code's order.
LEMMA FailGood ==
  ASSUME IInv, NEW r \in Admins, Fail(r), NEW me, me = req[r].m.id,
         req[r].isNew => /\ Made(req[r]) /\ NoneOpen(me)' /\ faults' >= 1
                         /\ req[r].kind = "self" => me \notin grants'
  PROVE  Good(req[r])'
<1>1. CASE Done(r)
  BY <1>1, DoneGood
<1>2. CASE req[r].kind = "invite" /\ Goto(r, "undoGrant")
  <2>1. Turned(r, "undoGrant")
    BY <1>2, Turns
  <2>2. CASE ~req[r].isNew
    BY <2>1, <2>2, OldGood
  <2>3. CASE req[r].isNew
    <3>1. Fresh(req[r])'
      BY <1>2, <2>1, <2>3 DEF Turned, Fresh, Made, Unissued, Undoing, Announcing
    <3> QED BY <2>1, <3>1 DEF Turned, Good
  <2> QED BY <2>2, <2>3
<1>3. CASE req[r].kind = "self" /\ req[r].isNew /\ Goto(r, "undoMember")
  <2>1. Turned(r, "undoMember")
    BY <1>3, Turns
  <2>2. Fresh(req[r])'
    BY <1>3, <2>1 DEF Turned, Fresh, Made, Unissued, Undoing, Announcing
  <2> QED BY <1>3, <2>1, <2>2 DEF Turned, Good
<1> QED BY <1>1, <1>2, <1>3 DEF Fail, AfterFailure

\* A request begins without having created anything.
LEMMA StartGood ==
  ASSUME IInv, FailInv, NEW r \in Admins, AdminStart(r)
  PROVE  Good(req[r])'
<1>1. r \in Requests /\ req \in [Requests -> Request]
  BY DEF Requests, IInv, TypeOK
<1>2. ASSUME NEW kind, NEW pc, Begin(r, kind, pc),
             pc \notin {"undoMember", "advance", "mail", "pin", "selfMail"},
             pc = "add" => kind \in {"invite", "self"}
      PROVE  Good(req[r])'
  <2> DEFINE q == [Idle EXCEPT !.pc = pc, !.kind = kind, !.m = member]
  <2>1. q.pc = pc /\ q.kind = kind /\ ~q.isNew /\ ~q.wasOnline /\ ~q.rotated
    BY DEF Idle
  <2>2. req' = [req EXCEPT ![r] = q]
    BY <1>2 DEF Begin
  <2> HIDE DEF q
  <2>3. req'[r] = q
    BY <1>1, <2>2
  <2> QED BY <1>2, <2>1, <2>3 DEF Good
<1>3. CASE UnknownUser(r)
  <2>1. req' = req /\ codes' = codes /\ req[r].pc = "idle" /\ ~req[r].isNew
    BY <1>3 DEF UnknownUser, vars, stores, At, FailInv, AdminsGood, Good, Fresh, Unissued,
       Announcing, Undoing
  <2> QED BY <2>1 DEF Good
<1>4. CASE Resend(r) \/ Cancel(r) \/ Delete(r) \/ Deactivate(r)
  BY <1>2, <1>4 DEF Resend, Cancel, Delete, Deactivate
<1>5. CASE Invite(r)
  <2>1. \E pc \in {"add", "conflict"} : Begin(r, "invite", pc)
    BY <1>5 DEF Invite
  <2> QED BY <1>2, <2>1
<1>6. CASE SelfInvite(r)
  <2>1. \E pc \in {"add", "selfRevoke"} : Begin(r, "self", pc)
    BY <1>6 DEF SelfInvite
  <2> QED BY <1>2, <2>1
<1> QED BY <1>3, <1>4, <1>5, <1>6 DEF AdminStart

\* A member that was just added has no membership and no code.
LEMMA AddGood ==
  ASSUME IInv, SerialInv, FailInv, NEW r \in Admins, AddMember(r)
  PROVE  Good(req[r])'
<1>1. /\ req[r].pc = "add" /\ req[r].kind \in {"invite", "self"} /\ ~req[r].wasOnline
      /\ ~req[r].rotated
  BY DEF AddMember, At, FailInv, AdminsGood, Good
<1>2. codes' = codes /\ grants' = grants /\ token' = token
  BY DEF AddMember
<1>3. CASE req'[r] = Idle
  <2>1. Idle.pc = "idle" /\ Idle.isNew = FALSE
    BY DEF Idle
  <2> QED BY <1>3, <2>1 DEF Good
<1>4. CASE /\ member = NoMember /\ faults' = faults
           /\ req'[r].pc = IF req[r].kind = "invite" THEN "grant" ELSE "mint"
           /\ req'[r].m = NewMember /\ req'[r].isNew = TRUE /\ req'[r].kind = req[r].kind
           /\ req'[r].wasOnline = req[r].wasOnline /\ req'[r].rotated = req[r].rotated
  <2>1. NewMember.id = added + 1 /\ NewMember.status = "registered" /\ added \in Nat
    BY Numbers DEF NewMember, IInv
  <2>2. added + 1 \notin grants /\ \A k \in DOMAIN codes : codes[k].id # added + 1
    BY <2>1 DEF SerialInv, IdsDrawn
  <2>3. OfMember(req[r].m.id)' = {} /\ req'[r].m.id \notin grants'
    BY <1>2, <1>4, <2>1, <2>2 DEF OfMember
  <2>4. token = NoToken \/ faults >= 1
    BY <1>4 DEF FailInv, TokenSound
  <2>5. Fresh(req[r])'
    BY <1>1, <1>2, <1>4, <2>1, <2>3, <2>4 DEF Fresh, Unissued, Announcing, Undoing
  <2> QED BY <1>1, <1>4, <2>5 DEF Good
<1> QED BY <1>3, <1>4, AddMoves

\* The membership, and the decision to send a code.
LEMMA DecideGood ==
  ASSUME IInv, FailInv, NEW r \in Admins, [Next]_vars,
         \/ Conflict(r) \/ Grant(r) \/ NeedsToken(r) \/ NeedsCode(r) \/ WasOnline(r) \/ Rotated(r)
         \/ SelfRevoke(r)
  PROVE  Good(req[r])'
<1>1. Good(req[r]) /\ (Fault => faults' >= 1)
  BY FaultsGrow DEF FailInv, AdminsGood
<1>2. CASE Done(r)
  BY <1>2, DoneGood
<1>3. CASE Conflict(r) \/ SelfRevoke(r)
  <2>1. ~req[r].isNew
    BY <1>1, <1>3 DEF Good, Fresh, Conflict, SelfRevoke, At, Unissued, Announcing, Undoing
  <2>2. CASE Goto(r, "grant") \/ Goto(r, "mint")
    BY <2>1, <2>2, Turns, OldGood
  <2> QED BY <1>2, <1>3, <2>2 DEF Conflict, SelfRevoke
<1>4. CASE Grant(r) /\ Goto(r, "needsToken")
  <2>1. Turned(r, "needsToken") /\ codes' = codes /\ req[r].pc = "grant"
    BY <1>4, Turns DEF Grant, At
  <2>2. CASE ~req[r].isNew
    BY <2>1, <2>2, OldGood
  <2>3. CASE req[r].isNew
    <3>1. Fresh(req[r]) /\ req[r].kind = "invite" /\ OfMember(req[r].m.id) = {}
      BY <1>1, <2>1, <2>3 DEF Good, Fresh, Unissued
    <3>2. OfMember(req[r].m.id)' = {}
      BY <2>1, <3>1 DEF OfMember, Turned
    <3>3. Fresh(req[r])'
      BY <2>1, <3>1, <3>2 DEF Turned, Fresh, Unissued, Announcing, Undoing
    <3> QED BY <2>1, <3>3 DEF Turned, Good
  <2> QED BY <2>2, <2>3
<1>5. CASE Grant(r) /\ Fault /\ grants' = grants /\ req[r].isNew /\ Goto(r, "undoMember")
  <2>1. Turned(r, "undoMember") /\ codes' = codes /\ req[r].pc = "grant"
    BY <1>5, Turns DEF Grant, At
  <2>2. Fresh(req[r]) /\ OfMember(req[r].m.id) = {} /\ req[r].m.id \notin grants
    BY <1>1, <1>5, <2>1 DEF Good, Fresh, Unissued
  <2>3. NoneOpen(req[r].m.id)'
    BY <2>1, <2>2 DEF NoneOpen, OfMember, Turned
  <2>4. Fresh(req[r])'
    BY <1>1, <1>5, <2>1, <2>2, <2>3 DEF Turned, Fresh, Unissued, Announcing, Undoing
  <2> QED BY <1>5, <2>1, <2>4 DEF Turned, Good
<1>6. CASE (NeedsToken(r) /\ Goto(r, "needsCode")) \/ (NeedsCode(r) /\ Goto(r, "wasOnline"))
  <2>1. PICK pc \in {"needsCode", "wasOnline"} : Goto(r, pc)
    BY <1>6
  <2>2. /\ Turned(r, pc) /\ codes' = codes /\ grants' = grants
        /\ req[r].pc \in {"needsToken", "needsCode"}
    BY <1>6, <2>1, Turns DEF NeedsToken, NeedsCode, stores, At
  <2>3. CASE ~req[r].isNew
    BY <2>1, <2>2, <2>3, OldGood
  <2>4. CASE req[r].isNew
    <3>1. Fresh(req[r]) /\ OfMember(req[r].m.id) = {}
      BY <1>1, <2>2, <2>4 DEF Good, Fresh, Unissued
    <3>2. OfMember(req[r].m.id)' = {}
      BY <2>2, <3>1 DEF OfMember, Turned
    <3>3. Fresh(req[r])'
      BY <2>1, <2>2, <3>1, <3>2 DEF Turned, Fresh, Unissued, Announcing, Undoing
    <3> QED BY <2>1, <2>2, <3>3 DEF Turned, Good
  <2> QED BY <2>3, <2>4
<1>7. CASE WasOnline(r) \/ Rotated(r)
  <2>1. /\ codes' = codes /\ grants' = grants /\ token' = token
        /\ req[r].pc \in {"wasOnline", "rotated"}
    BY <1>7 DEF WasOnline, Rotated, stores, At
  <2>2. /\ req'[r].pc \in {"rotated", "mint"}
        /\ req'[r].kind = req[r].kind /\ req'[r].isNew = req[r].isNew /\ req'[r].m = req[r].m
    BY <1>7, PrepareMoves
  <2>3. CASE ~req[r].isNew
    BY <2>2, <2>3 DEF Good
  <2>4. CASE req[r].isNew
    <3>1. Fresh(req[r]) /\ OfMember(req[r].m.id) = {} /\ req[r].m.status = "registered"
      BY <1>1, <2>1, <2>4 DEF Good, Fresh, Unissued
    <3>2. OfMember(req[r].m.id)' = {}
      BY <2>1, <2>2, <3>1 DEF OfMember
    <3>3. ~req'[r].wasOnline
      BY <1>7, <3>1, PrepareMoves DEF Fresh
    <3>4. req'[r].pc = "mint" => (req'[r].rotated <=> token' # NoToken)
      BY <1>7, <2>1, PrepareMoves DEF WasOnline, Rotated
    <3>5. Fresh(req[r])'
      BY <2>1, <2>2, <3>1, <3>2, <3>3, <3>4 DEF Fresh, Unissued, Announcing, Undoing
    <3> QED BY <2>2, <3>5 DEF Good
  <2> QED BY <2>3, <2>4
<1> QED BY <1>2, <1>3, <1>4, <1>5, <1>6, <1>7 DEF Grant, NeedsToken, NeedsCode

\* Minting fails for a new member only when a call was refused: nobody else mints or
\* revokes between the read and the call.
LEMMA MintGood ==
  ASSUME IInv, FailInv, NEW r \in Admins, [Next]_vars, Mint(r)
  PROVE  Good(req[r])'
<1>1. /\ Good(req[r]) /\ req[r].pc = "mint" /\ codes' = codes /\ grants' = grants
      /\ (Fault => faults' >= 1) /\ (faults >= 1 => faults' >= 1)
  BY FaultsGrow DEF FailInv, AdminsGood, Mint, At
<1>2. PICK me : me = req[r].m.id
  OBVIOUS
<1>3. ASSUME req[r].isNew
      PROVE  /\ Fresh(req[r]) /\ Made(req[r]) /\ OfMember(me) = {} /\ OfMember(me)' = {}
             /\ NoneOpen(me)' /\ (req[r].kind = "self" => me \notin grants')
  <2>1. Fresh(req[r]) /\ OfMember(me) = {}
    BY <1>1, <1>2, <1>3 DEF Good, Fresh, Unissued
  <2>2. OfMember(me)' = {}
    BY <1>1, <2>1 DEF OfMember
  <2> QED BY <1>1, <1>2, <2>1, <2>2 DEF Fresh, Made, NoneOpen
<1>4. CASE Fail(r) /\ (Fault \/ ~(req[r].rotated <=> token # NoToken))
  <2>1. req[r].isNew => faults' >= 1
    BY <1>1, <1>3, <1>4 DEF Fresh
  <2> QED BY <1>2, <1>3, <1>4, <2>1, FailGood
<1>5. CASE ~Fail(r)
  <2>1. /\ req'[r].pc = "issue" /\ req'[r].kind = req[r].kind /\ req'[r].m = req[r].m
        /\ req'[r].isNew = req[r].isNew /\ req'[r].wasOnline = req[r].wasOnline
    BY <1>5, MintMoves
  <2>2. CASE ~req[r].isNew
    BY <2>1, <2>2 DEF Good
  <2>3. CASE req[r].isNew
    <3>1. OfMember(req[r].m.id)' = {}
      BY <1>2, <1>3, <2>1, <2>3 DEF OfMember
    <3>2. Fresh(req[r])'
      BY <1>1, <1>2, <1>3, <2>1, <2>3, <3>1 DEF Fresh, Unissued, Announcing, Undoing
    <3> QED BY <2>1, <3>2 DEF Good
  <2> QED BY <2>2, <2>3
<1>6. CASE /\ token' = [secret |-> minted + 1, for |-> req[r].m.id, activated |-> FALSE]
           /\ req' = [req EXCEPT ![r].pc = "issue", ![r].secret = minted + 1]
  <2>1. req'[r].pc = "issue"
    <3>1. r \in Requests /\ req \in [Requests -> Request] /\ req[r] \in Request
      BY DEF Requests, IInv, TypeOK
    <3> QED BY <1>6, <3>1 DEF Request
  <2>2. ~Fail(r)
    <3>1. r \in Requests /\ req[r].pc \in Busy
      BY <1>1, CallNames DEF Requests
    <3> QED BY <2>1, <3>1, MovesContinue
  <2> QED BY <1>5, <2>2
<1> QED BY <1>4, <1>6 DEF Mint

\* The new code is the only one of a new member, and unannounced.
LEMMA IssueGood ==
  ASSUME IInv, FailInv, NEW r \in Admins, [Next]_vars, Issue(r)
  PROVE  Good(req[r])'
<1>1. /\ Good(req[r]) /\ req[r].pc = "issue" /\ grants' = grants /\ (Fault => faults' >= 1)
  BY FaultsGrow DEF FailInv, AdminsGood, Issue, At
<1>2. PICK me : me = req[r].m.id
  OBVIOUS
<1>3. ASSUME req[r].isNew
      PROVE  /\ Fresh(req[r]) /\ Made(req[r]) /\ OfMember(me) = {}
             /\ (req[r].kind = "self" => me \notin grants')
  BY <1>1, <1>2, <1>3 DEF Good, Fresh, Made, Unissued
<1>4. CASE Fault /\ codes' = codes /\ Fail(r)
  <2>1. req[r].isNew => NoneOpen(me)'
    BY <1>3, <1>4 DEF NoneOpen, OfMember
  <2> QED BY <1>1, <1>2, <1>3, <1>4, <2>1, FailGood
<1>5. CASE Fault /\ codes' = codes /\ Goto(r, "unmint")
  <2>1. Turned(r, "unmint")
    BY <1>5, Turns
  <2>2. CASE ~req[r].isNew
    BY <2>1, <2>2, OldGood
  <2>3. CASE req[r].isNew
    <3>1. NoneOpen(req[r].m.id)'
      BY <1>2, <1>3, <1>5, <2>1, <2>3 DEF NoneOpen, OfMember, Turned
    <3>2. Fresh(req[r])'
      BY <1>1, <1>2, <1>3, <1>5, <2>1, <2>3, <3>1
         DEF Turned, Made, Fresh, Unissued, Announcing, Undoing
    <3> QED BY <2>1, <3>2 DEF Turned, Good
  <2> QED BY <2>2, <2>3
<1>6. CASE /\ codes' = Enveloped(r)
           /\ req' = [req EXCEPT ![r].pc = "advance", ![r].code = Len(codes')]
  <2>1. PICK n : n = req'[r].code
    OBVIOUS
  <2>2. /\ DOMAIN codes' = DOMAIN codes \cup {n}
        /\ codes'[n] = [id |-> me, secret |-> req[r].secret, out |-> FALSE,
                        by |-> "none", outcome |-> "open", status |-> "pending"]
        /\ \A k \in DOMAIN codes : codes'[k] = codes[k]
        /\ req'[r].pc = "advance" /\ req'[r].kind = req[r].kind /\ req'[r].m = req[r].m
        /\ req'[r].isNew = req[r].isNew /\ req'[r].wasOnline = req[r].wasOnline
    BY <1>2, <1>6, <2>1, IssueMoves
  <2>3. codes'[n].id = me /\ codes'[n].out = FALSE /\ codes'[n].status = "pending"
    BY <2>2
  <2>4. CASE ~req[r].isNew
    BY <2>1, <2>2, <2>3, <2>4 DEF Good
  <2>5. CASE req[r].isNew
    <3>1. OfMember(req[r].m.id)' = {n}
      BY <1>2, <1>3, <2>2, <2>3, <2>5 DEF OfMember
    <3>2. Fresh(req[r])'
      BY <1>1, <1>2, <1>3, <2>1, <2>2, <2>3, <2>5, <3>1
         DEF Made, Fresh, Unissued, Announcing, Undoing
    <3> QED BY <2>1, <2>2, <2>3, <3>2 DEF Good
  <2> QED BY <2>4, <2>5
<1> QED BY <1>4, <1>5, <1>6 DEF Issue

\* The undo calls of a new member find the one failure behind them.
LEMMA UndoGood ==
  ASSUME OneFault, IInv, FailInv, NEW r \in Admins, [Next]_vars,
         Unmint(r) \/ UndoGrant(r) \/ UndoMember(r)
  PROVE  Good(req[r])'
<1>1. /\ Good(req[r]) /\ (faults >= 1 => faults' >= 1)
      /\ req[r].pc \in {"unmint", "undoGrant", "undoMember"}
  BY FaultsGrow DEF FailInv, AdminsGood, Unmint, UndoGrant, UndoMember, At
<1>2. PICK me : me = req[r].m.id
  OBVIOUS
<1>3. codes' = codes
  BY DEF Unmint, UndoGrant, UndoMember
<1>4. ASSUME req[r].isNew
      PROVE  /\ Fresh(req[r]) /\ Made(req[r]) /\ NoneOpen(me)' /\ faults' >= 1 /\ ~Fault
             /\ (req[r].kind = "self" => me \notin grants)
  <2>1. Fresh(req[r]) /\ NoneOpen(me) /\ faults >= 1
    BY <1>1, <1>2, <1>4 DEF Good, Fresh, Undoing
  <2>2. ~Fault
    <3>1. faults \in Nat /\ MaxFaults \in Nat
      BY OnboardingAssumption DEF IInv, TypeOK
    <3> QED BY <2>1, <3>1 DEF Fault, OneFault
  <2>3. NoneOpen(me)'
    BY <1>3, <2>1 DEF NoneOpen, OfMember
  <2> QED BY <1>1, <1>2, <2>1, <2>2, <2>3 DEF Fresh, Made
<1>5. CASE Done(r)
  BY <1>5, DoneGood
<1>6. CASE Unmint(r)
  <2>1. Fail(r) /\ grants' = grants
    BY <1>6 DEF Unmint
  <2> QED BY <1>2, <1>4, <2>1, FailGood
<1>7. CASE UndoGrant(r) /\ req[r].isNew /\ Goto(r, "undoMember")
  <2>1. Turned(r, "undoMember") /\ grants' = grants \ {me}
    BY <1>2, <1>4, <1>7, Turns DEF UndoGrant
  <2>2. NoneOpen(req[r].m.id)'
    BY <1>2, <1>4, <1>7, <2>1 DEF NoneOpen, OfMember, Turned
  <2>3. Fresh(req[r])'
    BY <1>2, <1>4, <1>7, <2>1, <2>2 DEF Turned, Made, Fresh, Unissued, Announcing, Undoing
  <2> QED BY <1>7, <2>1, <2>3 DEF Turned, Good
<1> QED BY <1>5, <1>6, <1>7 DEF UndoGrant, UndoMember

\* The status of a new member can be advanced: its only code is not burned, so it is not
\* active.
LEMMA AdvanceGood ==
  ASSUME IInv, SerialInv, FailInv, NEW r \in Admins, [Next]_vars, Advance(r)
  PROVE  Good(req[r])'
<1>1. /\ Good(req[r]) /\ req[r].pc = "advance" /\ codes' = codes /\ grants' = grants
      /\ (Fault => faults' >= 1) /\ ~codes[req[r].code].out
  BY FaultsGrow DEF FailInv, AdminsGood, Advance, At, Good
<1>2. PICK pc \in {"pin", "mail", "voidAdvance"} : Goto(r, pc)
  BY DEF Advance
<1>3. Turned(r, pc)
  BY <1>2, Turns
<1>4. CASE ~req[r].isNew
  BY <1>1, <1>2, <1>3, <1>4 DEF Turned, Good
<1>5. CASE req[r].isNew
  <2>1. /\ Fresh(req[r]) /\ OfMember(req[r].m.id) = {req[r].code}
        /\ codes[req[r].code].status # "consumed"
    BY <1>1, <1>5 DEF Good, Fresh, Announcing
  <2>2. AdvanceOK(r)
    <3>1. Present(req[r].m.id)
      BY <1>1, CallNames DEF SerialInv, AtWork
    <3>2. member.status # "active"
      BY <2>1, <3>1 DEF IInv, ActiveWasRedeemed, Present
    <3> QED BY <3>1, <3>2 DEF AdvanceOK
  <2>3. pc = "voidAdvance" => faults' >= 1
    <3>1. ASSUME ~Fault PROVE \E x \in {"pin", "mail"} : Goto(r, x)
      BY <2>2, <3>1 DEF Advance
    <3>2. ASSUME NEW x, Goto(r, x) PROVE x = pc
      BY <1>3, <3>2, Turns DEF Turned
    <3> QED BY <1>1, <3>1, <3>2
  <2>4. OfMember(req[r].m.id)' = {req'[r].code}
    BY <1>1, <1>3, <2>1 DEF OfMember, Turned
  <2>5. Fresh(req[r])'
    BY <1>1, <1>2, <1>3, <2>1, <2>3, <2>4 DEF Turned, Fresh, Unissued, Announcing, Undoing
  <2> QED BY <1>1, <1>2, <1>3, <2>5 DEF Turned, Good
<1> QED BY <1>4, <1>5

\* The codes of a member when a step keeps the rows and their members.
LEMMA SameCodes ==
  ASSUME CodesEase, NEW id
  PROVE  OfMember(id)' = OfMember(id) /\ (NoneOpen(id) => NoneOpen(id)')
BY DEF CodesEase, OfMember, NoneOpen

\* A mail that failed is answered by voiding the code, and the code is void.
LEMMA VoidGood ==
  ASSUME OneFault, IInv, SerialInv, FailInv, NEW r \in Admins, [Next]_vars,
         Mail(r) \/ Pin(r) \/ SelfMail(r) \/ Void(r)
  PROVE  Good(req[r])'
<1>1. /\ Good(req[r]) /\ (Fault => faults' >= 1) /\ (faults >= 1 => faults' >= 1)
      /\ req[r].pc \in {"mail", "pin", "selfMail", "voidAdvance", "voidMail"}
      /\ grants' = grants
  BY FaultsGrow DEF FailInv, AdminsGood, Mail, Pin, SelfMail, Void, At
<1>2. PICK me : me = req[r].m.id
  OBVIOUS
<1>3. CodesEase
  BY <1>1, AdminCodes DEF AdminStep, Issue, At
<1>4. ASSUME req[r].isNew
      PROVE  /\ Fresh(req[r]) /\ Made(req[r]) /\ OfMember(me) = {req[r].code}
             /\ OfMember(me)' = {req[r].code} /\ (req[r].kind = "self" => me \notin grants')
  <2>1. Fresh(req[r]) /\ OfMember(me) = {req[r].code}
    BY <1>1, <1>2, <1>4 DEF Good, Fresh, Announcing
  <2> QED BY <1>1, <1>2, <1>3, <2>1, SameCodes DEF Fresh, Made
<1>5. CASE Done(r)
  BY <1>5, DoneGood
<1>6. CASE Mail(r) /\ Fault /\ Goto(r, "voidMail")
  <2>1. Turned(r, "voidMail")
    BY <1>6, Turns
  <2>2. CASE ~req[r].isNew
    BY <2>1, <2>2, OldGood
  <2>3. CASE req[r].isNew
    <3>1. OfMember(req[r].m.id)' = {req'[r].code}
      BY <1>2, <1>4, <2>1, <2>3 DEF OfMember, Turned
    <3>2. Fresh(req[r])'
      BY <1>1, <1>2, <1>4, <1>6, <2>1, <2>3, <3>1
         DEF Turned, Made, Fresh, Unissued, Announcing, Undoing
    <3> QED BY <2>1, <3>2 DEF Turned, Good
  <2> QED BY <2>2, <2>3
<1>7. CASE Void(r)
  <2>1. ASSUME req[r].isNew PROVE NoneOpen(me)' /\ faults' >= 1
    <3>1. faults >= 1
      BY <1>4, <1>7, <2>1 DEF Fresh, Void, Undoing
    <3>2. ~Fault
      <4>1. faults \in Nat /\ MaxFaults \in Nat
        BY OnboardingAssumption DEF IInv, TypeOK
      <4> QED BY <3>1, <4>1 DEF Fault, OneFault
    <3>3. PICK j : j = req[r].code
      OBVIOUS
    <3>4. codes' = IF codes[j].status = "pending"
                     THEN [codes EXCEPT ![j].status = "revoked"] ELSE codes
      BY <1>7, <3>2, <3>3 DEF Void
    <3>5. j \in DOMAIN codes
      BY <1>4, <2>1, <3>3 DEF OfMember
    <3>6. codes'[j].status # "pending"
      <4>1. codes[j] \in Code
        BY <3>5, CodeFacts DEF IInv
      <4>2. [codes[j] EXCEPT !.status = "revoked"].status = "revoked"
        BY <4>1 DEF Code
      <4> QED BY <3>4, <3>5, <4>2
    <3>7. OfMember(me)' = {j}
      BY <1>4, <2>1, <3>3
    <3>8. NoneOpen(me)'
      BY <3>6, <3>7 DEF NoneOpen
    <3> QED BY <1>1, <3>1, <3>8
  <2>2. CASE Fail(r)
    BY <1>2, <1>4, <2>1, <2>2, FailGood
  <2>3. CASE Goto(r, "unmint")
    <3>1. Turned(r, "unmint")
      BY <2>3, Turns
    <3>2. CASE ~req[r].isNew
      BY <3>1, <3>2, OldGood
    <3>3. CASE req[r].isNew
      <4>1. NoneOpen(req[r].m.id)'
        BY <1>2, <2>1, <3>1, <3>3 DEF NoneOpen, OfMember, Turned
      <4>2. Fresh(req[r])'
        BY <1>1, <1>2, <1>4, <2>1, <3>1, <3>3, <4>1
           DEF Turned, Made, Fresh, Unissued, Announcing, Undoing
      <4> QED BY <3>1, <4>2 DEF Turned, Good
    <3> QED BY <3>2, <3>3
  <2> QED BY <1>7, <2>2, <2>3 DEF Void
<1>8. CASE Pin(r) /\ codes' = codes /\ Goto(r, "selfMail")
  <2>1. Turned(r, "selfMail") /\ req[r].pc = "pin" /\ ~codes[req[r].code].out
    BY <1>1, <1>8, Turns DEF Pin, At, Good
  <2>2. CASE ~req[r].isNew
    BY <1>8, <2>1, <2>2 DEF Turned, Good
  <2>3. CASE req[r].isNew
    <3>1. OfMember(req[r].m.id)' = {req'[r].code}
      BY <1>2, <1>4, <2>1, <2>3 DEF OfMember, Turned
    <3>2. Fresh(req[r])'
      BY <1>1, <1>2, <1>4, <1>8, <2>1, <2>3, <3>1
         DEF Turned, Made, Fresh, Unissued, Announcing, Undoing
    <3> QED BY <1>8, <2>1, <3>2 DEF Turned, Good
  <2> QED BY <2>2, <2>3
<1> QED BY <1>5, <1>6, <1>7, <1>8 DEF Mail, Pin, SelfMail

\* The other requests create no member.
LEMMA OtherGood ==
  ASSUME IInv, FailInv, NEW r \in Admins,
         \/ VoidAll(r) \/ DeleteToken(r) \/ DeleteGrants(r) \/ DeleteCodes(r) \/ DeleteMember(r)
         \/ CheckSession(r) \/ EndSession(r) \/ StampEnd(r)
  PROVE  Good(req[r])'
<1>1. /\ req[r].pc \in {"voidAll", "delToken", "delGrants", "delCodes", "delMember", "check",
                        "endSession", "stampEnd"}
      /\ \/ Done(r)
         \/ \E pc \in {"delGrants", "delCodes", "delMember", "endSession", "stampEnd"} : Goto(r, pc)
  BY DEF VoidAll, DeleteToken, DeleteGrants, DeleteCodes, DeleteMember, CheckSession, EndSession,
     StampEnd, At
<1>2. ~req[r].isNew
  BY <1>1 DEF FailInv, AdminsGood, Good, Fresh, Unissued, Announcing, Undoing
<1>3. CASE Done(r)
  BY <1>3, DoneGood
<1>4. ASSUME NEW pc \in {"delGrants", "delCodes", "delMember", "endSession", "stampEnd"}, Goto(r, pc)
      PROVE  Good(req[r])'
  BY <1>2, <1>4, Turns, OldGood
<1> QED BY <1>1, <1>3, <1>4

-----------------------------------------------------------------------------
(* A failed invitation: what agents, time and crashes do                   *)

\* A request that did not move stays good when no code becomes redeemable or known.
LEMMA GoodStays ==
  ASSUME IInv, NEW x \in Admins, req'[x] = req[x], Good(req[x]), CodesEase,
         \A k \in DOMAIN codes : codes'[k].out = codes[k].out,
         req[x].pc = "advance" /\ codes[req[x].code].status # "consumed"
            => codes'[req[x].code].status # "consumed",
         grants' = grants, token' = NoToken <=> token = NoToken, faults >= 1 => faults' >= 1
  PROVE  Good(req[x])'
<1>1. req[x].pc \in Announcing => req[x].code \in DOMAIN codes
  BY DEF Announcing, IInv, RequestsSound, Sound, Requests
<1>2. PICK me : me = req[x].m.id
  OBVIOUS
<1>3. OfMember(me)' = OfMember(me) /\ (NoneOpen(me) => NoneOpen(me)')
  BY SameCodes
<1>4. /\ OfMember(req[x].m.id)' = OfMember(req[x].m.id)
      /\ NoneOpen(req[x].m.id) => NoneOpen(req[x].m.id)'
  BY <1>2, <1>3 DEF OfMember, NoneOpen
<1>5. Fresh(req[x]) => Fresh(req[x])'
  BY <1>4 DEF Fresh
<1> QED BY <1>1, <1>5 DEF Good, Announcing

\* What an agent does to the codes and to the credential.
LEMMA AgentMarks ==
  ASSUME IInv, NEW a \in Agents, AgentStep(a)
  PROVE  /\ token' = NoToken <=> token = NoToken
         /\ \A k \in DOMAIN codes : codes'[k].out = codes[k].out
         /\ \A k \in DOMAIN codes : codes'[k].status # codes[k].status =>
              req[a].pc = "unwrap" /\ req[a].code = k
<1>1. a \in Requests /\ TypeOK
  BY DEF Requests, IInv
<1>2. token' = NoToken <=> token = NoToken
  <2>1. token' = token \/ (token # NoToken /\ token' = [token EXCEPT !.activated = TRUE])
    BY DEF AgentStep, Redeem, Unwrap, Activate, Report, Mark, stores
  <2>2. token # NoToken => [token EXCEPT !.activated = TRUE] # NoToken
    <3>1. ASSUME token # NoToken PROVE [token EXCEPT !.activated = TRUE].secret # 0
      <4>1. token \in Token
        BY <1>1, <3>1 DEF TypeOK
      <4>2. token.secret # 0 /\ [token EXCEPT !.activated = TRUE].secret = token.secret
        BY <4>1, OnboardingAssumption DEF Token, Secrets
      <4> QED BY <4>2
    <3>2. NoToken.secret = 0
      BY DEF NoToken
    <3> QED BY <3>1, <3>2
  <2> QED BY <2>1, <2>2
<1>3. CASE codes' = codes
  BY <1>2, <1>3
<1>4. CASE codes' # codes
  <2>1. PICK j : j = req[a].code
    OBVIOUS
  <2>2. codes' = [codes EXCEPT ![j].status = "consumed"] /\ req[a].pc = "unwrap"
    BY <1>4, <2>1 DEF AgentStep, Redeem, Unwrap, Activate, Report, Mark, stores, At
  <2>3. j \in DOMAIN codes /\ codes[j] \in Code
    BY <1>1, <2>1, <2>2, CodeFacts DEF IInv, RequestsSound, Sound
  <2> DEFINE c == [codes[j] EXCEPT !.status = "consumed"]
  <2>4. c.out = codes[j].out /\ codes' = [codes EXCEPT ![j] = c]
    BY <2>2, <2>3 DEF Code
  <2> HIDE DEF c
  <2> QED BY <1>2, <2>1, <2>2, <2>3, <2>4
<1> QED BY <1>3, <1>4

\* Agents redeem only what was announced.
LEMMA AgentGood ==
  ASSUME IInv, FailInv, NEW a \in Agents, AgentStep(a), [Next]_vars
  PROVE  AdminsGood' /\ OutSound'
<1>1. /\ \A x \in Requests : x # a => req'[x] = req[x]
      /\ UNCHANGED grants /\ CodesEase
  BY AgentContinues, AgentEases DEF Continues, OnlyMoves, Eases
<1>2. AdminsGood'
  <2>1. SUFFICES ASSUME NEW x \in Admins PROVE Good(req[x])'
    BY DEF AdminsGood
  <2>2. x # a /\ x \in Requests
    BY OnboardingAssumption DEF Requests
  <2>3. Good(req[x]) /\ req'[x] = req[x]
    BY <1>1, <2>2 DEF FailInv, AdminsGood
  <2>4. ASSUME req[x].pc = "advance", codes[req[x].code].status # "consumed"
        PROVE  codes'[req[x].code].status # "consumed"
    <3>1. req[x].code \in DOMAIN codes /\ ~codes[req[x].code].out
      BY <2>2, <2>3, <2>4 DEF Good, IInv, RequestsSound, Sound
    <3>2. ~(req[a].pc = "unwrap" /\ req[a].code = req[x].code)
      BY <3>1 DEF FailInv, OutSound
    <3> QED BY <2>4, <3>1, <3>2, AgentMarks
  <2>5. faults >= 1 => faults' >= 1
    BY FaultsGrow
  <2> QED BY <1>1, <2>3, <2>4, <2>5, AgentMarks, GoodStays
<1>3. OutSound'
  <2>1. SUFFICES ASSUME NEW b \in Agents, req'[b].pc = "unwrap" PROVE codes'[req'[b].code].out
    BY DEF OutSound
  <2>2. CASE b # a
    <3>1. req'[b] = req[b] /\ req[b].code \in DOMAIN codes
      BY <1>1, <2>1, <2>2 DEF Requests, IInv, RequestsSound, Sound
    <3> QED BY <2>1, <3>1, AgentMarks DEF FailInv, OutSound
  <2>3. CASE b = a
    <3>1. a \in Requests /\ req \in [Requests -> Request] /\ req[a] \in Request
      BY DEF Requests, IInv, TypeOK
    <3>2. PICK k \in DOMAIN codes : Redeem(a, k)
      <4>1. ~Done(a)
        <5>1. Idle.pc # "unwrap"
          BY DEF Idle
        <5> QED BY <2>1, <2>3, <3>1, <5>1 DEF Done
      <4>2. ~Activate(a) /\ ~Mark(a)
        BY <4>1 DEF Activate, Mark
      <4>3. ~Unwrap(a)
        <5>1. ASSUME Unwrap(a)
              PROVE req' = [req EXCEPT ![a].pc = "activate", ![a].secret = codes[req[a].code].secret]
          BY <4>1, <5>1 DEF Unwrap
        <5>2. ASSUME Unwrap(a) PROVE req'[a].pc = "activate"
          BY <3>1, <5>1, <5>2 DEF Request
        <5> QED BY <2>1, <2>3, <5>2
      <4>4. ~Report(a)
        <5>1. ASSUME Report(a) PROVE req'[a] = [Idle EXCEPT !.pc = "mark", !.kind = "report"]
          BY <3>1, <5>1 DEF Report
        <5>2. [Idle EXCEPT !.pc = "mark", !.kind = "report"].pc = "mark"
          BY DEF Idle
        <5> QED BY <2>1, <2>3, <5>1, <5>2
      <4> QED BY <4>2, <4>3, <4>4 DEF AgentStep
    <3>3. codes[k].out /\ codes' = codes
      BY <3>2 DEF Redeem, stores
    <3>4. req'[a].code = k
      <4> DEFINE q == [Idle EXCEPT !.pc = "unwrap", !.kind = "redeem", !.code = k]
      <4>1. q.code = k
        BY DEF Idle
      <4>2. req' = [req EXCEPT ![a] = q]
        BY <3>2 DEF Redeem
      <4> HIDE DEF q
      <4> QED BY <3>1, <4>1, <4>2
    <3> QED BY <2>3, <3>3, <3>4
  <2> QED BY <2>2, <2>3
<1> QED BY <1>2, <1>3

\* Time voids codes, and a crash ends every request.
LEMMA OutsideGood ==
  ASSUME IInv, FailInv, Crash \/ \E k \in DOMAIN codes : Age(k)
  PROVE  AdminsGood' /\ OutSound'
<1>1. CASE Crash
  <2>1. Idle.pc = "idle" /\ Idle.isNew = FALSE
    BY DEF Idle
  <2>2. \A x \in Requests : req'[x] = Idle
    BY <1>1 DEF Crash
  <2> QED BY <2>1, <2>2 DEF AdminsGood, OutSound, Good, Requests
<1>2. ASSUME NEW j \in DOMAIN codes, Age(j) PROVE AdminsGood' /\ OutSound'
  <2>1. /\ req' = req /\ grants' = grants /\ token' = token /\ faults' = faults
        /\ codes' = [codes EXCEPT ![j].status = "aged"]
    BY <1>2 DEF Age
  <2>2. CodesEase /\ \A k \in DOMAIN codes : codes'[k].out = codes[k].out
    BY <1>2, OutsideEases
  <2>3. \A k \in DOMAIN codes : codes[k].status # "consumed" => codes'[k].status # "consumed"
    <3>1. codes[j] \in Code
      BY CodeFacts DEF IInv
    <3> DEFINE c == [codes[j] EXCEPT !.status = "aged"]
    <3>2. c.status = "aged" /\ codes' = [codes EXCEPT ![j] = c]
      BY <2>1, <3>1 DEF Code
    <3> HIDE DEF c
    <3> QED BY <3>2
  <2>4. ASSUME NEW x \in Admins PROVE Good(req[x])'
    <3>1. Good(req[x]) /\ (req[x].pc = "advance" => req[x].code \in DOMAIN codes)
      BY DEF FailInv, AdminsGood, IInv, RequestsSound, Sound, Requests
    <3> QED BY <2>1, <2>2, <2>3, <3>1, GoodStays
  <2>5. OutSound'
    <3>1. \A a \in Agents : req[a].pc = "unwrap" => req[a].code \in DOMAIN codes
      BY DEF IInv, RequestsSound, Sound, Requests
    <3> QED BY <2>1, <2>2, <3>1 DEF FailInv, OutSound
  <2> QED BY <2>4, <2>5 DEF AdminsGood
<1> QED BY <1>1, <1>2

\* No console request takes a handle back: the one it announces was not known.
LEMMA AdminOut ==
  ASSUME IInv, FailInv, NEW r \in Admins, AdminStart(r) \/ AdminStep(r)
  PROVE  \A k \in DOMAIN codes : codes[k].out => codes'[k].out
<1>1. TypeOK /\ r \in Requests /\ \A k \in DOMAIN codes : codes[k] \in Code
  BY CodeFacts DEF Requests, IInv
<1>2. CASE codes' = codes
  BY <1>2
<1>3. CASE VoidAll(r) \/ DeleteCodes(r)
  <2>1. PICK me : me = req[r].m.id
    OBVIOUS
  <2>2. codes' = codes \/ codes' = AllVoided(me)
    BY <1>3, <2>1 DEF VoidAll, DeleteCodes
  <2>3. ASSUME codes' = AllVoided(me), NEW k \in DOMAIN codes PROVE codes'[k].out = codes[k].out
    <3>1. [codes[k] EXCEPT !.status = "revoked"].out = codes[k].out
      BY <1>1 DEF Code
    <3> QED BY <2>3, <3>1 DEF AllVoided
  <2> QED BY <1>2, <2>2, <2>3
<1>4. CASE Mail(r) \/ Pin(r) \/ SelfMail(r) \/ Void(r)
  <2>1. PICK j : j = req[r].code
    OBVIOUS
  <2>2. j \in DOMAIN codes
    <3>1. req[r].pc \in {"mail", "pin", "selfMail", "voidAdvance", "voidMail"}
      BY <1>4 DEF Mail, Pin, SelfMail, Void, At
    <3> QED BY <1>1, <2>1, <3>1 DEF IInv, RequestsSound, Sound
  <2>3. ASSUME NEW c, codes' = [codes EXCEPT ![j] = c], codes[j].out => c.out
        PROVE  \A k \in DOMAIN codes : codes[k].out => codes'[k].out
    BY <2>2, <2>3
  <2>4. CASE Mail(r) \/ Pin(r) \/ SelfMail(r)
    <3>1. ~codes[j].out
      BY <2>1, <2>4 DEF Mail, Pin, SelfMail, At, FailInv, AdminsGood, Good
    <3>2. codes' = codes \/ \E c : codes' = [codes EXCEPT ![j] = c]
      BY <2>1, <2>4 DEF Mail, Pin, SelfMail, Abandoned
    <3> QED BY <1>2, <2>3, <3>1, <3>2
  <2>5. CASE Void(r)
    <3>1. \/ codes' = codes
          \/ codes' = [codes EXCEPT ![j] = [codes[j] EXCEPT !.status = "revoked"]]
          \/ codes' = [codes EXCEPT ![j] = [codes[j] EXCEPT !.outcome = "unvoided"]]
      BY <2>1, <2>5 DEF Void
    <3>2. /\ [codes[j] EXCEPT !.status = "revoked"].out = codes[j].out
          /\ [codes[j] EXCEPT !.outcome = "unvoided"].out = codes[j].out
      BY <1>1, <2>2 DEF Code
    <3> QED BY <1>2, <2>3, <3>1, <3>2
  <2> QED BY <1>4, <2>4, <2>5
<1>5. CASE Issue(r)
  BY <1>2, <1>5, IssueMoves DEF Issue
<1>6. CASE AdminStart(r)
  BY <1>2, <1>6 DEF AdminStart, Resend, Cancel, Delete, Deactivate, UnknownUser, Invite,
     SelfInvite, Begin, vars, stores
<1>7. CASE AddMember(r) \/ Advance(r) \/ UndoMember(r) \/ Conflict(r) \/ Grant(r) \/ NeedsToken(r)
           \/ NeedsCode(r) \/ UndoGrant(r) \/ WasOnline(r) \/ Rotated(r) \/ SelfRevoke(r)
  BY <1>2, <1>7 DEF AddMember, Advance, UndoMember, Conflict, Grant, NeedsToken, NeedsCode,
     UndoGrant, WasOnline, Rotated, SelfRevoke, stores
<1>8. CASE Mint(r) \/ Unmint(r) \/ DeleteToken(r) \/ DeleteGrants(r) \/ DeleteMember(r)
           \/ CheckSession(r) \/ EndSession(r) \/ StampEnd(r)
  BY <1>2, <1>8 DEF Mint, Unmint, DeleteToken, DeleteGrants, DeleteMember, CheckSession,
     EndSession, StampEnd, stores
<1> QED BY <1>3, <1>4, <1>5, <1>6, <1>7, <1>8 DEF AdminStep

\* Every step keeps the invariant of failed invitations.
LEMMA FailStepKeeps ==
  ASSUME OneAdmin, OneFault, IInv, SerialInv, FailInv, [Next]_vars
  PROVE  FailInv'
<1>1. ASSUME NEW r \in Admins, AdminStart(r) \/ AdminStep(r) PROVE AdminsGood' /\ OutSound'
  <2>1. Good(req[r])'
    BY <1>1, StartGood, AddGood, DecideGood, MintGood, IssueGood, UndoGood, AdvanceGood, VoidGood,
       OtherGood DEF AdminStep
  <2>2. AdminsGood'
    BY <2>1 DEF AdminsGood, OneAdmin
  <2>3. ASSUME NEW a \in Agents, req'[a].pc = "unwrap" PROVE codes'[req'[a].code].out
    <3>1. a # r /\ a \in Requests
      BY OnboardingAssumption DEF Requests
    <3>2. req'[a] = req[a]
      BY <1>1, <3>1, AdminMoves DEF OnlyMoves
    <3>3. req[a].code \in DOMAIN codes /\ codes[req[a].code].out
      BY <2>3, <3>1, <3>2 DEF FailInv, OutSound, IInv, RequestsSound, Sound
    <3> QED BY <1>1, <3>2, <3>3, AdminOut
  <2> QED BY <2>2, <2>3 DEF OutSound
<1>2. ASSUME NEW a \in Agents, AgentStep(a) PROVE AdminsGood' /\ OutSound'
  BY <1>2, AgentGood
<1>3. ASSUME UNCHANGED vars PROVE AdminsGood' /\ OutSound'
  <2>1. /\ req' = req /\ codes' = codes /\ grants' = grants /\ token' = token /\ faults' = faults
    BY <1>3 DEF vars, stores
  <2> QED BY <2>1 DEF FailInv, AdminsGood, OutSound, Good, Fresh, OfMember, NoneOpen
<1>4. AdminsGood' /\ OutSound'
  BY <1>1, <1>2, <1>3, OutsideGood DEF Next
<1> QED BY <1>4, TokenStep, UndoneStep DEF FailInv

\* When one console request runs at a time and one call fails, a request that failed has
\* undone what it created: the member, its membership and its codes (rollbackInvitation,
\* dropIfNew); and no code is forgotten but by a self-invite that fails once the status
\* has advanced, which undoes nothing (handleInvite).
THEOREM FailedInviteUndone ==
  ASSUME OneAdmin, OneFault
  PROVE  Spec => []FailedInviteLeavesNothing
<1>1. Init => FailInv
  <2>1. Idle.pc = "idle" /\ Idle.isNew = FALSE
    BY DEF Idle
  <2>2. Init => AdminsGood /\ OutSound
    BY <2>1 DEF Init, AdminsGood, OutSound, Good, Requests
  <2> QED BY <2>2 DEF Init, FailInv, TokenSound, UndoneLeft
<1>2. IInv /\ SerialInv /\ FailInv /\ [Next]_vars => FailInv'
  BY FailStepKeeps
<1>3. FailInv /\ Accounted => FailedInviteLeavesNothing
  BY DEF FailInv, UndoneLeft, Left, NoneOpen, Accounted, Unsettled, FailedInviteLeavesNothing
<1> QED BY SerialInductive, NoCodeForgotten, <1>1, <1>2, <1>3, PTL DEF Spec

=============================================================================
