-------------------------- MODULE DataplaneProofs --------------------------
(***************************************************************************)
(* Proofs about the data plane connection, for every number of handlers,   *)
(* background goroutines, tokens, runespaces, requests and restarts.       *)
(***************************************************************************)
EXTENDS Dataplane, FiniteSetTheorems, TLAPS

-----------------------------------------------------------------------------
(* The inductive invariant                                                 *)

HandlerHolds(h) ==
  op[h].kind \in {"connect", "resume", "boot"} /\ op[h].at \notin {"acquire", "stale"}
LoopHolds(l) == loop[l].kind = "connect"

\* What a handler does next fits its kind, and a token it carries was minted.
HandlersSound ==
  \A h \in Handlers :
    /\ op[h].tok <= minted
    /\ op[h].at = "save" => op[h].tok # 0
    /\ \/ op[h] = NoOp
       \/ /\ op[h].kind = "connect"
          /\ op[h].at \in {"acquire", "stale", "held", "detach", "clear", "bootstrap",
                           "save"}
       \/ /\ op[h].kind \in {"resume", "boot"}
          /\ op[h].at \in {"acquire", "stale", "held"}
          /\ op[h].tok # 0
       \/ op[h].kind = "stop" /\ op[h].at \in {"detach", "clear"}
       \/ op[h].kind = "delete" /\ op[h].at \in {"uncred", "detach", "clear"}

\* The same for a background goroutine; the cloud does not accept a token it rejected.
LoopsSound ==
  \A l \in Loops :
    /\ loop[l].tok <= minted
    /\ loop[l].at = "rejected" => loop[l].tok # valid
    /\ \/ loop[l] = NoLoop
       \/ loop[l].kind = "connect" /\ loop[l].at # "none" /\ loop[l].tok # 0
       \/ /\ loop[l].kind = "refresh"
          /\ loop[l].at \notin {"none", "record"}
          /\ loop[l].at # "wait" => loop[l].tok # 0

\* A stored credential carries a minted token.
CredSound ==
  /\ valid <= minted /\ cred.tok <= minted
  /\ cred.tok = 0 => cred = NoCred

\* The slot is taken exactly while one handler or one connect loop holds it.
SlotSound ==
  /\ \A g, h \in Handlers : HandlerHolds(g) /\ HandlerHolds(h) => g = h
  /\ \A k, l \in Loops : LoopHolds(k) /\ LoopHolds(l) => k = l
  /\ \A h \in Handlers, l \in Loops : ~(HandlerHolds(h) /\ LoopHolds(l))
  /\ connecting => \/ \E h \in Handlers : HandlerHolds(h)
                   \/ \E l \in Loops : LoopHolds(l)
  /\ \A h \in Handlers : HandlerHolds(h) => connecting
  /\ \A l \in Loops : LoopHolds(l) => connecting

\* A goroutine whose context is live is the one d.cancel cancels.
ContextSound ==
  /\ \A l \in Loops : loop[l].kind # "none" /\ ~loop[l].cancelled => cancel = l
  /\ cancel # Nobody => loop[cancel].kind # "none"

\* No goroutine can reach ConnectEngine any more.
Quiet ==
  \A l \in Loops : /\ loop[l].at \notin {"attach", "record"}
                   /\ loop[l].kind # "none" => loop[l].cancelled

\* The handler that pauses is alone with goroutines that cannot attach, and the engine
\* is detached when it ends.
PauseSound ==
  /\ paused # "no" => Quiet
  /\ paused = "so far" =>
       \E h \in Handlers : /\ op[h].kind \in {"stop", "delete"}
                           /\ op[h].at = "clear" => engine = 0
                           /\ \A g \in Handlers \ {h} : op[g] = NoOp
  /\ paused = "yes" => engine = 0 /\ \A h \in Handlers : op[h] = NoOp

IInv ==
  /\ TypeOK /\ HandlersSound /\ LoopsSound /\ CredSound
  /\ SlotSound /\ ContextSound /\ PauseSound

-----------------------------------------------------------------------------
(* The shapes of a step                                                    *)

LEMMA Bounds ==
  /\ MaxTokens \in Nat /\ MaxSpaces \in Nat /\ MaxRequests \in Nat /\ MaxRestarts \in Nat
  /\ Nobody \notin Loops
BY DataplaneConstants DEF Nobody

LEMMA Nothings ==
  /\ NoOp \in HandlerStates /\ NoLoop \in LoopStates
  /\ NoOp.kind = "none" /\ NoOp.at = "none" /\ NoOp.tok = 0
  /\ NoLoop.kind = "none" /\ NoLoop.at = "none" /\ NoLoop.tok = 0
  /\ NoCred \in [tok : Tokens, space : Spaces] /\ NoCred.tok = 0
<1>1. 0 \in Tokens /\ 0 \in Spaces
  BY Bounds DEF Tokens, Spaces
<1>2. FALSE \in BOOLEAN
  BY Zenon
<1> QED BY <1>1, <1>2 DEF NoOp, NoLoop, NoCred, HandlerStates, LoopStates

LEMMA Numbers ==
  ASSUME IInv
  PROVE  minted \in Nat /\ valid \in Nat /\ spaces \in Nat
<1>1. minted \in Tokens /\ valid \in Tokens /\ spaces \in Spaces
  BY DEF IInv, TypeOK
<1> QED BY <1>1, Bounds DEF Tokens, Spaces

LEMMA RequestCounted ==
  ASSUME IInv, requests < MaxRequests, requests' = requests + 1
  PROVE  requests' \in 0..MaxRequests
<1>1. requests \in 0..MaxRequests
  BY DEF IInv, TypeOK
<1> QED BY <1>1, Bounds

\* Handler h goes on as r.
HandlerMoves(h, r) ==
  /\ op' \in [Handlers -> HandlerStates]
  /\ op'[h] = r
  /\ \A g \in Handlers \ {h} : op'[g] = op[g]

LEMMA HandlerSet ==
  ASSUME IInv, NEW h \in Handlers, NEW r \in HandlerStates, op' = [op EXCEPT ![h] = r]
  PROVE  HandlerMoves(h, r)
BY DEF IInv, TypeOK, HandlerMoves

\* Goroutine l goes on as r, and d.cancel stays.
LoopMoves(l, r) ==
  /\ loop' \in [Loops -> LoopStates]
  /\ loop'[l] = r
  /\ \A k \in Loops \ {l} : loop'[k] = loop[k]

LEMMA MovesFacts ==
  ASSUME IInv, NEW l \in Loops, NEW at \in {"exchange", "granted", "rejected", "flag",
           "dial", "attach", "record", "wait"}, Moves(l, at)
  PROVE  /\ LoopMoves(l, [loop[l] EXCEPT !.at = at])
         /\ cancel' = cancel /\ target' = target /\ connecting' = connecting
<1>1. [loop[l] EXCEPT !.at = at] \in LoopStates
  BY DEF IInv, TypeOK, LoopStates
<1>2. loop' = [loop EXCEPT ![l] = [loop[l] EXCEPT !.at = at]]
  BY DEF Moves
<1> QED BY <1>1, <1>2 DEF IInv, TypeOK, LoopMoves, Moves

LEMMA EndsFacts ==
  ASSUME IInv, NEW l \in Loops, Ends(l)
  PROVE  /\ LoopMoves(l, NoLoop)
         /\ cancel' = (IF cancel = l THEN Nobody ELSE cancel)
         /\ loop[l].kind = "connect" => target' = 0 /\ connecting' = FALSE
         /\ loop[l].kind # "connect" => target' = target /\ connecting' = connecting
BY Nothings DEF IInv, TypeOK, LoopMoves, Ends, Release, KeepSlot

\* The goroutine d.cancel belongs to is cancelled, the others stay as they are.
Cuts(loops) ==
  /\ loops \in [Loops -> LoopStates]
  /\ \A l \in Loops :
       /\ loops[l].kind = loop[l].kind /\ loops[l].at = loop[l].at
       /\ loops[l].tok = loop[l].tok /\ loops[l].space = loop[l].space
       /\ loop[l].kind # "none" => loops[l].cancelled
       /\ loop[l] = NoLoop => loops[l] = NoLoop

LEMMA CancelledCuts ==
  ASSUME IInv
  PROVE  Cuts(Cancelled(loop))
<1>1. loop \in [Loops -> LoopStates] /\ cancel \in Loops \cup {Nobody}
  BY DEF IInv, TypeOK
<1>2. CASE cancel = Nobody
  <2>1. \A l \in Loops : loop[l].kind # "none" => loop[l].cancelled
    BY <1>2, Bounds DEF IInv, ContextSound
  <2> QED BY <1>1, <1>2, <2>1 DEF Cuts, Cancelled
<1>3. CASE cancel # Nobody
  <2> DEFINE r == [loop[cancel] EXCEPT !.cancelled = TRUE]
  <2>1. cancel \in Loops /\ loop[cancel] \in LoopStates /\ loop[cancel].kind # "none"
    BY <1>1, <1>3 DEF IInv, ContextSound
  <2>2. TRUE \in BOOLEAN
    BY Zenon
  <2>3. /\ r \in LoopStates
        /\ r.kind = loop[cancel].kind /\ r.at = loop[cancel].at /\ r.tok = loop[cancel].tok
        /\ r.space = loop[cancel].space /\ r.cancelled
    BY <2>1, <2>2 DEF LoopStates
  <2>4. Cancelled(loop) = [loop EXCEPT ![cancel] = r]
    BY <1>3 DEF Cancelled
  <2>5. \A l \in Loops \ {cancel} : loop[l].kind # "none" => loop[l].cancelled
    BY DEF IInv, ContextSound
  <2> HIDE DEF r
  <2>6. Cancelled(loop) \in [Loops -> LoopStates]
    BY <1>1, <2>1, <2>3, <2>4
  <2>7. \A l \in Loops : Cancelled(loop)[l] = IF l = cancel THEN r ELSE loop[l]
    BY <1>1, <2>1, <2>4
  <2>8. loop[cancel] # NoLoop
    BY <2>1, Nothings
  <2> QED BY <2>1, <2>3, <2>5, <2>6, <2>7, <2>8 DEF Cuts
<1> QED BY <1>2, <1>3

LEMMA StopFacts ==
  ASSUME IInv, StopLoops
  PROVE  Cuts(loop') /\ cancel' = Nobody
BY CancelledCuts DEF StopLoops

\* Spawn: goroutine l is r, all the others are cancelled.
Spawns(l, r) ==
  /\ loop' \in [Loops -> LoopStates]
  /\ loop'[l] = r /\ cancel' = l
  /\ \A k \in Loops \ {l} :
       /\ loop'[k].kind = loop[k].kind /\ loop'[k].at = loop[k].at
       /\ loop'[k].tok = loop[k].tok /\ loop'[k].space = loop[k].space
       /\ loop[k].kind # "none" => loop'[k].cancelled
       /\ loop[k] = NoLoop => loop'[k] = NoLoop

LEMMA SpawnFacts ==
  ASSUME IInv, NEW l \in Loops, NEW r \in LoopStates, Spawn(l, r)
  PROVE  Spawns(l, r)
<1>1. Cuts(Cancelled(loop)) /\ loop' = [Cancelled(loop) EXCEPT ![l] = r] /\ cancel' = l
  BY CancelledCuts DEF Spawn
<1>2. loop' \in [Loops -> LoopStates]
  BY <1>1 DEF Cuts
<1>3. loop'[l] = r /\ \A k \in Loops \ {l} : loop'[k] = Cancelled(loop)[k]
  BY <1>1 DEF Cuts
<1> QED BY <1>1, <1>2, <1>3 DEF Cuts, Spawns

-----------------------------------------------------------------------------
(* Requests arrive                                                         *)

LEMMA InitIInv == Init => IInv
<1> SUFFICES ASSUME Init PROVE IInv
  OBVIOUS
<1>1. FALSE \in BOOLEAN
  BY Zenon
<1>2. TypeOK
  <2>1. 0 \in Tokens /\ 0 \in Spaces /\ 0 \in 0..MaxRequests /\ 0 \in 0..MaxRestarts
    BY Bounds DEF Tokens, Spaces
  <2>2. /\ op \in [Handlers -> HandlerStates] /\ loop \in [Loops -> LoopStates]
        /\ \A l \in Loops : loop[l].at # "exchange"
    BY Nothings DEF Init
  <2> QED BY <1>1, <2>1, <2>2, Nothings DEF Init, TypeOK
<1> QED BY <1>2, Nothings DEF Init, IInv, HandlersSound, LoopsSound, CredSound, SlotSound,
           ContextSound, PauseSound, HandlerHolds, LoopHolds

LEMMA ConnectCalledStep ==
  ASSUME IInv, NEW h \in Handlers, ConnectCalled(h)
  PROVE  IInv'
<1> DEFINE r == [kind |-> "connect", at |-> "acquire", tok |-> 0, space |-> space']
<1>1. /\ space' \in Spaces /\ spaces' \in Spaces /\ up' \in BOOLEAN
      /\ requests' \in 0..MaxRequests
  <2>1. TRUE \in BOOLEAN
    BY Zenon
  <2>2. requests' \in 0..MaxRequests
    BY RequestCounted DEF ConnectCalled
  <2>3. space \in Spaces /\ spaces \in Spaces /\ up \in BOOLEAN
    BY DEF IInv, TypeOK
  <2>4. CASE space' = spaces + 1 /\ spaces' = spaces + 1 /\ up' = TRUE /\ spaces < MaxSpaces
    BY <2>1, <2>2, <2>3, <2>4, Numbers, Bounds DEF Spaces
  <2>5. CASE UNCHANGED <<space, spaces, up>>
    BY <2>2, <2>3, <2>5
  <2> QED BY <2>4, <2>5 DEF ConnectCalled
<1>2. r \in HandlerStates
  BY <1>1, Nothings DEF HandlerStates, NoOp
<1>3. HandlerMoves(h, r)
  BY <1>2, HandlerSet DEF ConnectCalled
<1>4. /\ op[h] = NoOp /\ paused' = "no"
      /\ UNCHANGED <<valid, minted, cred, engine, localVars, loop, restarts>>
  BY DEF ConnectCalled
<1>5. TypeOK'
  BY <1>1, <1>3, <1>4 DEF IInv, TypeOK, HandlerMoves, localVars
<1>6. HandlersSound'
  BY <1>3, <1>4, Numbers DEF IInv, HandlersSound, HandlerMoves
<1>7. SlotSound'
  BY <1>3, <1>4, Nothings DEF IInv, SlotSound, HandlerMoves, HandlerHolds, LoopHolds,
     localVars
<1> QED BY <1>4, <1>5, <1>6, <1>7 DEF IInv, LoopsSound, CredSound, ContextSound, PauseSound,
           localVars

LEMMA StartCalledStep ==
  ASSUME IInv, NEW h \in Handlers, StartCalled(h)
  PROVE  IInv'
<1> DEFINE r == [kind |-> "resume", at |-> "acquire", tok |-> cred.tok, space |-> cred.space]
<1>1. /\ op[h] = NoOp /\ paused' = "no"
      /\ UNCHANGED <<space, valid, minted, spaces, cred, engine, localVars, loop, restarts>>
  BY DEF StartCalled
<1>2. up' \in BOOLEAN /\ requests' \in 0..MaxRequests
  <2>1. TRUE \in BOOLEAN
    BY Zenon
  <2> QED BY <2>1, RequestCounted DEF StartCalled
<1>3. CASE op' = op
  <2>1. TypeOK'
    BY <1>1, <1>2, <1>3 DEF IInv, TypeOK, localVars
  <2>2. HandlersSound' /\ LoopsSound' /\ CredSound'
    BY <1>1, <1>3 DEF IInv, HandlersSound, LoopsSound, CredSound
  <2>3. SlotSound' /\ ContextSound'
    BY <1>1, <1>3 DEF IInv, SlotSound, ContextSound, HandlerHolds, LoopHolds, localVars
  <2> QED BY <1>1, <2>1, <2>2, <2>3 DEF IInv, PauseSound
<1>4. CASE cred # NoCred /\ op' = [op EXCEPT ![h] = r]
  <2>1. r \in HandlerStates
    BY DEF HandlerStates, IInv, TypeOK
  <2>2. HandlerMoves(h, r)
    BY <1>4, <2>1, HandlerSet
  <2>3. TypeOK'
    BY <1>1, <1>2, <2>2 DEF IInv, TypeOK, localVars, HandlerMoves
  <2>4. HandlersSound'
    BY <1>1, <1>4, <2>2 DEF IInv, HandlersSound, CredSound, HandlerMoves
  <2>5. SlotSound'
    BY <1>1, <2>2, Nothings DEF IInv, SlotSound, HandlerMoves, HandlerHolds, LoopHolds,
       localVars
  <2> QED BY <1>1, <2>3, <2>4, <2>5 DEF IInv, LoopsSound, CredSound, ContextSound,
             PauseSound, localVars
<1> QED BY <1>3, <1>4 DEF StartCalled

\* A stop or a delete has begun: its contexts are cancelled and, when it is alone, nothing
\* is left that can attach.
LEMMA PauseBegins ==
  ASSUME IInv, NEW h \in Handlers, NEW r \in HandlerStates, StopLoops, op[h] = NoOp,
         r.kind \in {"stop", "delete"}, r.at # "clear", HandlerMoves(h, r),
         paused' = IF Alone(h) THEN "so far" ELSE "no"
  PROVE  PauseSound'
<1>1. Cuts(loop')
  BY StopFacts
<1>2. CASE Alone(h)
  <2>1. paused' = "so far"
    BY <1>2
  <2>2. Quiet'
    BY <1>1, <1>2 DEF Alone, Quiet, Cuts
  <2>3. \A g \in Handlers \ {h} : op'[g] = NoOp
    BY <1>2 DEF Alone, HandlerMoves
  <2> QED BY <2>1, <2>2, <2>3 DEF PauseSound, HandlerMoves
<1>3. CASE ~Alone(h)
  BY <1>3 DEF PauseSound
<1> QED BY <1>2, <1>3

LEMMA PauseCalledStep ==
  ASSUME IInv, NEW h \in Handlers, StopCalled(h) \/ DeleteCalled(h)
  PROVE  IInv'
<1>1. /\ StopLoops /\ op[h] = NoOp
      /\ paused' = IF Alone(h) THEN "so far" ELSE "no"
      /\ UNCHANGED <<valid, minted, spaces, cred, engine, attached, target, connecting,
                     expired, restarts>>
  BY DEF StopCalled, DeleteCalled
<1>2. PICK r \in HandlerStates :
        /\ op' = [op EXCEPT ![h] = r]
        /\ r.tok = 0
        /\ \/ r.kind = "stop" /\ r.at = "detach"
           \/ r.kind = "delete" /\ r.at = "uncred"
  <2>1. \A k \in {"stop", "delete"}, a \in {"detach", "uncred"} :
          [kind |-> k, at |-> a, tok |-> 0, space |-> 0] \in HandlerStates
    BY Bounds DEF HandlerStates, Tokens, Spaces
  <2>2. CASE StopCalled(h)
    BY <2>1, <2>2 DEF StopCalled
  <2>3. CASE DeleteCalled(h)
    BY <2>1, <2>3 DEF DeleteCalled
  <2> QED BY <2>2, <2>3
<1>3. up' \in BOOLEAN
  <2>1. FALSE \in BOOLEAN
    BY Zenon
  <2> QED BY <2>1 DEF StopCalled, DeleteCalled, IInv, TypeOK
<1>4. requests' \in 0..MaxRequests
  BY RequestCounted DEF StopCalled, DeleteCalled
<1>5. space' \in Spaces
  <2>1. 0 \in Spaces
    BY Bounds DEF Spaces
  <2>2. space \in Spaces
    BY DEF IInv, TypeOK
  <2> QED BY <2>1, <2>2 DEF StopCalled, DeleteCalled
<1>6. Cuts(loop') /\ cancel' = Nobody
  BY <1>1, StopFacts
<1>7. HandlerMoves(h, r)
  BY <1>2, HandlerSet
<1>8. paused' \in {"no", "so far"}
  BY <1>1
<1>9. TypeOK'
  BY <1>1, <1>3, <1>4, <1>5, <1>6, <1>7, <1>8 DEF IInv, TypeOK, Cuts, HandlerMoves
<1>10. HandlersSound'
  <2>1. minted' = minted
    BY <1>1
  <2>2. 0 <= minted
    BY Numbers
  <2>3. HandlersSound
    BY DEF IInv
  <2> QED BY <1>2, <1>7, <2>1, <2>2, <2>3 DEF HandlersSound, HandlerMoves
<1>11. LoopsSound' /\ CredSound'
  BY <1>1, <1>6 DEF IInv, LoopsSound, CredSound, Cuts
<1>12. SlotSound'
  <2>1. ~HandlerHolds(h) /\ ~HandlerHolds(h)'
    BY <1>1, <1>2, <1>7, Nothings DEF HandlerMoves, HandlerHolds
  <2>2. \A g \in Handlers \ {h} : HandlerHolds(g)' = HandlerHolds(g)
    BY <1>7 DEF HandlerMoves, HandlerHolds
  <2>3. \A l \in Loops : LoopHolds(l)' = LoopHolds(l)
    BY <1>6 DEF Cuts, LoopHolds
  <2> QED BY <1>1, <2>1, <2>2, <2>3 DEF IInv, SlotSound
<1>13. ContextSound'
  BY <1>6 DEF ContextSound, Cuts
<1>14. PauseSound'
  BY <1>1, <1>2, <1>7, PauseBegins
<1> QED BY <1>9, <1>10, <1>11, <1>12, <1>13, <1>14 DEF IInv

-----------------------------------------------------------------------------
(* The attach slot                                                         *)

\* Handler h goes on at at, with its kind, its token and its runespace.
HandlerAt(h, at) ==
  /\ op' \in [Handlers -> HandlerStates]
  /\ op'[h].at = at /\ op'[h].kind = op[h].kind
  /\ op'[h].tok = op[h].tok /\ op'[h].space = op[h].space
  /\ \A g \in Handlers \ {h} : op'[g] = op[g]

LEMMA HandlerAtSet ==
  ASSUME IInv, NEW h \in Handlers,
         NEW at \in {"acquire", "stale", "held", "bootstrap", "save", "uncred", "detach",
                     "clear"},
         op' = [op EXCEPT ![h].at = at]
  PROVE  HandlerAt(h, at)
<1> DEFINE r == [op[h] EXCEPT !.at = at]
<1>1. op \in [Handlers -> HandlerStates] /\ op[h] \in HandlerStates
  BY DEF IInv, TypeOK
<1>2. /\ r \in HandlerStates /\ r.at = at /\ r.kind = op[h].kind /\ r.tok = op[h].tok
      /\ r.space = op[h].space
  BY <1>1 DEF HandlerStates
<1>3. op' = [op EXCEPT ![h] = r]
  OBVIOUS
<1> HIDE DEF r
<1>4. HandlerMoves(h, r)
  BY <1>2, <1>3, HandlerSet
<1> QED BY <1>2, <1>4 DEF HandlerMoves, HandlerAt

\* A handler that connects or resumes is not there beside a pause.
LEMMA BusyNotPaused ==
  ASSUME IInv, NEW h \in Handlers, op[h].kind \in {"connect", "resume", "boot"}
  PROVE  paused = "no"
BY Nothings DEF IInv, TypeOK, PauseSound

LEMMA AttachKinds ==
  ASSUME IInv, NEW h \in Handlers, op[h].at \in {"acquire", "stale", "held", "bootstrap", "save"}
  PROVE  /\ op[h].kind \in {"connect", "resume", "boot"}
         /\ op[h].at \in {"bootstrap", "save"} => op[h].kind = "connect"
BY Nothings DEF IInv, HandlersSound

LEMMA NotPausedSound == ASSUME paused' = "no" PROVE PauseSound'
BY DEF PauseSound

LEMMA SlotTakenStep ==
  ASSUME IInv, NEW h \in Handlers, SlotTaken(h)
  PROVE  IInv'
<1>1. /\ op[h].at = "acquire" /\ ~connecting /\ connecting' = TRUE /\ target' = op[h].space
      /\ UNCHANGED <<cloudVars, cred, engine, attached, expired, cancel, loop, countVars>>
  BY DEF SlotTaken, AtAcquire
<1>2. HandlerAt(h, "held")
  BY HandlerAtSet DEF SlotTaken
<1>3. op[h].kind \in {"connect", "resume", "boot"} /\ paused = "no"
  BY <1>1, AttachKinds, BusyNotPaused
<1>4. connecting' \in BOOLEAN
  BY <1>1, Zenon
<1>5. target' \in Spaces
  BY <1>1 DEF IInv, TypeOK, HandlerStates
<1>6. TypeOK'
  BY <1>1, <1>2, <1>4, <1>5 DEF IInv, TypeOK, HandlerAt, cloudVars, countVars
<1>7. HandlersSound'
  <2>1. minted' = minted
    BY <1>1 DEF cloudVars
  <2> QED BY <1>1, <1>2, <1>3, <2>1, Nothings DEF IInv, HandlersSound, HandlerAt
<1>8. LoopsSound' /\ CredSound' /\ ContextSound'
  BY <1>1 DEF IInv, LoopsSound, CredSound, ContextSound, cloudVars
<1>9. SlotSound'
  <2>1. \A l \in Loops : ~LoopHolds(l) /\ ~LoopHolds(l)'
    BY <1>1 DEF IInv, SlotSound, LoopHolds
  <2>2. \A g \in Handlers \ {h} : ~HandlerHolds(g)'
    BY <1>1, <1>2 DEF IInv, SlotSound, HandlerHolds, HandlerAt
  <2>3. HandlerHolds(h)'
    BY <1>2, <1>3 DEF HandlerHolds, HandlerAt
  <2> QED BY <1>1, <2>1, <2>2, <2>3 DEF SlotSound
<1>10. PauseSound'
  BY <1>1, <1>3, NotPausedSound DEF countVars
<1> QED BY <1>6, <1>7, <1>8, <1>9, <1>10 DEF IInv

LEMMA SlotRefusedStep ==
  ASSUME IInv, NEW h \in Handlers, SlotRefused(h)
  PROVE  IInv'
<1>1. /\ op[h].at = "acquire"
      /\ UNCHANGED <<cloudVars, cred, engine, localVars, loop, countVars>>
  BY DEF SlotRefused, AtAcquire
<1>2. HandlerMoves(h, NoOp)
  BY HandlerSet, Nothings DEF SlotRefused
<1>3. paused = "no"
  BY <1>1, AttachKinds, BusyNotPaused
<1>4. TypeOK'
  BY <1>1, <1>2 DEF IInv, TypeOK, HandlerMoves, cloudVars, localVars, countVars
<1>5. HandlersSound'
  <2>1. minted' = minted
    BY <1>1 DEF cloudVars
  <2>2. 0 <= minted
    BY Numbers
  <2> QED BY <1>2, <2>1, <2>2, Nothings DEF IInv, HandlersSound, HandlerMoves
<1>6. LoopsSound' /\ CredSound' /\ ContextSound'
  BY <1>1 DEF IInv, LoopsSound, CredSound, ContextSound, cloudVars, localVars
<1>7. SlotSound'
  BY <1>1, <1>2, Nothings DEF IInv, SlotSound, HandlerHolds, LoopHolds, HandlerMoves, localVars
<1>8. PauseSound'
  BY <1>1, <1>3, NotPausedSound DEF countVars
<1> QED BY <1>4, <1>5, <1>6, <1>7, <1>8 DEF IInv

\* The slot is held for another runespace: only the handler moves on.
LEMMA SlotAwaitedStep ==
  ASSUME IInv, NEW h \in Handlers, SlotAwaited(h)
  PROVE  IInv'
<1>1. /\ op[h].at = "acquire"
      /\ UNCHANGED <<cloudVars, cred, engine, localVars, loop, countVars>>
  BY DEF SlotAwaited, AtAcquire
<1>2. HandlerAt(h, "stale")
  BY HandlerAtSet DEF SlotAwaited
<1>3. op[h].kind \in {"connect", "resume", "boot"} /\ paused = "no"
  BY <1>1, AttachKinds, BusyNotPaused
<1>4. TypeOK'
  BY <1>1, <1>2 DEF IInv, TypeOK, HandlerAt, cloudVars, localVars, countVars
<1>5. HandlersSound'
  <2>1. minted' = minted
    BY <1>1 DEF cloudVars
  <2> QED BY <1>1, <1>2, <1>3, <2>1, Nothings DEF IInv, HandlersSound, HandlerAt
<1>6. LoopsSound' /\ CredSound' /\ ContextSound'
  BY <1>1 DEF IInv, LoopsSound, CredSound, ContextSound, cloudVars, localVars
<1>7. SlotSound'
  <2>1. \A g \in Handlers : HandlerHolds(g)' = HandlerHolds(g)
    BY <1>1, <1>2 DEF HandlerHolds, HandlerAt
  <2>2. \A l \in Loops : LoopHolds(l)' = LoopHolds(l)
    BY <1>1 DEF LoopHolds
  <2>3. connecting' = connecting
    BY <1>1 DEF localVars
  <2> QED BY <2>1, <2>2, <2>3 DEF IInv, SlotSound
<1>8. PauseSound'
  BY <1>1, <1>3, NotPausedSound DEF countVars
<1> QED BY <1>4, <1>5, <1>6, <1>7, <1>8 DEF IInv

\* It then cancels whatever goroutine runs by now, and tries again.
LEMMA StaleStoppedStep ==
  ASSUME IInv, NEW h \in Handlers, StaleStopped(h)
  PROVE  IInv'
<1>1. /\ op[h].at = "stale"
      /\ UNCHANGED <<cloudVars, cred, engine, attached, target, connecting, expired,
                     countVars>>
  BY DEF StaleStopped
<1>2. Cuts(loop') /\ cancel' = Nobody
  BY StopFacts DEF StaleStopped
<1>3. op[h].kind \in {"connect", "resume", "boot"} /\ paused = "no"
  BY <1>1, AttachKinds, BusyNotPaused
<1>4. /\ op' \in [Handlers -> HandlerStates]
      /\ \A g \in Handlers \ {h} : op'[g] = op[g]
      /\ \/ HandlerAt(h, "acquire")
         \/ op'[h] = NoOp
  <2>1. CASE op' = [op EXCEPT ![h].at = "acquire"]
    BY <2>1, HandlerAtSet DEF HandlerAt
  <2>2. CASE op' = [op EXCEPT ![h] = NoOp]
    BY <2>2, HandlerSet, Nothings DEF HandlerMoves
  <2> QED BY <2>1, <2>2 DEF StaleStopped
<1>5. TypeOK'
  BY <1>1, <1>2, <1>4 DEF IInv, TypeOK, Cuts, cloudVars, countVars
<1>6. minted' = minted /\ valid' = valid /\ cred' = cred /\ 0 <= minted
  BY <1>1, Numbers DEF cloudVars
<1>7. HandlersSound'
  BY <1>1, <1>3, <1>4, <1>6, Nothings DEF IInv, HandlersSound, HandlerAt
<1>8. LoopsSound' /\ CredSound'
  BY <1>2, <1>6 DEF IInv, LoopsSound, CredSound, Cuts
<1>9. SlotSound'
  <2>1. \A g \in Handlers : HandlerHolds(g)' = HandlerHolds(g)
    BY <1>1, <1>4, Nothings DEF HandlerHolds, HandlerAt
  <2>2. \A l \in Loops : LoopHolds(l)' = LoopHolds(l)
    BY <1>2 DEF Cuts, LoopHolds
  <2> QED BY <1>1, <2>1, <2>2 DEF IInv, SlotSound
<1>10. ContextSound'
  BY <1>2 DEF ContextSound, Cuts
<1>11. PauseSound'
  BY <1>1, <1>3, NotPausedSound DEF countVars
<1> QED BY <1>5, <1>7, <1>8, <1>9, <1>10, <1>11 DEF IInv

-----------------------------------------------------------------------------
(* With the slot                                                           *)

\* Handlers go on and nothing else that their soundness looks at changes.
LEMMA HandlerKept ==
  ASSUME IInv, minted' = minted, NEW h \in Handlers, HandlerMoves(h, NoOp)
  PROVE  HandlersSound'
<1>1. 0 <= minted
  BY Numbers
<1> QED BY <1>1, Nothings DEF IInv, HandlersSound, HandlerMoves

\* The handler that held the slot ends and has given it back.
LEMMA SlotGivenBack ==
  ASSUME IInv, NEW h \in Handlers, HandlerHolds(h), HandlerMoves(h, NoOp), ~connecting',
         \A l \in Loops : loop'[l].kind = loop[l].kind
  PROVE  SlotSound'
<1>1. \A l \in Loops : ~LoopHolds(l)'
  BY DEF IInv, SlotSound, LoopHolds
<1>2. \A g \in Handlers : ~HandlerHolds(g)'
  BY Nothings DEF IInv, SlotSound, HandlerHolds, HandlerMoves
<1> QED BY <1>1, <1>2 DEF SlotSound

\* ... or has left it to the connect loop it starts.
LEMMA SlotHandedOver ==
  ASSUME IInv, NEW h \in Handlers, HandlerHolds(h), HandlerMoves(h, NoOp),
         connecting' = connecting, NEW l \in Loops, loop'[l].kind = "connect",
         \A k \in Loops \ {l} : loop'[k].kind = loop[k].kind
  PROVE  SlotSound'
<1>1. connecting /\ connecting'
  BY DEF IInv, SlotSound
<1>2. \A k \in Loops : LoopHolds(k)' => k = l
  BY DEF IInv, SlotSound, LoopHolds
<1>3. LoopHolds(l)'
  BY DEF LoopHolds
<1>4. \A g \in Handlers : ~HandlerHolds(g)'
  BY Nothings DEF IInv, SlotSound, HandlerHolds, HandlerMoves
<1> QED BY <1>1, <1>2, <1>3, <1>4 DEF SlotSound

\* A new loop leaves one live context.
LEMMA SpawnedContext ==
  ASSUME IInv, NEW l \in Loops, NEW r \in LoopStates, Spawns(l, r), r.kind # "none"
  PROVE  ContextSound'
BY DEF IInv, ContextSound, Spawns

LEMMA ConnectRereadsStep ==
  ASSUME IInv, NEW h \in Handlers, ConnectRereads(h)
  PROVE  IInv'
<1>1. /\ op[h].kind = "connect" /\ op[h].at = "held"
      /\ UNCHANGED <<cloudVars, cred, engine, attached, expired, countVars>>
  BY DEF ConnectRereads
<1>2. paused = "no" /\ HandlerHolds(h)
  BY <1>1, BusyNotPaused DEF HandlerHolds
<1>3. PauseSound'
  BY <1>1, <1>2, NotPausedSound DEF countVars
<1>4. CASE /\ op' = [op EXCEPT ![h] = NoOp]
           /\ Release
           /\ UNCHANGED <<loop, cancel>>
  <2>1. HandlerMoves(h, NoOp)
    BY <1>4, HandlerSet, Nothings
  <2>2. target' \in Spaces /\ connecting' \in BOOLEAN
    <3>1. 0 \in Spaces
      BY Bounds DEF Spaces
    <3>2. FALSE \in BOOLEAN
      BY Zenon
    <3> QED BY <1>4, <3>1, <3>2 DEF Release
  <2>3. TypeOK'
    BY <1>1, <1>4, <2>1, <2>2 DEF IInv, TypeOK, HandlerMoves, cloudVars, countVars
  <2>4. HandlersSound'
    BY <1>1, <2>1, HandlerKept DEF cloudVars
  <2>5. LoopsSound' /\ CredSound' /\ ContextSound'
    BY <1>1, <1>4 DEF IInv, LoopsSound, CredSound, ContextSound, cloudVars
  <2>6. SlotSound'
    BY <1>2, <1>4, <2>1, SlotGivenBack DEF Release
  <2> QED BY <1>3, <2>3, <2>4, <2>5, <2>6 DEF IInv
<1>5. CASE \E ws \in Spaces :
             /\ op' = [op EXCEPT ![h] = [@ EXCEPT !.space = ws,
                             !.at = IF engine # 0 THEN "detach" ELSE "bootstrap"]]
             /\ target' = ws
             /\ IF engine # 0 THEN StopLoops ELSE UNCHANGED <<loop, cancel>>
             /\ UNCHANGED connecting
  <2>1. PICK ws \in Spaces, at \in {"detach", "bootstrap"} :
          op' = [op EXCEPT ![h] = [op[h] EXCEPT !.space = ws, !.at = at]] /\ target' = ws
    BY <1>5
  <2>2. connecting' = connecting
    BY <1>5
  <2> DEFINE r == [op[h] EXCEPT !.space = ws, !.at = at]
  <2>3. op[h] \in HandlerStates
    BY DEF IInv, TypeOK
  <2>4. r \in HandlerStates /\ r.kind = "connect" /\ r.at = at /\ r.tok = op[h].tok
    BY <1>1, <2>3 DEF HandlerStates
  <2>5. op' = [op EXCEPT ![h] = r]
    BY <2>1
  <2> HIDE DEF r
  <2>6. HandlerMoves(h, r)
    BY <2>4, <2>5, HandlerSet
  <2>7. /\ loop' \in [Loops -> LoopStates] /\ cancel' \in {cancel, Nobody}
        /\ \A l \in Loops :
             /\ loop'[l].kind = loop[l].kind /\ loop'[l].at = loop[l].at
             /\ loop'[l].tok = loop[l].tok
             /\ loop[l] = NoLoop => loop'[l] = NoLoop
    <3>1. CASE StopLoops
      BY <3>1, StopFacts DEF Cuts
    <3>2. CASE UNCHANGED <<loop, cancel>>
      BY <3>2 DEF IInv, TypeOK
    <3> QED BY <1>5, <3>1, <3>2
  <2>8. ContextSound'
    <3>1. CASE StopLoops
      BY <3>1, StopFacts DEF Cuts, ContextSound
    <3>2. CASE UNCHANGED <<loop, cancel>>
      BY <3>2 DEF IInv, ContextSound
    <3> QED BY <1>5, <3>1, <3>2
  <2>9. TypeOK'
    BY <1>1, <2>1, <2>2, <2>6, <2>7 DEF IInv, TypeOK, HandlerMoves, cloudVars, countVars
  <2>10. HandlersSound'
    <3>1. minted' = minted
      BY <1>1 DEF cloudVars
    <3> QED BY <2>4, <2>6, <3>1 DEF IInv, HandlersSound, HandlerMoves
  <2>11. LoopsSound'
    <3>1. minted' = minted /\ valid' = valid
      BY <1>1 DEF cloudVars
    <3> QED BY <2>7, <3>1 DEF IInv, LoopsSound
  <2>12. CredSound'
    BY <1>1 DEF IInv, CredSound, cloudVars
  <2>13. SlotSound'
    <3>1. \A l \in Loops : LoopHolds(l)' = LoopHolds(l)
      BY <2>7 DEF LoopHolds
    <3>2. HandlerHolds(h)'
      BY <2>4, <2>6 DEF HandlerHolds, HandlerMoves
    <3>3. \A g \in Handlers \ {h} : HandlerHolds(g)' = HandlerHolds(g)
      BY <2>6 DEF HandlerHolds, HandlerMoves
    <3> QED BY <1>2, <2>2, <3>1, <3>2, <3>3 DEF IInv, SlotSound
  <2> QED BY <1>3, <2>8, <2>9, <2>10, <2>11, <2>12, <2>13 DEF IInv
<1> QED
  <2>1. space \in Spaces /\ op[h].space \in Spaces
    BY DEF IInv, TypeOK, HandlerStates
  <2> QED BY <1>4, <1>5, <2>1 DEF ConnectRereads

LEMMA ConnectClearsStep ==
  ASSUME IInv, NEW h \in Handlers, ConnectClears(h)
  PROVE  IInv'
<1>1. /\ op[h].kind = "connect" /\ op[h].at = "clear" /\ attached' = 0
      /\ UNCHANGED <<cloudVars, cred, engine, target, connecting, expired, cancel, loop,
                     countVars>>
  BY DEF ConnectClears
<1>2. HandlerAt(h, "bootstrap")
  BY HandlerAtSet DEF ConnectClears
<1>3. paused = "no" /\ attached' \in Spaces
  BY <1>1, BusyNotPaused, Bounds DEF Spaces
<1>4. TypeOK'
  BY <1>1, <1>2, <1>3 DEF IInv, TypeOK, HandlerAt, cloudVars, countVars
<1>5. HandlersSound'
  <2>1. minted' = minted
    BY <1>1 DEF cloudVars
  <2> QED BY <1>1, <1>2, <2>1 DEF IInv, HandlersSound, HandlerAt
<1>6. LoopsSound' /\ CredSound' /\ ContextSound'
  BY <1>1 DEF IInv, LoopsSound, CredSound, ContextSound, cloudVars
<1>7. SlotSound'
  BY <1>1, <1>2 DEF IInv, SlotSound, HandlerHolds, LoopHolds, HandlerAt
<1>8. PauseSound'
  BY <1>1, <1>3, NotPausedSound DEF countVars
<1> QED BY <1>4, <1>5, <1>6, <1>7, <1>8 DEF IInv

\* The tokens handlers, goroutines and the credential carry are numbers.
LEMMA TokenNumbers ==
  ASSUME IInv
  PROVE  /\ \A h \in Handlers : op[h].tok \in Nat
         /\ \A l \in Loops : loop[l].tok \in Nat
         /\ cred.tok \in Nat
<1>1. /\ \A h \in Handlers : op[h].tok \in Tokens
      /\ \A l \in Loops : loop[l].tok \in Tokens
      /\ cred.tok \in Tokens
  BY DEF IInv, TypeOK, HandlerStates, LoopStates
<1> QED BY <1>1, Bounds DEF Tokens

LEMMA SlotReset ==
  ASSUME Release
  PROVE  target' \in Spaces /\ connecting' \in BOOLEAN /\ ~connecting'
<1>1. 0 \in Spaces
  BY Bounds DEF Spaces
<1>2. FALSE \in BOOLEAN
  BY Zenon
<1> QED BY <1>1, <1>2 DEF Release

LEMMA ConnectBootstrapsStep ==
  ASSUME IInv, NEW h \in Handlers, ConnectBootstraps(h)
  PROVE  IInv'
<1>1. /\ op[h].at = "bootstrap"
      /\ UNCHANGED <<space, up, spaces, cred, engine, attached, expired, cancel, loop,
                     countVars>>
  BY DEF ConnectBootstraps
<1>2. op[h].kind = "connect" /\ paused = "no" /\ HandlerHolds(h)
  BY <1>1, AttachKinds, BusyNotPaused DEF HandlerHolds
<1>3. PauseSound' /\ ContextSound'
  BY <1>1, <1>2, NotPausedSound DEF countVars, IInv, ContextSound
<1>4. CASE /\ minted < MaxTokens /\ minted' = minted + 1 /\ valid' = minted + 1
           /\ op' = [op EXCEPT ![h] = [@ EXCEPT !.at = "save", !.tok = minted + 1]]
           /\ KeepSlot
  <2> DEFINE r == [op[h] EXCEPT !.at = "save", !.tok = minted + 1]
  <2>1. op[h] \in HandlerStates
    BY DEF IInv, TypeOK
  <2>2. minted + 1 \in Tokens /\ minted + 1 # 0
    BY <1>4, Numbers, Bounds DEF Tokens
  <2>3. /\ r \in HandlerStates /\ r.kind = "connect" /\ r.at = "save"
        /\ r.tok = minted + 1
    BY <1>2, <2>1, <2>2 DEF HandlerStates
  <2>4. op' = [op EXCEPT ![h] = r]
    BY <1>4
  <2> HIDE DEF r
  <2>5. HandlerMoves(h, r)
    BY <2>3, <2>4, HandlerSet
  <2>6. TypeOK'
    BY <1>1, <1>4, <2>2, <2>5 DEF IInv, TypeOK, HandlerMoves, KeepSlot, countVars
  <2>7. HandlersSound'
    <3>1. op'[h] = r /\ \A g \in Handlers \ {h} : op'[g] = op[g]
      BY <2>5 DEF HandlerMoves
    <3>2. \A g \in Handlers : op[g].tok <= minted + 1
      BY Numbers, TokenNumbers DEF IInv, HandlersSound
    <3>3. minted' = minted + 1 /\ minted + 1 <= minted + 1
      BY <1>4, Numbers
    <3>4. HandlersSound
      BY DEF IInv
    <3> QED BY <2>2, <2>3, <3>1, <3>2, <3>3, <3>4 DEF HandlersSound
  <2>8. LoopsSound'
    <3>1. loop' = loop
      BY <1>1
    <3> QED BY <1>4, <3>1, Numbers, TokenNumbers DEF IInv, LoopsSound
  <2>9. CredSound'
    <3>1. cred' = cred
      BY <1>1
    <3> QED BY <1>4, <3>1, Numbers, TokenNumbers DEF IInv, CredSound
  <2>10. SlotSound'
    <3>1. \A l \in Loops : LoopHolds(l)' = LoopHolds(l)
      BY <1>1 DEF LoopHolds
    <3>2. HandlerHolds(h)'
      BY <2>3, <2>5 DEF HandlerHolds, HandlerMoves
    <3>3. \A g \in Handlers \ {h} : HandlerHolds(g)' = HandlerHolds(g)
      BY <2>5 DEF HandlerHolds, HandlerMoves
    <3>4. connecting' = connecting
      BY <1>4 DEF KeepSlot
    <3> QED BY <1>2, <3>1, <3>2, <3>3, <3>4 DEF IInv, SlotSound
  <2> QED BY <1>3, <2>6, <2>7, <2>8, <2>9, <2>10 DEF IInv
<1>5. CASE /\ op' = [op EXCEPT ![h] = NoOp]
           /\ Release
           /\ UNCHANGED <<minted, valid>>
  <2>1. HandlerMoves(h, NoOp)
    BY <1>5, HandlerSet, Nothings
  <2>2. TypeOK'
    BY <1>1, <1>5, <2>1, SlotReset DEF IInv, TypeOK, HandlerMoves, countVars
  <2>3. HandlersSound' /\ SlotSound'
    BY <1>1, <1>2, <1>5, <2>1, SlotReset, HandlerKept, SlotGivenBack
  <2>4. LoopsSound' /\ CredSound'
    BY <1>1, <1>5 DEF IInv, LoopsSound, CredSound
  <2> QED BY <1>3, <2>2, <2>3, <2>4 DEF IInv
<1> QED BY <1>4, <1>5 DEF ConnectBootstraps

\* The handler that holds the slot gives it back and ends.
LEMMA HandlerEnds ==
  ASSUME IInv, NEW h \in Handlers, HandlerHolds(h), op' = [op EXCEPT ![h] = NoOp], Release,
         UNCHANGED <<cloudVars, engine, attached, expired, countVars>>,
         UNCHANGED <<cred, loop, cancel>>
  PROVE  IInv'
<1>1. HandlerMoves(h, NoOp)
  BY HandlerSet, Nothings
<1>2. TypeOK'
  BY <1>1, SlotReset DEF IInv, TypeOK, HandlerMoves, cloudVars, countVars
<1>3. HandlersSound'
  BY <1>1, HandlerKept DEF cloudVars
<1>4. SlotSound'
  BY <1>1, SlotReset, SlotGivenBack
<1>5. LoopsSound' /\ CredSound' /\ ContextSound'
  BY DEF IInv, LoopsSound, CredSound, ContextSound, cloudVars
<1>6. PauseSound'
  BY BusyNotPaused, NotPausedSound DEF HandlerHolds, countVars
<1> QED BY <1>2, <1>3, <1>4, <1>5, <1>6 DEF IInv

\* ... or starts the connect loop for its token.
LEMMA HandlerSpawns ==
  ASSUME IInv, NEW h \in Handlers, HandlerHolds(h), op[h].tok # 0,
         op' = [op EXCEPT ![h] = NoOp], KeepSlot, NEW l \in Loops,
         Spawn(l, NewLoop("connect", "exchange", op[h].tok, op[h].space)),
         \/ cred' = [tok |-> op[h].tok, space |-> op[h].space]
         \/ cred' = cred,
         UNCHANGED <<cloudVars, engine, attached, expired, countVars>>
  PROVE  IInv'
<1> DEFINE r == NewLoop("connect", "exchange", op[h].tok, op[h].space)
<1>1. op[h].tok \in Tokens /\ op[h].space \in Spaces
  BY DEF IInv, TypeOK, HandlerStates
<1>2. /\ r \in LoopStates /\ r.kind = "connect" /\ r.at = "exchange" /\ r.tok = op[h].tok
      /\ ~r.cancelled
  <2>1. FALSE \in BOOLEAN
    BY Zenon
  <2> QED BY <1>1, <2>1 DEF NewLoop, LoopStates
<1>3. Spawn(l, r)
  OBVIOUS
<1> HIDE DEF r
<1>4. Spawns(l, r)
  BY <1>2, <1>3, SpawnFacts
<1>5. HandlerMoves(h, NoOp)
  BY HandlerSet, Nothings
<1>6. cred' \in [tok : Tokens, space : Spaces]
  <2>1. cred \in [tok : Tokens, space : Spaces]
    BY DEF IInv, TypeOK
  <2>2. [tok |-> op[h].tok, space |-> op[h].space] \in [tok : Tokens, space : Spaces]
    BY <1>1
  <2> QED BY <2>1, <2>2
<1>7. TypeOK'
  <2>1. \A k \in Loops : loop'[k].at = "exchange" => loop'[k].tok # 0
    BY <1>2, <1>4 DEF IInv, TypeOK, Spawns
  <2> QED BY <1>4, <1>5, <1>6, <2>1 DEF IInv, TypeOK, HandlerMoves, Spawns, KeepSlot,
             cloudVars, countVars
<1>8. minted' = minted /\ valid' = valid
  BY DEF cloudVars
<1>9. HandlersSound'
  BY <1>5, <1>8, HandlerKept
<1>10. LoopsSound'
  <2>1. op[h].tok <= minted
    BY DEF IInv, HandlersSound
  <2> QED BY <1>2, <1>4, <1>8, <2>1 DEF IInv, LoopsSound, Spawns
<1>11. CredSound'
  <2>1. op[h].tok <= minted
    BY DEF IInv, HandlersSound
  <2>2. CASE cred' = [tok |-> op[h].tok, space |-> op[h].space]
    BY <1>8, <2>1, <2>2 DEF IInv, CredSound
  <2>3. CASE cred' = cred
    BY <1>8, <2>3 DEF IInv, CredSound
  <2> QED BY <2>2, <2>3
<1>12. SlotSound'
  BY <1>2, <1>4, <1>5, SlotHandedOver DEF KeepSlot, Spawns
<1>13. ContextSound'
  BY <1>2, <1>4, SpawnedContext
<1>14. PauseSound'
  BY BusyNotPaused, NotPausedSound DEF HandlerHolds, countVars
<1> QED BY <1>7, <1>9, <1>10, <1>11, <1>12, <1>13, <1>14 DEF IInv

LEMMA ConnectSavesStep ==
  ASSUME IInv, NEW h \in Handlers, ConnectSaves(h)
  PROVE  IInv'
<1>1. op[h].at = "save" /\ op[h].tok # 0
  BY DEF ConnectSaves, IInv, HandlersSound
<1>2. HandlerHolds(h)
  BY <1>1, AttachKinds DEF HandlerHolds
<1> QED BY <1>1, <1>2, HandlerEnds, HandlerSpawns DEF ConnectSaves

LEMMA ResumeHoldsStep ==
  ASSUME IInv, NEW h \in Handlers, ResumeHolds(h)
  PROVE  IInv'
<1>1. op[h].kind \in {"resume", "boot"} /\ op[h].at = "held" /\ op[h].tok # 0
  BY Nothings DEF ResumeHolds, IInv, HandlersSound
<1>2. HandlerHolds(h)
  BY <1>1 DEF HandlerHolds
<1> QED BY <1>1, <1>2, HandlerEnds, HandlerSpawns DEF ResumeHolds

-----------------------------------------------------------------------------
(* Pause and Disconnect                                                    *)

\* The handler that pauses is the only one.
LEMMA OnlyPauser ==
  ASSUME IInv, NEW h \in Handlers, op[h].kind \in {"stop", "delete"}, paused # "no"
  PROVE  /\ paused = "so far" /\ Quiet
         /\ op[h].at = "clear" => engine = 0
         /\ \A g \in Handlers \ {h} : op[g] = NoOp
BY Nothings DEF IInv, TypeOK, PauseSound

LEMMA DeleteClearsCredStep ==
  ASSUME IInv, NEW h \in Handlers, DeleteClearsCred(h)
  PROVE  IInv'
<1>1. /\ op[h].at = "uncred" /\ cred' = NoCred
      /\ UNCHANGED <<cloudVars, engine, localVars, loop, countVars>>
  BY DEF DeleteClearsCred
<1>2. HandlerAt(h, "detach")
  BY HandlerAtSet DEF DeleteClearsCred
<1>3. op[h].kind = "delete"
  BY <1>1, Nothings DEF IInv, HandlersSound
<1>4. TypeOK'
  BY <1>1, <1>2, Nothings DEF IInv, TypeOK, HandlerAt, cloudVars, localVars, countVars
<1>5. minted' = minted /\ valid' = valid
  BY <1>1 DEF cloudVars
<1>6. HandlersSound'
  BY <1>1, <1>2, <1>3, <1>5 DEF IInv, HandlersSound, HandlerAt
<1>7. CredSound'
  <2>1. 0 <= minted
    BY Numbers
  <2> QED BY <1>1, <1>5, <2>1, Nothings DEF IInv, CredSound
<1>8. LoopsSound' /\ ContextSound'
  BY <1>1 DEF IInv, LoopsSound, ContextSound, cloudVars, localVars
<1>9. SlotSound'
  BY <1>1, <1>2, <1>3 DEF IInv, SlotSound, HandlerHolds, LoopHolds, HandlerAt, localVars
<1>10. PauseSound'
  <2>1. CASE paused = "no"
    BY <1>1, <2>1, NotPausedSound DEF countVars
  <2>2. CASE paused # "no"
    BY <1>1, <1>2, <1>3, <2>2, OnlyPauser DEF countVars, PauseSound, HandlerAt, Quiet
  <2> QED BY <2>1, <2>2
<1> QED BY <1>4, <1>6, <1>7, <1>8, <1>9, <1>10 DEF IInv

LEMMA DetachStep ==
  ASSUME IInv, NEW h \in Handlers, Detach(h)
  PROVE  IInv'
<1>1. /\ op[h].at = "detach" /\ engine' = 0
      /\ UNCHANGED <<cloudVars, cred, localVars, loop, countVars>>
  BY DEF Detach
<1>2. HandlerAt(h, "clear")
  BY HandlerAtSet DEF Detach
<1>3. op[h].kind \in {"connect", "stop", "delete"} /\ engine' \in Spaces
  BY <1>1, Nothings, Bounds DEF IInv, HandlersSound, Spaces
<1>4. TypeOK'
  BY <1>1, <1>2, <1>3 DEF IInv, TypeOK, HandlerAt, cloudVars, localVars, countVars
<1>5. minted' = minted
  BY <1>1 DEF cloudVars
<1>6. HandlersSound'
  BY <1>1, <1>2, <1>3, <1>5 DEF IInv, HandlersSound, HandlerAt
<1>7. LoopsSound' /\ ContextSound' /\ CredSound'
  BY <1>1 DEF IInv, LoopsSound, ContextSound, CredSound, cloudVars, localVars
<1>8. SlotSound'
  BY <1>1, <1>2, <1>3 DEF IInv, SlotSound, HandlerHolds, LoopHolds, HandlerAt, localVars
<1>9. PauseSound'
  <2>1. CASE paused = "no"
    BY <1>1, <2>1, NotPausedSound DEF countVars
  <2>2. CASE paused # "no"
    <3>1. op[h].kind \in {"stop", "delete"}
      BY <1>3, <2>2, BusyNotPaused
    <3> QED BY <1>1, <1>2, <2>2, <3>1, OnlyPauser DEF countVars, PauseSound, HandlerAt, Quiet
  <2> QED BY <2>1, <2>2
<1> QED BY <1>4, <1>6, <1>7, <1>8, <1>9 DEF IInv

LEMMA ClearLocalStep ==
  ASSUME IInv, NEW h \in Handlers, ClearLocal(h)
  PROVE  IInv'
<1>1. /\ op[h].kind # "connect" /\ op[h].at = "clear" /\ attached' = 0 /\ target' = 0
      /\ paused' = IF paused = "so far" THEN "yes" ELSE "no"
      /\ UNCHANGED <<cloudVars, cred, engine, connecting, cancel, loop, requests, restarts>>
  BY DEF ClearLocal
<1>2. HandlerMoves(h, NoOp)
  BY HandlerSet, Nothings DEF ClearLocal
<1>3. op[h].kind \in {"stop", "delete"} /\ attached' \in Spaces /\ target' \in Spaces
  <2>1. 0 \in Spaces
    BY Bounds DEF Spaces
  <2> QED BY <1>1, <2>1, Nothings DEF IInv, HandlersSound
<1>4. expired' \in BOOLEAN
  <2>1. FALSE \in BOOLEAN
    BY Zenon
  <2> QED BY <2>1 DEF ClearLocal, IInv, TypeOK
<1>5. TypeOK'
  <2>1. paused' \in {"no", "yes"}
    BY <1>1
  <2> QED BY <1>1, <1>2, <1>3, <1>4, <2>1 DEF IInv, TypeOK, HandlerMoves, cloudVars
<1>6. HandlersSound'
  BY <1>1, <1>2, HandlerKept DEF cloudVars
<1>7. LoopsSound' /\ ContextSound' /\ CredSound'
  <2>1. UNCHANGED <<loop, cred, cancel, minted, valid>>
    BY <1>1 DEF cloudVars
  <2> QED BY <2>1 DEF IInv, LoopsSound, ContextSound, CredSound
<1>8. SlotSound'
  BY <1>1, <1>2, <1>3, Nothings DEF IInv, SlotSound, HandlerHolds, LoopHolds, HandlerMoves
<1>9. PauseSound'
  <2>1. CASE paused # "so far"
    BY <1>1, <2>1, NotPausedSound
  <2>2. CASE paused = "so far"
    BY <1>1, <1>2, <1>3, <2>2, OnlyPauser DEF PauseSound, HandlerMoves, Quiet
  <2> QED BY <2>1, <2>2
<1> QED BY <1>5, <1>6, <1>7, <1>8, <1>9 DEF IInv

-----------------------------------------------------------------------------
(* The connect loop and the refresh loop                                   *)

\* Goroutine l ends, or goes on at at with the same kind, token and context.
LoopEnds(l) ==
  /\ loop' \in [Loops -> LoopStates] /\ loop'[l] = NoLoop
  /\ \A k \in Loops \ {l} : loop'[k] = loop[k]
  /\ cancel' = IF cancel = l THEN Nobody ELSE cancel
  /\ loop[l].kind = "connect" => target' = 0 /\ connecting' = FALSE
  /\ loop[l].kind # "connect" => target' = target /\ connecting' = connecting

LoopGoes(l, at) ==
  /\ loop' \in [Loops -> LoopStates]
  /\ loop'[l].at = at /\ loop'[l].kind = loop[l].kind /\ loop'[l].tok = loop[l].tok
  /\ loop'[l].cancelled = loop[l].cancelled
  /\ \A k \in Loops \ {l} : loop'[k] = loop[k]
  /\ cancel' = cancel /\ target' = target /\ connecting' = connecting

LEMMA LoopShapes ==
  ASSUME IInv, NEW l \in Loops
  PROVE  /\ Ends(l) => LoopEnds(l)
         /\ \A at \in {"exchange", "granted", "rejected", "flag", "dial", "attach",
                       "record", "wait"} : Moves(l, at) => LoopGoes(l, at)
<1>1. Ends(l) => LoopEnds(l)
  BY EndsFacts DEF LoopMoves, LoopEnds
<1>2. ASSUME NEW at \in {"exchange", "granted", "rejected", "flag", "dial", "attach",
                         "record", "wait"}, Moves(l, at)
      PROVE  LoopGoes(l, at)
  <2> DEFINE r == [loop[l] EXCEPT !.at = at]
  <2>1. loop[l] \in LoopStates
    BY DEF IInv, TypeOK
  <2>2. r.at = at /\ r.kind = loop[l].kind /\ r.tok = loop[l].tok
        /\ r.cancelled = loop[l].cancelled
    BY <2>1 DEF LoopStates
  <2>3. LoopMoves(l, r) /\ cancel' = cancel /\ target' = target /\ connecting' = connecting
    BY <1>2, MovesFacts
  <2> HIDE DEF r
  <2> QED BY <2>2, <2>3 DEF LoopMoves, LoopGoes
<1> QED BY <1>1, <1>2

\* A goroutine that ends keeps the invariant, whatever it recorded before.
LEMMA LoopEndsStep ==
  ASSUME IInv, NEW l \in Loops, LoopEnds(l), loop[l].kind # "none", Dataless,
         UNCHANGED <<engine, attached>>, expired' \in BOOLEAN, cred' \in {cred, NoCred}
  PROVE  IInv'
<1>1. minted' = minted /\ valid' = valid /\ op' = op /\ paused' = paused
  BY DEF Dataless, cloudVars, countVars
<1>2. target' \in Spaces /\ connecting' \in BOOLEAN
  <2>1. 0 \in Spaces
    BY Bounds DEF Spaces
  <2>2. FALSE \in BOOLEAN
    BY Zenon
  <2>3. target \in Spaces /\ connecting \in BOOLEAN
    BY DEF IInv, TypeOK
  <2>4. CASE loop[l].kind = "connect"
    BY <2>1, <2>2, <2>4 DEF LoopEnds
  <2>5. CASE loop[l].kind # "connect"
    BY <2>3, <2>5 DEF LoopEnds
  <2> QED BY <2>4, <2>5
<1>3. cred' \in [tok : Tokens, space : Spaces]
  BY Nothings DEF IInv, TypeOK
<1>4. TypeOK'
  <2>1. \A k \in Loops : loop'[k].at = "exchange" => loop'[k].tok # 0
    BY Nothings DEF IInv, TypeOK, LoopEnds
  <2>2. cancel' \in Loops \cup {Nobody}
    BY DEF IInv, TypeOK, LoopEnds
  <2> QED BY <1>2, <1>3, <2>1, <2>2 DEF IInv, TypeOK, LoopEnds, Dataless, cloudVars, countVars
<1>5. HandlersSound'
  BY <1>1 DEF IInv, HandlersSound
<1>6. LoopsSound'
  <2>1. 0 <= minted
    BY Numbers
  <2> QED BY <1>1, <2>1, Nothings DEF IInv, LoopsSound, LoopEnds
<1>7. CredSound'
  <2>1. 0 <= minted
    BY Numbers
  <2> QED BY <1>1, <2>1, Nothings DEF IInv, CredSound
<1>8. SlotSound'
  <2>1. \A k \in Loops : LoopHolds(k)' => LoopHolds(k) /\ k # l
    BY Nothings DEF LoopEnds, LoopHolds
  <2>2. \A k \in Loops \ {l} : LoopHolds(k)' = LoopHolds(k)
    BY DEF LoopEnds, LoopHolds
  <2>3. \A h \in Handlers : HandlerHolds(h)' = HandlerHolds(h)
    BY <1>1 DEF HandlerHolds
  <2>4. CASE LoopHolds(l)
    <3>1. ~connecting'
      BY <2>4 DEF LoopEnds, LoopHolds
    <3>2. /\ \A k \in Loops : ~LoopHolds(k)'
          /\ \A h \in Handlers : ~HandlerHolds(h)'
      BY <2>1, <2>3, <2>4 DEF IInv, SlotSound
    <3> QED BY <3>1, <3>2 DEF SlotSound
  <2>5. CASE ~LoopHolds(l)
    <3>1. connecting' = connecting
      BY <2>5 DEF LoopEnds, LoopHolds
    <3> QED BY <2>1, <2>2, <2>3, <2>5, <3>1 DEF IInv, SlotSound
  <2> QED BY <2>4, <2>5
<1>9. ContextSound'
  BY Nothings, Bounds DEF IInv, TypeOK, ContextSound, LoopEnds
<1>10. PauseSound'
  <2>1. engine' = engine
    OBVIOUS
  <2>2. Quiet => Quiet'
    BY Nothings DEF LoopEnds, Quiet
  <2> QED BY <1>1, <2>1, <2>2 DEF IInv, PauseSound
<1> QED BY <1>4, <1>5, <1>6, <1>7, <1>8, <1>9, <1>10 DEF IInv

\* A goroutine that goes on keeps it too.
LEMMA LoopGoesStep ==
  ASSUME IInv, NEW l \in Loops,
         NEW at \in {"exchange", "granted", "rejected", "flag", "dial", "attach", "record",
                     "wait"},
         LoopGoes(l, at), Dataless, attached' = attached,
         loop[l].kind = "connect" \/ (loop[l].kind = "refresh" /\ at # "record"),
         loop[l].tok # 0 \/ at = "wait",
         at = "rejected" => loop[l].tok # valid,
         engine' \in Spaces, expired' \in BOOLEAN, cred' \in {cred, NoCred},
         at \in {"attach", "record"} \/ engine' # engine => paused = "no"
  PROVE  IInv'
<1>1. minted' = minted /\ valid' = valid /\ op' = op /\ paused' = paused
  BY DEF Dataless, cloudVars, countVars
<1>2. cred' \in [tok : Tokens, space : Spaces]
  BY Nothings DEF IInv, TypeOK
<1>3. TypeOK'
  <2>1. \A k \in Loops : loop'[k].at = "exchange" => loop'[k].tok # 0
    BY DEF IInv, TypeOK, LoopGoes
  <2> QED BY <1>2, <2>1 DEF IInv, TypeOK, LoopGoes, Dataless, cloudVars, countVars
<1>4. HandlersSound'
  BY <1>1 DEF IInv, HandlersSound
<1>5. LoopsSound'
  <2>1. \A k \in Loops \ {l} : loop'[k] = loop[k]
    BY DEF LoopGoes
  <2>2. /\ loop'[l].at = at /\ loop'[l].kind = loop[l].kind /\ loop'[l].tok = loop[l].tok
    BY DEF LoopGoes
  <2>3. loop[l].kind = "connect" => loop[l].tok # 0
    BY Nothings DEF IInv, LoopsSound
  <2> QED BY <1>1, <2>1, <2>2, <2>3 DEF IInv, LoopsSound
<1>6. CredSound'
  <2>1. 0 <= minted
    BY Numbers
  <2> QED BY <1>1, <2>1, Nothings DEF IInv, CredSound
<1>7. SlotSound'
  <2>1. \A k \in Loops : LoopHolds(k)' = LoopHolds(k)
    BY DEF LoopGoes, LoopHolds
  <2>2. \A h \in Handlers : HandlerHolds(h)' = HandlerHolds(h)
    BY <1>1 DEF HandlerHolds
  <2>3. connecting' = connecting
    BY DEF LoopGoes
  <2> QED BY <2>1, <2>2, <2>3 DEF IInv, SlotSound
<1>8. ContextSound'
  <2>1. \A k \in Loops : loop'[k].kind = loop[k].kind /\ loop'[k].cancelled = loop[k].cancelled
    BY DEF LoopGoes
  <2>2. cancel' = cancel /\ cancel \in Loops \cup {Nobody}
    BY DEF LoopGoes, IInv, TypeOK
  <2> QED BY <2>1, <2>2 DEF IInv, ContextSound
<1>9. PauseSound'
  <2>1. CASE paused = "no"
    BY <1>1, <2>1, NotPausedSound
  <2>2. CASE paused # "no"
    <3>1. engine' = engine /\ at \notin {"attach", "record"}
      BY <2>2
    <3>2. Quiet => Quiet'
      BY <3>1 DEF LoopGoes, Quiet
    <3> QED BY <1>1, <3>1, <3>2 DEF IInv, PauseSound
  <2> QED BY <2>1, <2>2
<1> QED BY <1>3, <1>4, <1>5, <1>6, <1>7, <1>8, <1>9 DEF IInv

\* What the place of a goroutine says about it.
LEMMA LoopCases ==
  ASSUME IInv, NEW l \in Loops, loop[l].at # "none"
  PROVE  /\ loop[l].kind \in {"connect", "refresh"}
         /\ loop[l].at = "record" => loop[l].kind = "connect"
         /\ loop[l].at # "wait" => loop[l].tok # 0
         /\ loop[l].at \in {"attach", "record"} => paused = "no"
         /\ ~loop[l].cancelled => paused = "no"
<1>1. loop[l] # NoLoop
  BY Nothings
<1>2. /\ loop[l].kind \in {"connect", "refresh"}
      /\ loop[l].at = "record" => loop[l].kind = "connect"
      /\ loop[l].at # "wait" => loop[l].tok # 0
  BY <1>1 DEF IInv, LoopsSound
<1>3. paused # "no" => Quiet
  BY DEF IInv, PauseSound
<1> QED BY <1>2, <1>3 DEF Quiet

LEMMA Flags ==
  ASSUME IInv
  PROVE  engine \in Spaces /\ expired \in BOOLEAN /\ \A l \in Loops : loop[l].space \in Spaces
BY DEF IInv, TypeOK, LoopStates

\* The call failed for now.
LEMMA FailedForNowStep ==
  ASSUME IInv, NEW l \in Loops, loop[l].at \in {"exchange", "dial"}, FailedForNow(l),
         UNCHANGED <<cred, engine, attached, expired>>, Dataless
  PROVE  IInv'
<1>1. loop[l].kind \in {"connect", "refresh"}
  BY LoopCases
<1>2. CASE Ends(l)
  BY <1>1, <1>2, LoopShapes, LoopEndsStep, Flags
<1>3. CASE Moves(l, "wait")
  BY <1>1, <1>3, LoopShapes, LoopGoesStep, Flags
<1> QED BY <1>2, <1>3 DEF FailedForNow

LEMMA ExchangeStep ==
  ASSUME IInv, NEW l \in Loops,
         \/ ExchangeAnswered(l) \/ ExchangeFails(l) \/ ExchangeGranted(l)
         \/ ExchangeRejected(l) \/ RaiseExpired(l)
  PROVE  IInv'
<1>1. CASE ExchangeAnswered(l)
  <2>1. PICK at \in {"granted", "rejected"} :
          Moves(l, at) /\ (at = "rejected" => loop[l].tok # valid)
    BY <1>1 DEF ExchangeAnswered
  <2>2. LoopGoes(l, at)
    BY <2>1, LoopShapes
  <2>3. /\ loop[l].at = "exchange"
        /\ UNCHANGED <<cred, engine, attached, expired>> /\ Dataless
    BY <1>1 DEF ExchangeAnswered
  <2> QED BY <2>1, <2>2, <2>3, LoopGoesStep, LoopCases, Flags
<1>2. CASE ExchangeFails(l)
  BY <1>2, FailedForNowStep DEF ExchangeFails
<1>3. CASE ExchangeGranted(l)
  <2>1. LoopGoes(l, "dial")
    BY <1>3, LoopShapes DEF ExchangeGranted
  <2>2. expired' \in BOOLEAN
    BY <1>3, Zenon DEF ExchangeGranted
  <2>3. loop[l].at = "granted" /\ UNCHANGED <<cred, engine, attached>> /\ Dataless
    BY <1>3 DEF ExchangeGranted
  <2> QED BY <2>1, <2>2, <2>3, LoopGoesStep, LoopCases, Flags
<1>4. CASE ExchangeRejected(l)
  <2>1. loop[l].at = "rejected" /\ UNCHANGED <<engine, attached, expired>> /\ Dataless
    BY <1>4 DEF ExchangeRejected
  <2>2. CASE cred' = NoCred /\ Moves(l, "flag")
    <3>1. LoopGoes(l, "flag")
      BY <2>2, LoopShapes
    <3> QED BY <2>1, <2>2, <3>1, LoopGoesStep, LoopCases, Flags
  <2>3. CASE Ends(l) /\ UNCHANGED cred
    <3>1. LoopEnds(l)
      BY <2>3, LoopShapes
    <3> QED BY <2>1, <2>3, <3>1, LoopEndsStep, LoopCases, Flags
  <2> QED BY <1>4, <2>2, <2>3 DEF ExchangeRejected
<1>5. CASE RaiseExpired(l)
  <2>1. LoopEnds(l)
    BY <1>5, LoopShapes DEF RaiseExpired
  <2>2. expired' \in BOOLEAN
    BY <1>5, Zenon DEF RaiseExpired
  <2>3. loop[l].at = "flag" /\ UNCHANGED <<cred, engine, attached>> /\ Dataless
    BY <1>5 DEF RaiseExpired
  <2> QED BY <2>1, <2>2, <2>3, LoopEndsStep, LoopCases
<1> QED BY <1>1, <1>2, <1>3, <1>4, <1>5

LEMMA DialStep ==
  ASSUME IInv, NEW l \in Loops, DialSucceeds(l) \/ DialFails(l) \/ EngineAttached(l) \/ Retry(l)
  PROVE  IInv'
<1>1. CASE DialSucceeds(l)
  <2>1. LoopGoes(l, "attach")
    BY <1>1, LoopShapes DEF DialSucceeds
  <2>2. /\ loop[l].at = "dial" /\ ~loop[l].cancelled
        /\ UNCHANGED <<cred, engine, attached, expired>> /\ Dataless
    BY <1>1 DEF DialSucceeds
  <2> QED BY <2>1, <2>2, LoopGoesStep, LoopCases, Flags
<1>2. CASE DialFails(l)
  BY <1>2, FailedForNowStep DEF DialFails
<1>3. CASE EngineAttached(l)
  <2>1. PICK at \in {"record", "wait"} :
          Moves(l, at) /\ (at = "record" => loop[l].kind = "connect")
    BY <1>3 DEF EngineAttached
  <2>2. LoopGoes(l, at)
    BY <2>1, LoopShapes
  <2>3. /\ loop[l].at = "attach" /\ engine' = loop[l].space
        /\ UNCHANGED <<cred, attached, expired>> /\ Dataless
    BY <1>3 DEF EngineAttached
  <2> QED BY <2>1, <2>2, <2>3, LoopGoesStep, LoopCases, Flags
<1>4. CASE Retry(l)
  <2>1. /\ loop[l].kind = "connect" /\ loop[l].at = "wait"
        /\ UNCHANGED <<cred, engine, attached, expired>> /\ Dataless
    BY <1>4 DEF Retry
  <2>2. loop[l].tok # 0
    BY <2>1, Nothings DEF IInv, LoopsSound
  <2>3. CASE Ends(l)
    BY <2>1, <2>3, LoopShapes, LoopEndsStep, Flags
  <2>4. CASE Moves(l, "exchange")
    BY <2>1, <2>2, <2>4, LoopShapes, LoopGoesStep, Flags
  <2> QED BY <1>4, <2>3, <2>4 DEF Retry
<1> QED BY <1>1, <1>2, <1>3, <1>4

LEMMA AttachRecordedStep ==
  ASSUME IInv, NEW l \in Loops, AttachRecorded(l)
  PROVE  IInv'
<1> DEFINE r == NewLoop("refresh", "wait", 0, 0)
<1>1. /\ loop[l].at = "record" /\ attached' = loop[l].space /\ Release
      /\ UNCHANGED <<cred, engine, expired>> /\ Dataless
  BY DEF AttachRecorded
<1>2. loop[l].kind = "connect" /\ paused = "no" /\ attached' \in Spaces
  BY <1>1, LoopCases, Flags
<1>3. /\ r \in LoopStates /\ r.kind = "refresh" /\ r.at = "wait" /\ r.tok = 0
  <2>1. FALSE \in BOOLEAN
    BY Zenon
  <2>2. 0 \in Tokens /\ 0 \in Spaces
    BY Bounds DEF Tokens, Spaces
  <2> QED BY <2>1, <2>2 DEF NewLoop, LoopStates
<1>4. Spawn(l, r)
  BY DEF AttachRecorded
<1> HIDE DEF r
<1>5. Spawns(l, r)
  BY <1>3, <1>4, SpawnFacts
<1>6. minted' = minted /\ valid' = valid /\ op' = op /\ paused' = paused
  BY <1>1 DEF Dataless, cloudVars, countVars
<1>7. TypeOK'
  <2>1. \A k \in Loops : loop'[k].at = "exchange" => loop'[k].tok # 0
    BY <1>3, <1>5 DEF IInv, TypeOK, Spawns
  <2>2. target' \in Spaces /\ connecting' \in BOOLEAN
    BY <1>1, SlotReset
  <2> QED BY <1>1, <1>2, <1>5, <2>1, <2>2 DEF IInv, TypeOK, Spawns, Dataless, cloudVars,
             countVars
<1>8. HandlersSound'
  BY <1>6 DEF IInv, HandlersSound
<1>9. LoopsSound'
  <2>1. 0 <= minted
    BY Numbers
  <2> QED BY <1>3, <1>5, <1>6, <2>1 DEF IInv, LoopsSound, Spawns
<1>10. CredSound'
  BY <1>1, <1>6 DEF IInv, CredSound
<1>11. SlotSound'
  <2>1. \A k \in Loops : ~LoopHolds(k)'
    BY <1>2, <1>3, <1>5 DEF IInv, SlotSound, LoopHolds, Spawns
  <2>2. \A h \in Handlers : ~HandlerHolds(h)'
    BY <1>2, <1>6 DEF IInv, SlotSound, LoopHolds, HandlerHolds
  <2> QED BY <1>1, <2>1, <2>2, SlotReset DEF SlotSound
<1>12. ContextSound'
  BY <1>3, <1>5, SpawnedContext
<1>13. PauseSound'
  BY <1>2, <1>6, NotPausedSound
<1> QED BY <1>7, <1>8, <1>9, <1>10, <1>11, <1>12, <1>13 DEF IInv

LEMMA RefreshTickStep ==
  ASSUME IInv, NEW l \in Loops, RefreshTick(l)
  PROVE  IInv'
<1>1. /\ loop[l].kind = "refresh" /\ loop[l].at = "wait"
      /\ UNCHANGED <<cred, engine, attached, expired>> /\ Dataless
  BY DEF RefreshTick
<1>2. CASE Ends(l)
  BY <1>1, <1>2, LoopShapes, LoopEndsStep, Flags
<1>3. CASE /\ ~loop[l].cancelled /\ cred # NoCred
           /\ loop' = [loop EXCEPT ![l] = [@ EXCEPT !.at = "exchange", !.tok = cred.tok,
                                                     !.space = cred.space]]
           /\ UNCHANGED <<cancel, target, connecting>>
  <2> DEFINE r == [loop[l] EXCEPT !.at = "exchange", !.tok = cred.tok, !.space = cred.space]
  <2>1. /\ loop \in [Loops -> LoopStates] /\ loop[l] \in LoopStates
        /\ cred \in [tok : Tokens, space : Spaces]
    BY DEF IInv, TypeOK
  <2>2. /\ r \in LoopStates /\ r.kind = "refresh" /\ r.at = "exchange" /\ r.tok = cred.tok
        /\ r.cancelled = loop[l].cancelled
    BY <1>1, <2>1 DEF LoopStates
  <2>3. loop' = [loop EXCEPT ![l] = r]
    BY <1>3
  <2> HIDE DEF r
  <2>4. LoopMoves(l, r)
    BY <2>1, <2>2, <2>3 DEF LoopMoves
  <2>5. cred.tok # 0 /\ cred.tok <= minted
    BY <1>3 DEF IInv, CredSound
  <2>6. minted' = minted /\ valid' = valid /\ op' = op /\ paused' = paused
    BY <1>1 DEF Dataless, cloudVars, countVars
  <2>7. TypeOK'
    <3>1. \A k \in Loops : loop'[k].at = "exchange" => loop'[k].tok # 0
      BY <2>2, <2>4, <2>5 DEF IInv, TypeOK, LoopMoves
    <3> QED BY <1>1, <1>3, <2>4, <3>1 DEF IInv, TypeOK, LoopMoves, Dataless, cloudVars,
               countVars
  <2>8. HandlersSound'
    BY <2>6 DEF IInv, HandlersSound
  <2>9. LoopsSound'
    BY <2>2, <2>4, <2>5, <2>6 DEF IInv, LoopsSound, LoopMoves
  <2>10. CredSound'
    BY <1>1, <2>6 DEF IInv, CredSound
  <2>11. SlotSound'
    <3>1. \A k \in Loops : LoopHolds(k)' = LoopHolds(k)
      BY <1>1, <2>2, <2>4 DEF LoopMoves, LoopHolds
    <3>2. \A h \in Handlers : HandlerHolds(h)' = HandlerHolds(h)
      BY <2>6 DEF HandlerHolds
    <3> QED BY <1>3, <3>1, <3>2 DEF IInv, SlotSound
  <2>12. ContextSound'
    <3>1. cancel' = cancel /\ cancel \in Loops \cup {Nobody}
      BY <1>3 DEF IInv, TypeOK
    <3> QED BY <1>1, <2>2, <2>4, <3>1 DEF IInv, ContextSound, LoopMoves
  <2>13. PauseSound'
    BY <1>1, <1>3, <2>6, LoopCases, NotPausedSound
  <2> QED BY <2>7, <2>8, <2>9, <2>10, <2>11, <2>12, <2>13 DEF IInv
<1> QED BY <1>2, <1>3 DEF RefreshTick

-----------------------------------------------------------------------------
(* The world                                                               *)

LEMMA RevokedStep ==
  ASSUME IInv, Revoked
  PROVE  IInv'
<1>1. /\ valid' = 0
      /\ UNCHANGED <<space, up, minted, spaces, cred, engine, localVars, op, loop, countVars>>
  BY DEF Revoked
<1>2. UNCHANGED <<minted, op, loop, cred, cancel, connecting, engine, paused>>
  BY <1>1 DEF localVars, countVars
<1>3. TypeOK'
  <2>1. valid' \in Tokens
    BY <1>1, Bounds DEF Tokens
  <2> QED BY <1>1, <2>1 DEF IInv, TypeOK, localVars, countVars
<1>4. LoopsSound'
  <2>1. \A l \in Loops : loop[l].at = "rejected" => loop[l].tok # 0
    BY LoopCases
  <2> QED BY <1>1, <1>2, <2>1 DEF IInv, LoopsSound
<1>5. CredSound'
  <2>1. 0 <= minted
    BY Numbers
  <2> QED BY <1>1, <1>2, <2>1 DEF IInv, CredSound
<1>6. HandlersSound' /\ ContextSound'
  BY <1>2 DEF IInv, HandlersSound, ContextSound
<1>7. SlotSound'
  BY <1>2 DEF IInv, SlotSound, HandlerHolds, LoopHolds
<1>8. PauseSound'
  BY <1>2 DEF IInv, PauseSound, Quiet
<1> QED BY <1>3, <1>4, <1>5, <1>6, <1>7, <1>8 DEF IInv

LEMMA RestartStep ==
  ASSUME IInv, Restart
  PROVE  IInv'
<1>1. /\ restarts < MaxRestarts /\ restarts' = restarts + 1
      /\ engine' = 0 /\ attached' = 0 /\ target' = 0 /\ cancel' = Nobody
      /\ connecting' = FALSE /\ expired' = FALSE
      /\ loop' = [l \in Loops |-> NoLoop]
      /\ paused' = "no"
      /\ UNCHANGED <<cloudVars, cred, requests>>
  BY DEF Restart
<1>2. minted' = minted /\ valid' = valid /\ cred' = cred
  BY <1>1 DEF cloudVars
<1> DEFINE r == [kind |-> "boot", at |-> "acquire", tok |-> cred.tok, space |-> cred.space]
<1>3. /\ r \in HandlerStates /\ r.kind = "boot" /\ r.at = "acquire" /\ r.tok = cred.tok
  BY DEF IInv, TypeOK, HandlerStates
<1>4. PICK boot \in Handlers :
        op' = [h \in Handlers |-> IF h = boot /\ cred # NoCred THEN r ELSE NoOp]
  BY DEF Restart
<1> HIDE DEF r
<1>5. /\ op' \in [Handlers -> HandlerStates]
      /\ \A h \in Handlers : op'[h] = NoOp \/ (op'[h] = r /\ cred # NoCred)
  BY <1>3, <1>4, Nothings
<1>6. loop' \in [Loops -> LoopStates] /\ \A l \in Loops : loop'[l] = NoLoop
  BY <1>1, Nothings
<1>7. TypeOK'
  <2>1. restarts' \in 0..MaxRestarts
    <3>1. restarts \in 0..MaxRestarts
      BY DEF IInv, TypeOK
    <3> QED BY <1>1, <3>1, Bounds
  <2>2. 0 \in Spaces
    BY Bounds DEF Spaces
  <2>3. connecting' \in BOOLEAN /\ expired' \in BOOLEAN
    BY <1>1, Zenon
  <2> QED BY <1>1, <1>5, <1>6, <2>1, <2>2, <2>3, Nothings DEF IInv, TypeOK, cloudVars
<1>8. HandlersSound'
  <2>1. 0 <= minted
    BY Numbers
  <2>2. cred.tok <= minted /\ (cred # NoCred => cred.tok # 0)
    BY DEF IInv, CredSound
  <2> QED BY <1>2, <1>3, <1>5, <2>1, <2>2, Nothings DEF HandlersSound
<1>9. LoopsSound'
  <2>1. 0 <= minted
    BY Numbers
  <2> QED BY <1>2, <1>6, <2>1, Nothings DEF LoopsSound
<1>10. CredSound'
  BY <1>2 DEF IInv, CredSound
<1>11. SlotSound'
  BY <1>1, <1>3, <1>5, <1>6, Nothings DEF SlotSound, HandlerHolds, LoopHolds
<1>12. ContextSound'
  BY <1>1, <1>6, Nothings DEF ContextSound
<1>13. PauseSound'
  BY <1>1, NotPausedSound
<1> QED BY <1>7, <1>8, <1>9, <1>10, <1>11, <1>12, <1>13 DEF IInv

-----------------------------------------------------------------------------
(* Theorems                                                                *)

LEMMA IInvStep == IInv /\ [Next]_vars => IInv'
<1> SUFFICES ASSUME IInv, [Next]_vars PROVE IInv'
  OBVIOUS
<1>1. ASSUME NEW h \in Handlers, Called(h)
      PROVE  IInv'
  BY <1>1, ConnectCalledStep, StartCalledStep, PauseCalledStep DEF Called
<1>2. ASSUME NEW h \in Handlers, HandlerStep(h) \/ SlotAwaited(h)
      PROVE  IInv'
  BY <1>2, SlotTakenStep, SlotRefusedStep, SlotAwaitedStep, StaleStoppedStep,
     ConnectRereadsStep, ConnectClearsStep, ConnectBootstrapsStep, ConnectSavesStep, ResumeHoldsStep,
     DeleteClearsCredStep, DetachStep, ClearLocalStep DEF HandlerStep
<1>3. ASSUME NEW l \in Loops, LoopStep(l)
      PROVE  IInv'
  BY <1>3, ExchangeStep, DialStep, AttachRecordedStep, RefreshTickStep DEF LoopStep
<1>4. CASE UNCHANGED vars
  <2>1. TypeOK'
    BY <1>4 DEF vars, cloudVars, localVars, countVars, IInv, TypeOK
  <2>2. UNCHANGED <<op, loop, minted, valid, cred, cancel, connecting, engine, paused>>
    BY <1>4 DEF vars, cloudVars, localVars, countVars
  <2>3. HandlersSound' /\ LoopsSound' /\ CredSound' /\ ContextSound'
    BY <2>2 DEF IInv, HandlersSound, LoopsSound, CredSound, ContextSound
  <2>4. SlotSound' /\ PauseSound'
    BY <2>2 DEF IInv, SlotSound, HandlerHolds, LoopHolds, PauseSound, Quiet
  <2> QED BY <2>1, <2>3, <2>4 DEF IInv
<1> QED BY <1>1, <1>2, <1>3, <1>4, RevokedStep, RestartStep DEF Next

\* The inductive invariant holds in every reachable state.
THEOREM Inductive == Spec => []IInv
BY InitIInv, IInvStep, PTL DEF Spec

\* One handler or one connect loop holds the slot while it is taken, nobody while it is
\* free, and at most one background goroutine has a live context (acquireAttachSlot,
\* startConnectLoop, startRefreshLoop, releaseAttachSlot).
THEOREM AttachIsSingleFlight == Spec => []AttachesAreSerial
<1>1. ASSUME IInv PROVE AttachesAreSerial
  <2>1. \A x, y \in SlotHolders : x = y
    BY <1>1 DEF IInv, SlotSound, SlotHolders, HandlerHolds, LoopHolds, AtAcquire
  <2>2. SlotHeldOnce
    <3>1. CASE connecting
      <4>1. PICK x : x \in SlotHolders
        BY <1>1, <3>1 DEF IInv, SlotSound, SlotHolders, HandlerHolds, LoopHolds, AtAcquire
      <4>2. SlotHolders = {x}
        BY <2>1, <4>1
      <4> QED BY <3>1, <4>2, FS_Singleton DEF SlotHeldOnce
    <3>2. CASE ~connecting
      <4>1. SlotHolders = {}
        BY <1>1, <3>2 DEF IInv, SlotSound, SlotHolders, HandlerHolds, LoopHolds, AtAcquire
      <4> QED BY <3>2, <4>1, FS_EmptySet DEF SlotHeldOnce
    <3> QED BY <3>1, <3>2
  <2>3. OneLiveLoop
    <3> DEFINE Live == {l \in Loops : loop[l].kind # "none" /\ ~loop[l].cancelled}
    <3>1. Live \subseteq {cancel}
      BY <1>1 DEF IInv, ContextSound
    <3>2. IsFiniteSet({cancel}) /\ Cardinality({cancel}) = 1
      BY FS_Singleton
    <3>3. Cardinality(Live) <= 1
      BY <3>1, <3>2, FS_Subset
    <3> QED BY <3>3 DEF OneLiveLoop
  <2> QED BY <1>1, <2>2, <2>3 DEF IInv, AttachesAreSerial
<1> QED BY Inductive, <1>1, PTL

\* A stop or a delete that has the data plane to itself leaves the engine detached until
\* the next request (Pause, Disconnect: the goroutines that outlive them are cancelled).
THEOREM PauseHolds == Spec => []PausedStaysDetached
<1>1. IInv => PausedStaysDetached
  BY DEF IInv, PauseSound, PausedStaysDetached
<1> QED BY Inductive, <1>1, PTL

\* Only a delete drops a credential the cloud accepts: a 401 is for a token that is never
\* accepted again, so clearCredIf finds it only where it is dead (exchange).
THEOREM CredentialSurvives == Spec => LiveCredentialKept
<1> DEFINE Kept == cred # NoCred /\ cred' = NoCred /\ cred.tok = valid
                     => \E h \in Handlers : op[h].at = "uncred"
<1>1. ASSUME IInv, [Next]_vars PROVE [Kept]_vars
  <2> SUFFICES ASSUME Next, cred # NoCred, cred' = NoCred, cred.tok = valid
               PROVE  \E h \in Handlers : op[h].at = "uncred"
    BY <1>1
  <2>1. ASSUME NEW h \in Handlers, Called(h) \/ SlotAwaited(h)
        PROVE  FALSE
    BY <2>1 DEF Called, ConnectCalled, StartCalled, StopCalled, DeleteCalled, SlotAwaited
  <2>2. ASSUME NEW h \in Handlers, HandlerStep(h)
        PROVE  op[h].at = "uncred"
    <3>1. CASE ConnectSaves(h)
      <4>1. op[h].tok # 0
        BY <1>1, <3>1 DEF IInv, HandlersSound, ConnectSaves
      <4> QED BY <3>1, <4>1 DEF ConnectSaves, NoCred
    <3>2. CASE DeleteClearsCred(h)
      BY <3>2 DEF DeleteClearsCred
    <3> QED BY <2>2, <3>1, <3>2 DEF HandlerStep, SlotTaken, SlotRefused, StaleStopped,
               ConnectRereads, ConnectClears, ConnectBootstraps, ResumeHolds, Detach, ClearLocal
  <2>3. ASSUME NEW l \in Loops, LoopStep(l)
        PROVE  FALSE
    <3>1. CASE ExchangeRejected(l)
      <4>1. loop[l].tok # valid
        BY <1>1, <3>1 DEF ExchangeRejected, IInv, LoopsSound
      <4> QED BY <3>1, <4>1 DEF ExchangeRejected, CredIsStill
    <3> QED BY <2>3, <3>1 DEF LoopStep, ExchangeAnswered, ExchangeFails, ExchangeGranted,
               RaiseExpired, DialSucceeds, DialFails, EngineAttached, AttachRecorded, Retry,
               RefreshTick
  <2>4. ~Revoked /\ ~Restart
    BY DEF Revoked, Restart
  <2> QED BY <2>1, <2>2, <2>3, <2>4 DEF Next
<1> QED BY <1>1, Inductive, PTL DEF Spec, LiveCredentialKept
=============================================================================
