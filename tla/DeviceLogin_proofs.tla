-------------------------- MODULE DeviceLogin_proofs --------------------------
(***************************************************************************)
(* Proofs about DeviceLogin for every number of logins and flows: no token *)
(* without consent, one flow per session, and a logout that leaves a token *)
(* behind only where it met a connecting request.                          *)
(***************************************************************************)
EXTENDS DeviceLogin, FiniteSetTheorems, TLAPS

(* What the page knows of a flow: the shown one belongs to the page that   *)
(* is open and its chain goes on, and an answered start has an owner.      *)
Shown ==
    \A f \in Flows :
        /\ card = f => flow[f].here /\ ~At(f, "done")
        /\ flow[f].here => mounted
        /\ flow[f].reply = "started" => flow[f].owner # NoSession

(* A flow nobody could allow yet, and the session a request acts for.      *)
Begun ==
    \A f \in Flows :
        /\ flow[f].chain \in {"none", "start", "creating"} =>
             flow[f].owner = NoSession /\ flow[f].grant = "waiting" /\ ~flow[f].listed
        /\ At(f, "creating") => flow[f].sess # NoSession
        /\ At(f, "asking") => flow[f].sess = flow[f].owner /\ flow[f].owner # NoSession

(* A permission that can still be used was given in the owner's session.   *)
Agreed ==
    /\ \A f \in Flows :
          /\ flow[f].grant = "allowed" /\ (flow[f].listed \/ At(f, "asking"))
               => flow[f].owner \in consent
          /\ At(f, "granted") => flow[f].sess \in consent
    /\ pat # NoSession => pat \in consent

(* OneFlowPerSession without the cardinality.                              *)
Single ==
    \A f, g \in Flows :
        flow[f].listed /\ flow[g].listed /\ flow[f].owner = flow[g].owner => f = g

(* A request that could bring a token back was met by the logout.          *)
Met ==
    /\ session \notin out
    /\ \A f \in Flows : flow[f].chain \in {"asking", "granted"} /\ flow[f].sess \in out
                           => flow[f].sess \in raced
    /\ pat \in out => pat \in raced
    /\ leaving /\ session \in tokens => session \in raced

DeviceInv == TypeOK /\ Shown /\ Begun /\ Agreed /\ TokenByConsent /\ Single /\ Met /\ LogoutClears
-----------------------------------------------------------------------------
(* Setting a field of a flow keeps the table of flows well typed.          *)
LEMMA FieldTypes ==
  ASSUME NEW n \in Nat, NEW fl \in [Flows -> FlowRecords(n)], NEW f \in Flows
  PROVE  /\ \A c \in Chains : [fl EXCEPT ![f].chain = c] \in [Flows -> FlowRecords(n)]
         /\ \A r \in Replies : [fl EXCEPT ![f].reply = r] \in [Flows -> FlowRecords(n)]
         /\ \A s \in 0..n : [fl EXCEPT ![f].sess = s] \in [Flows -> FlowRecords(n)]
         /\ \A s \in 0..n : [fl EXCEPT ![f].owner = s] \in [Flows -> FlowRecords(n)]
         /\ \A b \in BOOLEAN : [fl EXCEPT ![f].listed = b] \in [Flows -> FlowRecords(n)]
         /\ \A b \in BOOLEAN : [fl EXCEPT ![f].here = b] \in [Flows -> FlowRecords(n)]
         /\ \A a \in Grants : [fl EXCEPT ![f].grant = a] \in [Flows -> FlowRecords(n)]
<1>1. \A c \in Chains : [fl EXCEPT ![f].chain = c] \in [Flows -> FlowRecords(n)]
  BY DEF FlowRecords
<1>2. \A r \in Replies : [fl EXCEPT ![f].reply = r] \in [Flows -> FlowRecords(n)]
  BY DEF FlowRecords
<1>3. \A s \in 0..n : [fl EXCEPT ![f].sess = s] \in [Flows -> FlowRecords(n)]
  BY DEF FlowRecords
<1>4. \A s \in 0..n : [fl EXCEPT ![f].owner = s] \in [Flows -> FlowRecords(n)]
  BY DEF FlowRecords
<1>5. \A b \in BOOLEAN : [fl EXCEPT ![f].listed = b] \in [Flows -> FlowRecords(n)]
  BY DEF FlowRecords
<1>6. \A b \in BOOLEAN : [fl EXCEPT ![f].here = b] \in [Flows -> FlowRecords(n)]
  BY DEF FlowRecords
<1>7. \A a \in Grants : [fl EXCEPT ![f].grant = a] \in [Flows -> FlowRecords(n)]
  BY DEF FlowRecords
<1> QED BY <1>1, <1>2, <1>3, <1>4, <1>5, <1>6, <1>7

(* What is left of a chain that has ended.                                 *)
LEMMA EndedFacts ==
  ASSUME NEW n \in Nat, NEW r \in FlowRecords(n)
  PROVE  /\ Ended(r) \in FlowRecords(n)
         /\ Ended(r).chain = "done" /\ Ended(r).reply = "none" /\ Ended(r).listed = r.listed
         /\ Ended(r).owner = (IF r.listed THEN r.owner ELSE NoSession)
         /\ Ended(r).sess = NoSession /\ Ended(r).grant = "waiting" /\ Ended(r).here = FALSE
<1>1. NewFlow \in FlowRecords(n)
  BY DEF NewFlow, FlowRecords, Chains, Replies, Grants, NoSession
<1>2. \A o \in 0..n, l \in BOOLEAN :
        [NewFlow EXCEPT !.chain = "done", !.listed = l, !.owner = o] \in FlowRecords(n)
  BY <1>1 DEF FlowRecords, Chains
<1>3. r.listed \in BOOLEAN /\ (IF r.listed THEN r.owner ELSE NoSession) \in 0..n
  BY DEF FlowRecords, NoSession
<1>4. Ended(r) \in FlowRecords(n)
  BY <1>2, <1>3 DEF Ended
<1>5. /\ Ended(r).chain = "done" /\ Ended(r).reply = "none" /\ Ended(r).listed = r.listed
      /\ Ended(r).owner = (IF r.listed THEN r.owner ELSE NoSession)
      /\ Ended(r).sess = NoSession /\ Ended(r).grant = "waiting" /\ Ended(r).here = FALSE
  BY DEF Ended, NewFlow, FlowRecords
<1> QED BY <1>4, <1>5

(* What may happen to a flow that is not the subject of a step: its timer  *)
(* is cleared, it is taken out of the table, or its page goes away ...     *)
Faded(r, q) ==
    /\ q.chain = r.chain \/ (r.chain = "timer" /\ q.chain = "done")
    /\ q.here => r.here
    /\ q.listed => r.listed /\ q.owner = r.owner
    /\ q.chain # "done" => q.reply = r.reply /\ q.sess = r.sess /\ q.owner = r.owner
    /\ q.grant = "allowed" => r.grant = "allowed"
    /\ q.chain # "done" => q.grant = r.grant
    /\ q.reply = "started" => r.reply = "started" /\ q.owner = r.owner

(* ... or only the second of these.                                        *)
Kept(r, q) ==
    /\ Faded(r, q)
    /\ q.chain = r.chain
    /\ q.chain # "done" => q.here = r.here

LEMMA EndedFaded ==
  ASSUME NEW n \in Nat, NEW r \in FlowRecords(n), r.chain \in {"timer", "done"}
  PROVE  Faded(r, Ended(r))
  BY EndedFacts DEF Faded

LEMMA RepliedFacts ==
  ASSUME NEW n \in Nat, flow \in [Flows -> FlowRecords(n)], NEW f \in Flows, NEW r \in Replies
  PROVE  /\ Replied(f, r) \in [Flows -> FlowRecords(n)]
         /\ \A g \in Flows \ {f} : Replied(f, r)[g] = flow[g]
         /\ Replied(f, r)[f].chain = "replied" /\ Replied(f, r)[f].reply = r
         /\ Replied(f, r)[f].sess = NoSession /\ Replied(f, r)[f].owner = flow[f].owner
         /\ Replied(f, r)[f].listed = flow[f].listed /\ Replied(f, r)[f].grant = flow[f].grant
         /\ Replied(f, r)[f].here = flow[f].here
<1>1. Replied(f, r) \in [Flows -> FlowRecords(n)]
  <2> DEFINE a == [flow EXCEPT ![f].chain = "replied"]
             b == [a EXCEPT ![f].reply = r]
             c == [b EXCEPT ![f].sess = NoSession]
  <2>1. a \in [Flows -> FlowRecords(n)]
    BY DEF FlowRecords, Chains
  <2> HIDE DEF a
  <2>2. b \in [Flows -> FlowRecords(n)]
    BY <2>1 DEF FlowRecords
  <2> HIDE DEF b
  <2>3. c \in [Flows -> FlowRecords(n)]
    BY <2>2 DEF FlowRecords, NoSession
  <2> QED BY <2>3 DEF Replied, a, b
<1>2. /\ \A g \in Flows \ {f} : Replied(f, r)[g] = flow[g]
      /\ Replied(f, r)[f].chain = "replied" /\ Replied(f, r)[f].reply = r
      /\ Replied(f, r)[f].sess = NoSession /\ Replied(f, r)[f].owner = flow[f].owner
      /\ Replied(f, r)[f].listed = flow[f].listed /\ Replied(f, r)[f].grant = flow[f].grant
      /\ Replied(f, r)[f].here = flow[f].here
  BY DEF Replied, FlowRecords
<1> QED BY <1>1, <1>2

LEMMA UnlistedFacts ==
  ASSUME NEW n \in Nat, NEW fl \in [Flows -> FlowRecords(n)], NEW S \in SUBSET Flows
  PROVE  /\ Unlisted(fl, S) \in [Flows -> FlowRecords(n)]
         /\ \A g \in Flows : /\ Kept(fl[g], Unlisted(fl, S)[g])
                             /\ g \in S => ~Unlisted(fl, S)[g].listed
<1>1. ASSUME NEW r \in FlowRecords(n)
      PROVE  LET q == [r EXCEPT !.listed = FALSE]
             IN  q \in FlowRecords(n) /\ Kept(r, q) /\ ~q.listed
  BY DEF FlowRecords, Kept, Faded
<1>2. ASSUME NEW r \in FlowRecords(n), r.chain = "done"
      PROVE  LET q == Ended([r EXCEPT !.listed = FALSE])
             IN  q \in FlowRecords(n) /\ Kept(r, q) /\ ~q.listed
  <2> DEFINE p == [r EXCEPT !.listed = FALSE]
  <2>1. p \in FlowRecords(n) /\ p.listed = FALSE /\ p.chain = "done"
    BY <1>2 DEF FlowRecords
  <2> HIDE DEF p
  <2>2. /\ Ended(p) \in FlowRecords(n) /\ Ended(p).chain = "done" /\ Ended(p).listed = FALSE
        /\ Ended(p).here = FALSE /\ Ended(p).grant = "waiting" /\ Ended(p).reply = "none"
    BY <2>1, EndedFacts
  <2>3. Kept(r, Ended(p))
    BY <2>2, <1>2 DEF Kept, Faded
  <2> QED BY <2>2, <2>3, <1>2 DEF p
<1>3. ASSUME NEW r \in FlowRecords(n) PROVE Kept(r, r)
  BY DEF Kept, Faded
<1>4. ASSUME NEW g \in Flows
      PROVE  /\ Unlisted(fl, S)[g] \in FlowRecords(n)
             /\ Kept(fl[g], Unlisted(fl, S)[g])
             /\ g \in S => ~Unlisted(fl, S)[g].listed
  <2>1. CASE g \notin S
    BY <2>1, <1>3 DEF Unlisted
  <2>2. CASE g \in S /\ fl[g].chain = "done"
    <3>1. Unlisted(fl, S)[g] = Ended([fl[g] EXCEPT !.listed = FALSE])
      BY <2>2 DEF Unlisted
    <3> QED BY <2>2, <3>1, <1>2
  <2>3. CASE g \in S /\ fl[g].chain # "done"
    <3>1. Unlisted(fl, S)[g] = [fl[g] EXCEPT !.listed = FALSE]
      BY <2>3 DEF Unlisted
    <3> QED BY <2>3, <3>1, <1>1
  <2> QED BY <2>1, <2>2, <2>3
<1> QED BY <1>4 DEF Unlisted

LEMMA TimerClearedFacts ==
  ASSUME NEW n \in Nat, NEW fl \in [Flows -> FlowRecords(n)]
  PROVE  /\ TimerCleared(fl) \in [Flows -> FlowRecords(n)]
         /\ \A g \in Flows : Faded(fl[g], TimerCleared(fl)[g])
<1>1. ASSUME NEW g \in Flows
      PROVE  TimerCleared(fl)[g] \in FlowRecords(n) /\ Faded(fl[g], TimerCleared(fl)[g])
  <2>1. CASE g = ref /\ fl[g].chain = "timer"
    BY <2>1, EndedFacts, EndedFaded DEF TimerCleared
  <2>2. CASE ~(g = ref /\ fl[g].chain = "timer")
    BY <2>2 DEF TimerCleared, Faded
  <2> QED BY <2>1, <2>2
<1> QED BY <1>1 DEF TimerCleared

LEMMA FadedTransitive ==
  ASSUME NEW r, NEW q, NEW p, Faded(r, q), Faded(q, p)
  PROVE  Faded(r, p)
  BY DEF Faded

LEMMA UnmountedFacts ==
  ASSUME NEW n \in Nat, NEW fl \in [Flows -> FlowRecords(n)]
  PROVE  /\ Unmounted(fl) \in [Flows -> FlowRecords(n)]
         /\ \A g \in Flows : Faded(fl[g], Unmounted(fl)[g]) /\ ~Unmounted(fl)[g].here
<1>1. ASSUME NEW r \in FlowRecords(n)
      PROVE  LET q == [r EXCEPT !.here = FALSE]
             IN  q \in FlowRecords(n) /\ Faded(r, q) /\ ~q.here
  BY DEF FlowRecords, Faded
<1>2. ASSUME NEW g \in Flows
      PROVE  /\ Unmounted(fl)[g] \in FlowRecords(n) /\ Faded(TimerCleared(fl)[g], Unmounted(fl)[g])
             /\ ~Unmounted(fl)[g].here
  <2>1. TimerCleared(fl)[g] \in FlowRecords(n)
    BY TimerClearedFacts
  <2>2. Unmounted(fl)[g] = [TimerCleared(fl)[g] EXCEPT !.here = FALSE]
    BY DEF Unmounted
  <2> QED BY <2>1, <2>2, <1>1
<1> QED BY <1>2, TimerClearedFacts, FadedTransitive DEF Unmounted

-----------------------------------------------------------------------------
LEMMA Table == TypeOK => used \in Nat /\ flow \in [Flows -> FlowRecords(used)]
  BY DeviceAssumption DEF TypeOK, Sessions

(* A step on flow f, which becomes the given record: the others are kept.  *)
Moves(f, c, r, s, o, l, a, h) ==
    /\ flow' \in [Flows -> FlowRecords(used')]
    /\ \A g \in Flows \ {f} : Kept(flow[g], flow'[g])
    /\ flow'[f].chain = c /\ flow'[f].reply = r /\ flow'[f].sess = s /\ flow'[f].owner = o
    /\ flow'[f].listed = l /\ flow'[f].grant = a /\ flow'[f].here = h

(* A step on no flow: some leave the table, or timers and pages go.        *)
AllKept ==
    /\ flow' \in [Flows -> FlowRecords(used')]
    /\ \A g \in Flows : Kept(flow[g], flow'[g])

AllFaded ==
    /\ flow' \in [Flows -> FlowRecords(used')]
    /\ \A g \in Flows : Faded(flow[g], flow'[g])

(* Two fields at a time.                                                   *)
LEMMA TwoFields ==
  ASSUME NEW n \in Nat, NEW fl \in [Flows -> FlowRecords(n)], NEW f \in Flows, NEW c \in Chains
  PROVE  /\ \A b \in BOOLEAN : [fl EXCEPT ![f].chain = c, ![f].here = b] \in [Flows -> FlowRecords(n)]
         /\ \A r \in Replies : [fl EXCEPT ![f].chain = c, ![f].reply = r] \in [Flows -> FlowRecords(n)]
         /\ \A s \in 0..n : [fl EXCEPT ![f].chain = c, ![f].sess = s] \in [Flows -> FlowRecords(n)]
<1> DEFINE a == [fl EXCEPT ![f].chain = c]
<1>1. a \in [Flows -> FlowRecords(n)]
  BY FieldTypes
<1> HIDE DEF a
<1>2. /\ \A b \in BOOLEAN : [a EXCEPT ![f].here = b] \in [Flows -> FlowRecords(n)]
      /\ \A r \in Replies : [a EXCEPT ![f].reply = r] \in [Flows -> FlowRecords(n)]
      /\ \A s \in 0..n : [a EXCEPT ![f].sess = s] \in [Flows -> FlowRecords(n)]
  BY <1>1, FieldTypes
<1> QED BY <1>2 DEF a

LEMMA RepliedMoves ==
  ASSUME NEW f \in Flows, NEW r \in Replies, used' = used, used \in Nat,
         flow \in [Flows -> FlowRecords(used)], flow' = Replied(f, r)
  PROVE  Moves(f, "replied", r, NoSession, flow[f].owner, flow[f].listed, flow[f].grant, flow[f].here)
  BY RepliedFacts DEF Moves, Kept, Faded

-----------------------------------------------------------------------------
(* One lemma per action: the step's effect on the flows, the variables it   *)
(* touches besides, and the parts of the invariant one after the other.    *)

(* A start begins a chain that had not begun.                              *)
LEMMA startDeviceKeeps ==
  ASSUME DeviceInv, NEW f \in Flows, startDevice(f)
  PROVE  DeviceInv'
<1>1. used \in Nat /\ flow \in [Flows -> FlowRecords(used)]
  BY Table DEF DeviceInv
<1>2. Moves(f, "start", flow[f].reply, flow[f].sess,
               flow[f].owner, flow[f].listed, flow[f].grant, TRUE)
     /\ flow[f].chain = "none"
  <2>1. flow' \in [Flows -> FlowRecords(used')]
    BY <1>1, FieldTypes DEF startDevice, Chains
  <2> QED BY <2>1, <1>1 DEF startDevice, Moves, Kept, Faded, FlowRecords, Started, At, Flows
<1>3. /\ mounted /\ card = NoFlow
      /\ working' = TRUE
      /\ UNCHANGED <<session, used, tokens, pat, card, ref, mounted, leaving, consent, out, raced>>
  BY DEF startDevice, page, history
<1> USE DEF DeviceInv, TypeOK, Moves, AllKept, AllFaded, Kept, Faded, At, NoSession, NoFlow
<1>4. TypeOK'
  BY <1>1, <1>2, <1>3, DeviceAssumption, SMTT(20) DEF Shown, Begun, Sessions, Flows
<1>5. Shown'
  BY <1>1, <1>2, <1>3 DEF Shown, Begun, Flows
<1>6. Begun'
  BY <1>1, <1>2, <1>3 DEF Begun
<1>7. (Agreed /\ TokenByConsent)'
  BY <1>1, <1>2, <1>3 DEF Begun, Agreed, TokenByConsent
<1>8. Single'
  BY <1>1, <1>2, <1>3 DEF Begun, Single
<1>9. (Met /\ LogoutClears)'
  BY <1>1, <1>2, <1>3 DEF Begun, Met, LogoutClears
<1> HIDE DEF DeviceInv, TypeOK, Moves, AllKept, AllFaded, Kept, Faded, At, NoSession, NoFlow
<1> QED BY <1>4, <1>5, <1>6, <1>7, <1>8, <1>9 DEF DeviceInv

(* The panel takes the start for the session of its request.               *)
LEMMA githubDeviceStartKeeps ==
  ASSUME DeviceInv, NEW f \in Flows, githubDeviceStart(f)
  PROVE  DeviceInv'
<1>1. used \in Nat /\ flow \in [Flows -> FlowRecords(used)]
  BY Table DEF DeviceInv
<1>2. \/ Moves(f, "replied", "unauthorized", NoSession,
               flow[f].owner, flow[f].listed, flow[f].grant, flow[f].here)
      \/ session # NoSession /\ Moves(f, "creating", flow[f].reply, session,
               flow[f].owner, flow[f].listed, flow[f].grant, flow[f].here)
  <2>1. CASE session = NoSession
    BY <2>1, <1>1, RepliedMoves DEF githubDeviceStart, Replies
  <2>2. CASE session # NoSession
    <3>1. session \in 0..used
      BY <2>2, <1>1 DEF DeviceInv, TypeOK
    <3>2. flow' \in [Flows -> FlowRecords(used')]
      <4>1. /\ flow' = [flow EXCEPT ![f].chain = "creating", ![f].sess = session]
            /\ used' = used
        BY <2>2 DEF githubDeviceStart
      <4>2. "creating" \in Chains
        BY DEF Chains
      <4> QED BY <4>1, <4>2, <3>1, <1>1, TwoFields
    <3>3. flow' = [flow EXCEPT ![f].chain = "creating", ![f].sess = session]
      BY <2>2 DEF githubDeviceStart
    <3>4. \A g \in Flows \ {f} : flow'[g] = flow[g]
      BY <3>3, <1>1
    <3>5. \A g \in Flows \ {f} : Kept(flow[g], flow'[g])
      BY <3>4 DEF Kept, Faded
    <3>6. flow[f] \in FlowRecords(used)
      BY <1>1
    <3>7. flow'[f] = [flow[f] EXCEPT !.chain = "creating", !.sess = session]
      BY <3>3, <1>1
    <3>8. /\ flow'[f].chain = "creating" /\ flow'[f].reply = flow[f].reply /\ flow'[f].sess = session
          /\ flow'[f].owner = flow[f].owner /\ flow'[f].listed = flow[f].listed
          /\ flow'[f].grant = flow[f].grant /\ flow'[f].here = flow[f].here
      BY <3>6, <3>7 DEF FlowRecords
    <3> QED BY <2>2, <3>2, <3>5, <3>8 DEF Moves
  <2> QED BY <2>1, <2>2
<1>3. /\ At(f, "start")
      /\ UNCHANGED <<session, used, tokens, pat, card, ref, mounted, working, leaving,
                    consent, out, raced>>
  BY DEF githubDeviceStart, page, history
<1> USE DEF DeviceInv, TypeOK, Moves, AllKept, AllFaded, Kept, Faded, At, NoSession, NoFlow
<1>4. TypeOK'
  BY <1>1, <1>2, <1>3, DeviceAssumption, SMTT(20) DEF Shown, Begun, Sessions, Flows
<1>5. Shown'
  BY <1>1, <1>2, <1>3 DEF Shown, Begun, Flows
<1>6. Begun'
  BY <1>1, <1>2, <1>3 DEF Begun
<1>7. (Agreed /\ TokenByConsent)'
  BY <1>1, <1>2, <1>3 DEF Begun, Agreed, TokenByConsent
<1>8. Single'
  BY <1>1, <1>2, <1>3 DEF Begun, Single
<1>9. (Met /\ LogoutClears)'
  BY <1>1, <1>2, <1>3 DEF Begun, Met, LogoutClears
<1> HIDE DEF DeviceInv, TypeOK, Moves, AllKept, AllFaded, Kept, Faded, At, NoSession, NoFlow
<1> QED BY <1>4, <1>5, <1>6, <1>7, <1>8, <1>9 DEF DeviceInv

(* The new flow takes the place of the earlier ones of its session.        *)
LEMMA FlowCreatedKeeps ==
  ASSUME DeviceInv, NEW f \in Flows, FlowCreated(f)
  PROVE  DeviceInv'
<1>1. used \in Nat /\ flow \in [Flows -> FlowRecords(used)]
  BY Table DEF DeviceInv
<1>2. \/ /\ Moves(f, "replied", "started", NoSession,
                    flow[f].sess, TRUE, flow[f].grant, flow[f].here)
         /\ \A g \in Flows \ {f} : flow'[g].listed => flow'[g].owner # flow[f].sess
      \/ Moves(f, "replied", "error", NoSession,
               flow[f].owner, flow[f].listed, flow[f].grant, flow[f].here)
  <2> DEFINE fl == Replied(f, "started")
             S == ListedFor(flow[f].sess)
             un == Unlisted(fl, S)
  <2>1. CASE flow' = [un EXCEPT ![f].listed = TRUE, ![f].owner = flow[f].sess]
    <3>1. /\ fl \in [Flows -> FlowRecords(used)]
          /\ \A g \in Flows \ {f} : fl[g] = flow[g]
          /\ fl[f].chain = "replied" /\ fl[f].reply = "started" /\ fl[f].sess = NoSession
          /\ fl[f].grant = flow[f].grant /\ fl[f].here = flow[f].here
      BY <1>1, RepliedFacts DEF Replies
    <3>2. S \in SUBSET Flows /\ \A g \in Flows : g \in S <=> flow[g].listed /\ flow[g].owner = flow[f].sess
      BY DEF ListedFor
    <3> HIDE DEF fl, S
    <3>3. /\ un \in [Flows -> FlowRecords(used)]
          /\ \A g \in Flows : Kept(fl[g], un[g]) /\ (g \in S => ~un[g].listed)
      BY <3>1, <3>2, <1>1, UnlistedFacts
    <3> HIDE DEF un
    <3>4. flow[f].sess \in 0..used /\ used' = used
      BY <1>1 DEF FlowRecords, FlowCreated
    <3>5. flow' \in [Flows -> FlowRecords(used')]
      <4> DEFINE a == [un EXCEPT ![f].listed = TRUE]
      <4>1. a \in [Flows -> FlowRecords(used)]
        BY <3>3, <1>1, FieldTypes
      <4> HIDE DEF a
      <4>2. [a EXCEPT ![f].owner = flow[f].sess] \in [Flows -> FlowRecords(used)]
        BY <4>1, <3>4, <1>1, FieldTypes
      <4> QED BY <4>2, <3>4, <2>1 DEF a
    <3>6. \A g \in Flows \ {f} : flow'[g] = un[g]
      BY <2>1, <3>3
    <3>7. /\ flow'[f].chain = un[f].chain /\ flow'[f].reply = un[f].reply
          /\ flow'[f].sess = un[f].sess /\ flow'[f].grant = un[f].grant
          /\ flow'[f].here = un[f].here /\ flow'[f].listed = TRUE
          /\ flow'[f].owner = flow[f].sess
      BY <2>1, <3>3 DEF FlowRecords
    <3>8. /\ flow'[f].chain = "replied" /\ flow'[f].reply = "started"
          /\ flow'[f].sess = NoSession /\ flow'[f].grant = flow[f].grant
          /\ flow'[f].here = flow[f].here
      BY <3>1, <3>3, <3>7 DEF Kept, Faded
    <3>9. \A g \in Flows \ {f} : Kept(flow[g], flow'[g])
      BY <3>1, <3>3, <3>6
    <3>10. \A g \in Flows \ {f} : flow'[g].listed => flow'[g].owner # flow[f].sess
      BY <3>1, <3>2, <3>3, <3>6 DEF Kept, Faded
    <3> QED BY <3>5, <3>7, <3>8, <3>9, <3>10 DEF Moves
  <2>2. CASE flow' = Replied(f, "error")
    BY <2>2, <1>1, RepliedMoves DEF FlowCreated, Replies
  <2> QED BY <2>1, <2>2 DEF FlowCreated
<1>3. /\ At(f, "creating")
      /\ UNCHANGED <<session, used, tokens, pat, card, ref, mounted, working, leaving,
                    consent, out, raced>>
  BY DEF FlowCreated, page, history
<1> USE DEF DeviceInv, TypeOK, Moves, AllKept, AllFaded, Kept, Faded, At, NoSession, NoFlow
<1>4. TypeOK'
  BY <1>1, <1>2, <1>3, DeviceAssumption, SMTT(20) DEF Shown, Begun, Sessions, Flows
<1>5. Shown'
  BY <1>1, <1>2, <1>3 DEF Shown, Begun, Flows
<1>6. Begun'
  BY <1>1, <1>2, <1>3 DEF Begun
<1>7. (Agreed /\ TokenByConsent)'
  BY <1>1, <1>2, <1>3 DEF Begun, Agreed, TokenByConsent
<1>8. Single'
  BY <1>1, <1>2, <1>3 DEF Begun, Single
<1>9. (Met /\ LogoutClears)'
  BY <1>1, <1>2, <1>3 DEF Begun, Met, LogoutClears
<1> HIDE DEF DeviceInv, TypeOK, Moves, AllKept, AllFaded, Kept, Faded, At, NoSession, NoFlow
<1> QED BY <1>4, <1>5, <1>6, <1>7, <1>8, <1>9 DEF DeviceInv

(* The answered start shows a flow that has an owner.                      *)
LEMMA DeviceStartedKeeps ==
  ASSUME DeviceInv, NEW f \in Flows, DeviceStarted(f)
  PROVE  DeviceInv'
<1>1. used \in Nat /\ flow \in [Flows -> FlowRecords(used)]
  BY Table DEF DeviceInv
<1>2. Moves(f, "timer", "none", flow[f].sess,
               flow[f].owner, flow[f].listed, flow[f].grant, flow[f].here)
  <2>1. flow' \in [Flows -> FlowRecords(used')]
    <3>1. flow' = [flow EXCEPT ![f].chain = "timer", ![f].reply = "none"] /\ used' = used
      BY DEF DeviceStarted
    <3>2. "timer" \in Chains /\ "none" \in Replies
      BY DEF Chains, Replies
    <3>3. [flow EXCEPT ![f].chain = "timer", ![f].reply = "none"] \in [Flows -> FlowRecords(used)]
      BY <1>1, <3>2, TwoFields
    <3> QED BY <3>1, <3>3
  <2> QED BY <2>1, <1>1 DEF DeviceStarted, Moves, Kept, Faded, FlowRecords
<1>3. /\ At(f, "replied") /\ flow[f].reply = "started"
      /\ card' = IF flow[f].here THEN f ELSE card
      /\ ref' = IF flow[f].here THEN f ELSE ref
      /\ working' = (working /\ ~flow[f].here)
      /\ UNCHANGED <<session, used, tokens, pat, mounted, leaving, consent, out, raced>>
  BY DEF DeviceStarted, page, history
<1> USE DEF DeviceInv, TypeOK, Moves, AllKept, AllFaded, Kept, Faded, At, NoSession, NoFlow
<1>4. TypeOK'
  BY <1>1, <1>2, <1>3, DeviceAssumption, SMTT(20) DEF Shown, Begun, Sessions, Flows
<1>5. Shown'
  BY <1>1, <1>2, <1>3 DEF Shown, Begun, Flows
<1>6. Begun'
  BY <1>1, <1>2, <1>3 DEF Begun
<1>7. (Agreed /\ TokenByConsent)'
  BY <1>1, <1>2, <1>3 DEF Begun, Agreed, TokenByConsent
<1>8. Single'
  BY <1>1, <1>2, <1>3 DEF Begun, Single
<1>9. (Met /\ LogoutClears)'
  BY <1>1, <1>2, <1>3 DEF Begun, Met, LogoutClears
<1> HIDE DEF DeviceInv, TypeOK, Moves, AllKept, AllFaded, Kept, Faded, At, NoSession, NoFlow
<1> QED BY <1>4, <1>5, <1>6, <1>7, <1>8, <1>9 DEF DeviceInv

(* The permission is given in the owner's session.                         *)
LEMMA DecideKeeps ==
  ASSUME DeviceInv, NEW f \in Flows, Decide(f)
  PROVE  DeviceInv'
<1>1. used \in Nat /\ flow \in [Flows -> FlowRecords(used)]
  BY Table DEF DeviceInv
<1>2. /\ consent' \subseteq 1..used
      /\ \/ Moves(f, flow[f].chain, flow[f].reply, flow[f].sess,
               flow[f].owner, flow[f].listed, "allowed", flow[f].here)
            /\ consent' = consent \cup {flow[f].owner}
         \/ Moves(f, flow[f].chain, flow[f].reply, flow[f].sess,
               flow[f].owner, flow[f].listed, "refused", flow[f].here) /\ consent' = consent
  <2>own. flow[f].owner \in 1..used
    BY <1>1 DEF Decide, FlowRecords, NoSession
  <2>con. consent' \subseteq 1..used
    BY <2>own DEF Decide, DeviceInv, TypeOK
  <2>1. CASE flow' = [flow EXCEPT ![f].grant = "allowed"] /\ consent' = consent \cup {flow[f].owner}
    <3>1. used' = used
      BY DEF Decide
    <3>2. flow' \in [Flows -> FlowRecords(used')]
      BY <2>con, <2>1, <3>1, <1>1, FieldTypes DEF Grants
    <3> QED BY <2>con, <2>1, <3>1, <3>2, <1>1 DEF Moves, Kept, Faded, FlowRecords
  <2>2. CASE flow' = [flow EXCEPT ![f].grant = "refused"] /\ consent' = consent
    <3>1. used' = used
      BY DEF Decide
    <3>2. flow' \in [Flows -> FlowRecords(used')]
      BY <2>con, <2>2, <3>1, <1>1, FieldTypes DEF Grants
    <3> QED BY <2>con, <2>2, <3>1, <3>2, <1>1 DEF Moves, Kept, Faded, FlowRecords
  <2> QED BY <2>con, <2>1, <2>2 DEF Decide
<1>3. /\ flow[f].owner # NoSession
      /\ flow[f].listed \/ At(f, "asking")
      /\ UNCHANGED <<session, used, tokens, pat, card, ref, mounted, working, leaving, out, raced>>
  BY DEF Decide, page, history
<1> USE DEF DeviceInv, TypeOK, Moves, AllKept, AllFaded, Kept, Faded, At, NoSession, NoFlow
<1>4. TypeOK'
  BY <1>1, <1>2, <1>3, DeviceAssumption, SMTT(20) DEF Shown, Begun, Sessions, Flows
<1>5. Shown'
  BY <1>1, <1>2, <1>3 DEF Shown, Begun, Flows
<1>6. Begun'
  BY <1>1, <1>2, <1>3 DEF Begun
<1>7. (Agreed /\ TokenByConsent)'
  BY <1>1, <1>2, <1>3 DEF Begun, Agreed, TokenByConsent
<1>8. Single'
  BY <1>1, <1>2, <1>3 DEF Begun, Single
<1>9. (Met /\ LogoutClears)'
  BY <1>1, <1>2, <1>3 DEF Begun, Met, LogoutClears
<1> HIDE DEF DeviceInv, TypeOK, Moves, AllKept, AllFaded, Kept, Faded, At, NoSession, NoFlow
<1> QED BY <1>4, <1>5, <1>6, <1>7, <1>8, <1>9 DEF DeviceInv

(* The timer sends a poll.                                                 *)
LEMMA pollDeviceKeeps ==
  ASSUME DeviceInv, NEW f \in Flows, pollDevice(f)
  PROVE  DeviceInv'
<1>1. used \in Nat /\ flow \in [Flows -> FlowRecords(used)]
  BY Table DEF DeviceInv
<1>2. Moves(f, "sent", flow[f].reply, flow[f].sess,
               flow[f].owner, flow[f].listed, flow[f].grant, flow[f].here)
  <2>0. flow' = [flow EXCEPT ![f].chain = "sent"]
    BY DEF pollDevice
  <2>1. used' = used
    BY DEF pollDevice
  <2>2. flow' \in [Flows -> FlowRecords(used')]
    BY <2>0, <2>1, <1>1, FieldTypes DEF Chains
  <2> QED BY <2>0, <2>1, <2>2, <1>1 DEF Moves, Kept, Faded, FlowRecords
<1>3. /\ At(f, "timer")
      /\ UNCHANGED <<session, used, tokens, pat, card, ref, mounted, working, leaving,
                    consent, out, raced>>
  BY DEF pollDevice, page, history
<1> USE DEF DeviceInv, TypeOK, Moves, AllKept, AllFaded, Kept, Faded, At, NoSession, NoFlow
<1>4. TypeOK'
  BY <1>1, <1>2, <1>3, DeviceAssumption, SMTT(20) DEF Shown, Begun, Sessions, Flows
<1>5. Shown'
  BY <1>1, <1>2, <1>3 DEF Shown, Begun, Flows
<1>6. Begun'
  BY <1>1, <1>2, <1>3 DEF Begun
<1>7. (Agreed /\ TokenByConsent)'
  BY <1>1, <1>2, <1>3 DEF Begun, Agreed, TokenByConsent
<1>8. Single'
  BY <1>1, <1>2, <1>3 DEF Begun, Single
<1>9. (Met /\ LogoutClears)'
  BY <1>1, <1>2, <1>3 DEF Begun, Met, LogoutClears
<1> HIDE DEF DeviceInv, TypeOK, Moves, AllKept, AllFaded, Kept, Faded, At, NoSession, NoFlow
<1> QED BY <1>4, <1>5, <1>6, <1>7, <1>8, <1>9 DEF DeviceInv

(* A poll goes on to GitHub only for the flow's owner.                     *)
LEMMA githubDevicePollKeeps ==
  ASSUME DeviceInv, NEW f \in Flows, githubDevicePoll(f)
  PROVE  DeviceInv'
<1>1. used \in Nat /\ flow \in [Flows -> FlowRecords(used)]
  BY Table DEF DeviceInv
<1>2. \/ Moves(f, "replied", "unauthorized", NoSession,
               flow[f].owner, flow[f].listed, flow[f].grant, flow[f].here)
      \/ Moves(f, "replied", "error", NoSession,
               flow[f].owner, flow[f].listed, flow[f].grant, flow[f].here)
      \/ session # NoSession /\ flow[f].listed /\ flow[f].owner = session
         /\ Moves(f, "asking", flow[f].reply, session,
               flow[f].owner, flow[f].listed, flow[f].grant, flow[f].here)
  <2>1. CASE session = NoSession
    BY <2>1, <1>1, RepliedMoves DEF githubDevicePoll, Replies
  <2>2. CASE session # NoSession /\ (~flow[f].listed \/ flow[f].owner # session)
    BY <2>2, <1>1, RepliedMoves DEF githubDevicePoll, Replies
  <2>3. CASE session # NoSession /\ flow[f].listed /\ flow[f].owner = session
    <3>1. session \in 0..used
      BY <2>3, <1>1 DEF DeviceInv, TypeOK
    <3>2. used' = used /\ flow' = [flow EXCEPT ![f].chain = "asking", ![f].sess = session]
      BY <2>3 DEF githubDevicePoll
    <3>3. [flow EXCEPT ![f].chain = "asking", ![f].sess = session] \in [Flows -> FlowRecords(used)]
      <4> DEFINE a == [flow EXCEPT ![f].chain = "asking"]
      <4>1. a \in [Flows -> FlowRecords(used)]
        BY <1>1, FieldTypes DEF Chains
      <4> HIDE DEF a
      <4>2. [a EXCEPT ![f].sess = session] \in [Flows -> FlowRecords(used)]
        BY <4>1, <3>1, <1>1, FieldTypes
      <4> QED BY <4>2 DEF a
    <3> QED BY <3>2, <3>3, <2>3, <1>1 DEF Moves, Kept, Faded, FlowRecords
  <2> QED BY <2>1, <2>2, <2>3
<1>3. /\ At(f, "sent")
      /\ UNCHANGED <<session, used, tokens, pat, card, ref, mounted, working, leaving,
                    consent, out, raced>>
  BY DEF githubDevicePoll, page, history
<1> USE DEF DeviceInv, TypeOK, Moves, AllKept, AllFaded, Kept, Faded, At, NoSession, NoFlow
<1>4. TypeOK'
  BY <1>1, <1>2, <1>3, DeviceAssumption, SMTT(20) DEF Shown, Begun, Sessions, Flows
<1>5. Shown'
  BY <1>1, <1>2, <1>3 DEF Shown, Begun, Flows
<1>6. Begun'
  BY <1>1, <1>2, <1>3 DEF Begun
<1>7. (Agreed /\ TokenByConsent)'
  BY <1>1, <1>2, <1>3 DEF Begun, Agreed, TokenByConsent
<1>8. Single'
  BY <1>1, <1>2, <1>3 DEF Begun, Single
<1>9. (Met /\ LogoutClears)'
  BY <1>1, <1>2, <1>3 DEF Begun, Met, LogoutClears
<1> HIDE DEF DeviceInv, TypeOK, Moves, AllKept, AllFaded, Kept, Faded, At, NoSession, NoFlow
<1> QED BY <1>4, <1>5, <1>6, <1>7, <1>8, <1>9 DEF DeviceInv

(* A poll that comes too early changes no table.                           *)
LEMMA PollTooEarlyKeeps ==
  ASSUME DeviceInv, NEW f \in Flows, PollTooEarly(f)
  PROVE  DeviceInv'
<1>1. used \in Nat /\ flow \in [Flows -> FlowRecords(used)]
  BY Table DEF DeviceInv
<1>2. Moves(f, "replied", "pending", NoSession,
               flow[f].owner, flow[f].listed, flow[f].grant, flow[f].here)
  BY <1>1, RepliedMoves DEF PollTooEarly, Replies
<1>3. /\ At(f, "sent")
      /\ UNCHANGED <<session, used, tokens, pat, card, ref, mounted, working, leaving,
                    consent, out, raced>>
  BY DEF PollTooEarly, page, history
<1> USE DEF DeviceInv, TypeOK, Moves, AllKept, AllFaded, Kept, Faded, At, NoSession, NoFlow
<1>4. TypeOK'
  BY <1>1, <1>2, <1>3, DeviceAssumption, SMTT(20) DEF Shown, Begun, Sessions, Flows
<1>5. Shown'
  BY <1>1, <1>2, <1>3 DEF Shown, Begun, Flows
<1>6. Begun'
  BY <1>1, <1>2, <1>3 DEF Begun
<1>7. (Agreed /\ TokenByConsent)'
  BY <1>1, <1>2, <1>3 DEF Begun, Agreed, TokenByConsent
<1>8. Single'
  BY <1>1, <1>2, <1>3 DEF Begun, Single
<1>9. (Met /\ LogoutClears)'
  BY <1>1, <1>2, <1>3 DEF Begun, Met, LogoutClears
<1> HIDE DEF DeviceInv, TypeOK, Moves, AllKept, AllFaded, Kept, Faded, At, NoSession, NoFlow
<1> QED BY <1>4, <1>5, <1>6, <1>7, <1>8, <1>9 DEF DeviceInv

(* GitHub grants what was allowed.                                         *)
LEMMA GitHubAskedKeeps ==
  ASSUME DeviceInv, NEW f \in Flows, GitHubAsked(f)
  PROVE  DeviceInv'
<1>1. used \in Nat /\ flow \in [Flows -> FlowRecords(used)]
  BY Table DEF DeviceInv
<1>2. \/ Moves(f, "replied", "pending", NoSession,
               flow[f].owner, flow[f].listed, flow[f].grant, flow[f].here)
      \/ Moves(f, "replied", "error", NoSession,
               flow[f].owner, FALSE, flow[f].grant, flow[f].here)
      \/ flow[f].grant = "allowed" /\ Moves(f, "granted", flow[f].reply, flow[f].sess,
               flow[f].owner, flow[f].listed, flow[f].grant, flow[f].here)
      \/ Moves(f, "replied", "error", NoSession,
               flow[f].owner, flow[f].listed, flow[f].grant, flow[f].here)
  <2>1. CASE flow' = Replied(f, "pending")
    BY <2>1, <1>1, RepliedMoves DEF GitHubAsked, Replies
  <2>2. CASE flow' = [Replied(f, "error") EXCEPT ![f].listed = FALSE]
    <3> DEFINE fl == Replied(f, "error")
    <3>1. /\ fl \in [Flows -> FlowRecords(used)]
          /\ \A g \in Flows \ {f} : fl[g] = flow[g]
          /\ fl[f].chain = "replied" /\ fl[f].reply = "error" /\ fl[f].sess = NoSession
          /\ fl[f].owner = flow[f].owner /\ fl[f].grant = flow[f].grant
          /\ fl[f].here = flow[f].here
      BY <1>1, RepliedFacts DEF Replies
    <3> HIDE DEF fl
    <3>2. [fl EXCEPT ![f].listed = FALSE] \in [Flows -> FlowRecords(used)]
      BY <3>1, <1>1, FieldTypes
    <3> QED BY <3>1, <3>2, <2>2, <1>1 DEF GitHubAsked, fl, Moves, Kept, Faded, FlowRecords
  <2>3. CASE flow[f].grant = "allowed" /\ flow' = [flow EXCEPT ![f].chain = "granted"]
    <3>1. used' = used
      BY DEF GitHubAsked
    <3>2. flow' \in [Flows -> FlowRecords(used')]
      BY <2>3, <3>1, <1>1, FieldTypes DEF Chains
    <3> QED BY <2>3, <3>1, <3>2, <1>1 DEF Moves, Kept, Faded, FlowRecords
  <2>4. CASE flow' = Replied(f, "error")
    BY <2>4, <1>1, RepliedMoves DEF GitHubAsked, Replies
  <2> QED BY <2>1, <2>2, <2>3, <2>4 DEF GitHubAsked
<1>3. /\ At(f, "asking")
      /\ UNCHANGED <<session, used, tokens, pat, card, ref, mounted, working, leaving,
                    consent, out, raced>>
  BY DEF GitHubAsked, page, history
<1> USE DEF DeviceInv, TypeOK, Moves, AllKept, AllFaded, Kept, Faded, At, NoSession, NoFlow
<1>4. TypeOK'
  BY <1>1, <1>2, <1>3, DeviceAssumption, SMTT(20) DEF Shown, Begun, Sessions, Flows
<1>5. Shown'
  BY <1>1, <1>2, <1>3 DEF Shown, Begun, Flows
<1>6. Begun'
  BY <1>1, <1>2, <1>3 DEF Begun
<1>7. (Agreed /\ TokenByConsent)'
  BY <1>1, <1>2, <1>3 DEF Begun, Agreed, TokenByConsent
<1>8. Single'
  BY <1>1, <1>2, <1>3 DEF Begun, Single
<1>9. (Met /\ LogoutClears)'
  BY <1>1, <1>2, <1>3 DEF Begun, Met, LogoutClears
<1> HIDE DEF DeviceInv, TypeOK, Moves, AllKept, AllFaded, Kept, Faded, At, NoSession, NoFlow
<1> QED BY <1>4, <1>5, <1>6, <1>7, <1>8, <1>9 DEF DeviceInv

(* The token goes to a session in which the user agreed.                   *)
LEMMA TokenStoredKeeps ==
  ASSUME DeviceInv, NEW f \in Flows, TokenStored(f)
  PROVE  DeviceInv'
<1>1. used \in Nat /\ flow \in [Flows -> FlowRecords(used)]
  BY Table DEF DeviceInv
<1>2. /\ tokens' \subseteq consent /\ tokens' \subseteq 1..used /\ raced' \subseteq 1..used
      /\ \/ Moves(f, "replied", "authorized", NoSession,
               flow[f].owner, FALSE, flow[f].grant, flow[f].here)
            /\ Connect(flow[f].sess)
         \/ Moves(f, "replied", "error", NoSession,
               flow[f].owner, flow[f].listed, flow[f].grant, flow[f].here)
            /\ tokens' = tokens /\ raced' = raced
  <2>sess. flow[f].sess \in 1..used /\ flow[f].sess \in consent
    BY <1>1 DEF TokenStored, DeviceInv, TypeOK, Agreed, At
  <2>tok. tokens' \subseteq consent /\ tokens' \subseteq 1..used /\ raced' \subseteq 1..used
    BY <2>sess DEF TokenStored, Connect, DeviceInv, TypeOK, TokenByConsent
  <2>1. CASE Connect(flow[f].sess) /\ flow' = [Replied(f, "authorized") EXCEPT ![f].listed = FALSE]
    <3> DEFINE fl == Replied(f, "authorized")
    <3>1. /\ fl \in [Flows -> FlowRecords(used)]
          /\ \A g \in Flows \ {f} : fl[g] = flow[g]
          /\ fl[f].chain = "replied" /\ fl[f].reply = "authorized" /\ fl[f].sess = NoSession
          /\ fl[f].owner = flow[f].owner /\ fl[f].grant = flow[f].grant
          /\ fl[f].here = flow[f].here
      BY <1>1, RepliedFacts DEF Replies
    <3> HIDE DEF fl
    <3>2. [fl EXCEPT ![f].listed = FALSE] \in [Flows -> FlowRecords(used)]
      BY <3>1, <1>1, FieldTypes
    <3>3. used' = used
      BY DEF TokenStored
    <3> QED BY <3>1, <3>2, <3>3, <2>tok, <2>1, <1>1 DEF fl, Moves, Kept, Faded, FlowRecords
  <2>2. CASE flow' = Replied(f, "error") /\ UNCHANGED <<tokens, raced>>
    <3>1. used' = used
      BY DEF TokenStored
    <3> QED BY <2>tok, <2>2, <3>1, <1>1, RepliedMoves DEF Replies
  <2> QED BY <2>tok, <2>1, <2>2 DEF TokenStored
<1>3. /\ At(f, "granted")
      /\ UNCHANGED <<session, used, pat, card, ref, mounted, working, leaving, consent, out>>
  BY DEF TokenStored, page, history
<1> USE DEF DeviceInv, TypeOK, Moves, AllKept, AllFaded, Kept, Faded, At, NoSession, NoFlow,
     Connect
<1>4. TypeOK'
  BY <1>1, <1>2, <1>3, DeviceAssumption, SMTT(20) DEF Shown, Begun, Sessions, Flows
<1>5. Shown'
  BY <1>1, <1>2, <1>3 DEF Shown, Begun, Flows
<1>6. Begun'
  BY <1>1, <1>2, <1>3 DEF Begun
<1>7. (Agreed /\ TokenByConsent)'
  BY <1>1, <1>2, <1>3 DEF Begun, Agreed, TokenByConsent
<1>8. Single'
  BY <1>1, <1>2, <1>3 DEF Begun, Single
<1>9. (Met /\ LogoutClears)'
  BY <1>1, <1>2, <1>3 DEF Begun, Met, LogoutClears
<1> HIDE DEF DeviceInv, TypeOK, Moves, AllKept, AllFaded, Kept, Faded, At, NoSession,
     NoFlow, Connect
<1> QED BY <1>4, <1>5, <1>6, <1>7, <1>8, <1>9 DEF DeviceInv

(* A pending answer sets the timer again.                                  *)
LEMMA PollPendingKeeps ==
  ASSUME DeviceInv, NEW f \in Flows, PollPending(f)
  PROVE  DeviceInv'
<1>1. used \in Nat /\ flow \in [Flows -> FlowRecords(used)]
  BY Table DEF DeviceInv
<1>2. Moves(f, "timer", "none", flow[f].sess,
               flow[f].owner, flow[f].listed, flow[f].grant, flow[f].here)
  <2>1. flow' \in [Flows -> FlowRecords(used')]
    <3>1. flow' = [flow EXCEPT ![f].chain = "timer", ![f].reply = "none"] /\ used' = used
      BY DEF PollPending
    <3>2. "timer" \in Chains /\ "none" \in Replies
      BY DEF Chains, Replies
    <3>3. [flow EXCEPT ![f].chain = "timer", ![f].reply = "none"] \in [Flows -> FlowRecords(used)]
      BY <1>1, <3>2, TwoFields
    <3> QED BY <3>1, <3>3
  <2> QED BY <2>1, <1>1 DEF PollPending, Moves, Kept, Faded, FlowRecords
<1>3. /\ At(f, "replied") /\ flow[f].reply = "pending"
      /\ ref' = IF flow[f].here THEN f ELSE ref
      /\ UNCHANGED <<session, used, tokens, pat, card, mounted, working, leaving, consent,
                    out, raced>>
  BY DEF PollPending, page, history
<1> USE DEF DeviceInv, TypeOK, Moves, AllKept, AllFaded, Kept, Faded, At, NoSession, NoFlow
<1>4. TypeOK'
  BY <1>1, <1>2, <1>3, DeviceAssumption, SMTT(20) DEF Shown, Begun, Sessions, Flows
<1>5. Shown'
  BY <1>1, <1>2, <1>3 DEF Shown, Begun, Flows
<1>6. Begun'
  BY <1>1, <1>2, <1>3 DEF Begun
<1>7. (Agreed /\ TokenByConsent)'
  BY <1>1, <1>2, <1>3 DEF Begun, Agreed, TokenByConsent
<1>8. Single'
  BY <1>1, <1>2, <1>3 DEF Begun, Single
<1>9. (Met /\ LogoutClears)'
  BY <1>1, <1>2, <1>3 DEF Begun, Met, LogoutClears
<1> HIDE DEF DeviceInv, TypeOK, Moves, AllKept, AllFaded, Kept, Faded, At, NoSession, NoFlow
<1> QED BY <1>4, <1>5, <1>6, <1>7, <1>8, <1>9 DEF DeviceInv

(* An answer that ends the chain takes the card away.                      *)
LEMMA PollEndedKeeps ==
  ASSUME DeviceInv, NEW f \in Flows, PollEnded(f)
  PROVE  DeviceInv'
<1>1. used \in Nat /\ flow \in [Flows -> FlowRecords(used)]
  BY Table DEF DeviceInv
<1>2. Moves(f, "done", "none", NoSession,
               IF flow[f].listed THEN flow[f].owner ELSE NoSession, flow[f].listed, "waiting", FALSE)
  <2>1. flow[f] \in FlowRecords(used) /\ flow' = [flow EXCEPT ![f] = Ended(flow[f])] /\ used' = used
    BY <1>1 DEF PollEnded
  <2>2. /\ \A g \in Flows \ {f} : flow'[g] = flow[g]
        /\ flow'[f] = Ended(flow[f])
        /\ flow' \in [Flows -> FlowRecords(used)]
    BY <2>1, <1>1, EndedFacts
  <2> QED BY <2>1, <2>2, <1>1, EndedFacts DEF Moves, Kept, Faded
<1>3. /\ At(f, "replied")
      /\ card' = IF flow[f].here /\ flow[f].owner # NoSession THEN NoFlow ELSE card
      /\ working' = (working /\ ~(flow[f].here /\ flow[f].owner = NoSession))
      /\ UNCHANGED <<session, used, tokens, pat, ref, mounted, leaving, consent, out, raced>>
  BY DEF PollEnded, page, history
<1> USE DEF DeviceInv, TypeOK, Moves, AllKept, AllFaded, Kept, Faded, At, NoSession, NoFlow
<1>4. TypeOK'
  BY <1>1, <1>2, <1>3, DeviceAssumption, SMTT(20) DEF Shown, Begun, Sessions, Flows
<1>5. Shown'
  BY <1>1, <1>2, <1>3 DEF Shown, Begun, Flows
<1>6. Begun'
  BY <1>1, <1>2, <1>3 DEF Begun
<1>7. (Agreed /\ TokenByConsent)'
  BY <1>1, <1>2, <1>3 DEF Begun, Agreed, TokenByConsent
<1>8. Single'
  BY <1>1, <1>2, <1>3 DEF Begun, Single
<1>9. (Met /\ LogoutClears)'
  BY <1>1, <1>2, <1>3 DEF Begun, Met, LogoutClears
<1> HIDE DEF DeviceInv, TypeOK, Moves, AllKept, AllFaded, Kept, Faded, At, NoSession, NoFlow
<1> QED BY <1>4, <1>5, <1>6, <1>7, <1>8, <1>9 DEF DeviceInv

(* A 401 closes the page and ends the chain it answers.                    *)
LEMMA SignedOutKeeps ==
  ASSUME DeviceInv, NEW f \in Flows, SignedOut(f)
  PROVE  DeviceInv'
<1>1. used \in Nat /\ flow \in [Flows -> FlowRecords(used)]
  BY Table DEF DeviceInv
<1>2. /\ flow' \in [Flows -> FlowRecords(used')]
      /\ \A g \in Flows \ {f} : Faded(flow[g], flow'[g]) /\ ~flow'[g].here
      /\ flow'[f].chain = "done" /\ flow'[f].reply = "none" /\ flow'[f].grant = "waiting"
      /\ flow'[f].listed => flow[f].listed /\ flow'[f].owner = flow[f].owner
      /\ ~flow'[f].here
  <2> DEFINE un == Unmounted(flow)
  <2>1. un \in [Flows -> FlowRecords(used)] /\ \A g \in Flows : Faded(flow[g], un[g]) /\ ~un[g].here
    BY <1>1, UnmountedFacts
  <2>2. flow' = [un EXCEPT ![f] = Ended(un[f])] /\ used' = used
    BY DEF SignedOut
  <2> HIDE DEF un
  <2>3. /\ Ended(un[f]) \in FlowRecords(used) /\ Ended(un[f]).chain = "done"
        /\ Ended(un[f]).reply = "none" /\ Ended(un[f]).grant = "waiting"
        /\ Ended(un[f]).listed = un[f].listed /\ Ended(un[f]).here = FALSE
        /\ Ended(un[f]).owner = (IF un[f].listed THEN un[f].owner ELSE NoSession)
    <3>1. un[f] \in FlowRecords(used)
      BY <2>1
    <3> QED BY <3>1, <1>1, EndedFacts
  <2>4. flow'[f] = Ended(un[f]) /\ \A g \in Flows \ {f} : flow'[g] = un[g]
    BY <2>1, <2>2
  <2>5. flow' \in [Flows -> FlowRecords(used')]
    BY <2>1, <2>2, <2>3
  <2>6. flow'[f].listed => flow[f].listed /\ flow'[f].owner = flow[f].owner
    BY <2>1, <2>3, <2>4 DEF Faded
  <2> QED BY <2>1, <2>3, <2>4, <2>5, <2>6
<1>3. /\ mounted' = FALSE
      /\ card' = NoFlow
      /\ ref' = NoFlow
      /\ working' = FALSE
      /\ UNCHANGED <<session, used, tokens, pat, leaving, consent, out, raced>>
  BY DEF SignedOut, page, history, LeavePage
<1> USE DEF DeviceInv, TypeOK, Moves, AllKept, AllFaded, Kept, Faded, At, NoSession, NoFlow
<1>4. TypeOK'
  <2>1. /\ used' \in Sessions /\ session' \in {NoSession, used'}
        /\ flow' \in [Flows -> FlowRecords(used')]
    BY <1>1, <1>2, <1>3, DeviceAssumption DEF Shown, Begun, Sessions, Flows
  <2>2. \A g \in Flows : flow'[g].listed \/ g = card' => flow'[g].owner # NoSession
    BY <1>1, <1>2, <1>3, DeviceAssumption DEF Shown, Begun, Sessions, Flows
  <2>3. /\ tokens' \subseteq 1..used' /\ pat' \in 0..used'
        /\ consent' \subseteq 1..used' /\ out' \subseteq 1..used' /\ raced' \subseteq 1..used'
    BY <1>1, <1>2, <1>3, DeviceAssumption DEF Shown, Begun, Sessions, Flows
  <2>4. /\ card' \in Flows \cup {NoFlow} /\ ref' \in Flows \cup {NoFlow}
        /\ ~mounted' => card' = NoFlow /\ ref' = NoFlow /\ ~working'
        /\ mounted' \in BOOLEAN /\ working' \in BOOLEAN
        /\ leaving' \in BOOLEAN /\ (leaving' => session' # NoSession)
    BY <1>1, <1>2, <1>3, DeviceAssumption DEF Shown, Begun, Sessions, Flows
  <2> QED BY <2>1, <2>2, <2>3, <2>4 DEF TypeOK
<1>5. Shown'
  BY <1>1, <1>2, <1>3 DEF Shown, Begun, Flows
<1>6. Begun'
  BY <1>1, <1>2, <1>3 DEF Begun
<1>7. (Agreed /\ TokenByConsent)'
  BY <1>1, <1>2, <1>3 DEF Begun, Agreed, TokenByConsent
<1>8. Single'
  BY <1>1, <1>2, <1>3 DEF Begun, Single
<1>9. (Met /\ LogoutClears)'
  BY <1>1, <1>2, <1>3 DEF Begun, Met, LogoutClears
<1> HIDE DEF DeviceInv, TypeOK, Moves, AllKept, AllFaded, Kept, Faded, At, NoSession, NoFlow
<1> QED BY <1>4, <1>5, <1>6, <1>7, <1>8, <1>9 DEF DeviceInv

(* The page opens with no flow to show.                                    *)
LEMMA OpenPageKeeps ==
  ASSUME DeviceInv, OpenPage
  PROVE  DeviceInv'
<1>1. used \in Nat /\ flow \in [Flows -> FlowRecords(used)]
  BY Table DEF DeviceInv
<1>2. AllKept
  <2>1. flow' = flow /\ used' = used
    BY DEF OpenPage
  <2> QED BY <2>1, <1>1 DEF AllKept, Kept, Faded
<1>3. /\ session # NoSession
      /\ mounted' = TRUE
      /\ UNCHANGED <<session, used, tokens, pat, card, ref, working, leaving, consent, out, raced>>
  BY DEF OpenPage, page, history
<1> USE DEF DeviceInv, TypeOK, Moves, AllKept, AllFaded, Kept, Faded, At, NoSession, NoFlow
<1>4. TypeOK'
  BY <1>1, <1>2, <1>3, DeviceAssumption, SMTT(20) DEF Shown, Begun, Sessions, Flows
<1>5. Shown'
  BY <1>1, <1>2, <1>3 DEF Shown, Begun, Flows
<1>6. Begun'
  BY <1>1, <1>2, <1>3 DEF Begun
<1>7. (Agreed /\ TokenByConsent)'
  BY <1>1, <1>2, <1>3 DEF Begun, Agreed, TokenByConsent
<1>8. Single'
  BY <1>1, <1>2, <1>3 DEF Begun, Single
<1>9. (Met /\ LogoutClears)'
  BY <1>1, <1>2, <1>3 DEF Begun, Met, LogoutClears
<1> HIDE DEF DeviceInv, TypeOK, Moves, AllKept, AllFaded, Kept, Faded, At, NoSession, NoFlow
<1> QED BY <1>4, <1>5, <1>6, <1>7, <1>8, <1>9 DEF DeviceInv

(* The page closes with its card and its timer.                            *)
LEMMA ClosePageKeeps ==
  ASSUME DeviceInv, ClosePage
  PROVE  DeviceInv'
<1>1. used \in Nat /\ flow \in [Flows -> FlowRecords(used)]
  BY Table DEF DeviceInv
<1>2. AllFaded /\ \A g \in Flows : ~flow'[g].here
  BY <1>1, UnmountedFacts DEF ClosePage, AllFaded
<1>3. /\ mounted' = FALSE
      /\ card' = NoFlow
      /\ ref' = NoFlow
      /\ working' = FALSE
      /\ UNCHANGED <<session, used, tokens, pat, leaving, consent, out, raced>>
  BY DEF ClosePage, page, history, LeavePage
<1> USE DEF DeviceInv, TypeOK, Moves, AllKept, AllFaded, Kept, Faded, At, NoSession, NoFlow
<1>4. TypeOK'
  <2>1. /\ used' \in Sessions /\ session' \in {NoSession, used'}
        /\ flow' \in [Flows -> FlowRecords(used')]
    BY <1>1, <1>2, <1>3, DeviceAssumption DEF Shown, Begun, Sessions, Flows
  <2>2. \A g \in Flows : flow'[g].listed \/ g = card' => flow'[g].owner # NoSession
    BY <1>1, <1>2, <1>3, DeviceAssumption DEF Shown, Begun, Sessions, Flows
  <2>3. /\ tokens' \subseteq 1..used' /\ pat' \in 0..used'
        /\ consent' \subseteq 1..used' /\ out' \subseteq 1..used' /\ raced' \subseteq 1..used'
    BY <1>1, <1>2, <1>3, DeviceAssumption DEF Shown, Begun, Sessions, Flows
  <2>4. /\ card' \in Flows \cup {NoFlow} /\ ref' \in Flows \cup {NoFlow}
        /\ ~mounted' => card' = NoFlow /\ ref' = NoFlow /\ ~working'
        /\ mounted' \in BOOLEAN /\ working' \in BOOLEAN
        /\ leaving' \in BOOLEAN /\ (leaving' => session' # NoSession)
    BY <1>1, <1>2, <1>3, DeviceAssumption DEF Shown, Begun, Sessions, Flows
  <2> QED BY <2>1, <2>2, <2>3, <2>4 DEF TypeOK
<1>5. Shown'
  BY <1>1, <1>2, <1>3 DEF Shown, Begun, Flows
<1>6. Begun'
  BY <1>1, <1>2, <1>3 DEF Begun
<1>7. (Agreed /\ TokenByConsent)'
  BY <1>1, <1>2, <1>3 DEF Begun, Agreed, TokenByConsent
<1>8. Single'
  BY <1>1, <1>2, <1>3 DEF Begun, Single
<1>9. (Met /\ LogoutClears)'
  BY <1>1, <1>2, <1>3 DEF Begun, Met, LogoutClears
<1> HIDE DEF DeviceInv, TypeOK, Moves, AllKept, AllFaded, Kept, Faded, At, NoSession, NoFlow
<1> QED BY <1>4, <1>5, <1>6, <1>7, <1>8, <1>9 DEF DeviceInv

(* A cancelled flow leaves the card, and the table if it is the session's. *)
LEMMA CancelKeeps ==
  ASSUME DeviceInv, Cancel
  PROVE  DeviceInv'
<1>1. used \in Nat /\ flow \in [Flows -> FlowRecords(used)]
  BY Table DEF DeviceInv
<1>2. /\ AllFaded
      /\ \A g \in Flows : flow'[g].here => mounted'
      /\ mounted' \in BOOLEAN /\ working' \in BOOLEAN /\ ref' \in Flows \cup {NoFlow}
      /\ ~mounted' => ref' = NoFlow /\ ~working'
  <2>1. CASE flow' = Unmounted(flow) /\ LeavePage
    <3>1. flow' = Unmounted(flow) /\ mounted' = FALSE /\ ref' = NoFlow /\ working' = FALSE /\ used' = used
      BY <2>1 DEF Cancel, LeavePage
    <3> QED BY <3>1, <1>1, UnmountedFacts DEF AllFaded
  <2>2. CASE /\ flow' = TimerCleared(flow) \/ flow' = Unlisted(TimerCleared(flow), {card})
             /\ UNCHANGED <<ref, mounted, working>>
    <3> DEFINE fl == TimerCleared(flow)
    <3>1. /\ flow' = fl \/ flow' = Unlisted(fl, {card})
          /\ mounted' = mounted /\ ref' = ref /\ working' = working /\ used' = used
      BY <2>2 DEF Cancel
    <3>2. fl \in [Flows -> FlowRecords(used)] /\ \A g \in Flows : Faded(flow[g], fl[g])
      BY <1>1, TimerClearedFacts
    <3> HIDE DEF fl
    <3>3. {card} \in SUBSET Flows
      BY DEF Cancel, DeviceInv, TypeOK
    <3>4. LET un == Unlisted(fl, {card})
          IN  un \in [Flows -> FlowRecords(used)] /\ \A g \in Flows : Faded(fl[g], un[g])
      BY <3>2, <3>3, <1>1, UnlistedFacts DEF Kept
    <3>5. AllFaded
      BY <3>1, <3>2, <3>4, FadedTransitive DEF AllFaded
    <3>6. \A g \in Flows : flow'[g].here => mounted'
      BY <3>1, <3>5 DEF AllFaded, Faded, DeviceInv, Shown
    <3>7. /\ mounted' \in BOOLEAN /\ working' \in BOOLEAN /\ ref' \in Flows \cup {NoFlow}
          /\ ~mounted' => ref' = NoFlow /\ ~working'
      BY <3>1 DEF DeviceInv, TypeOK
    <3> QED BY <3>5, <3>6, <3>7
  <2> QED BY <2>1, <2>2 DEF Cancel
<1>3. /\ card' = NoFlow
      /\ UNCHANGED <<session, used, tokens, pat, leaving, consent, out, raced>>
  BY DEF Cancel, page, history, LeavePage
<1> USE DEF DeviceInv, TypeOK, Moves, AllKept, AllFaded, Kept, Faded, At, NoSession, NoFlow
<1>4. TypeOK'
  <2>1. /\ used' \in Sessions /\ session' \in {NoSession, used'}
        /\ flow' \in [Flows -> FlowRecords(used')]
    BY <1>1, <1>2, <1>3, DeviceAssumption DEF Shown, Begun, Sessions, Flows
  <2>2. \A g \in Flows : flow'[g].listed \/ g = card' => flow'[g].owner # NoSession
    BY <1>1, <1>2, <1>3, DeviceAssumption DEF Shown, Begun, Sessions, Flows
  <2>3. /\ tokens' \subseteq 1..used' /\ pat' \in 0..used'
        /\ consent' \subseteq 1..used' /\ out' \subseteq 1..used' /\ raced' \subseteq 1..used'
    BY <1>1, <1>2, <1>3, DeviceAssumption DEF Shown, Begun, Sessions, Flows
  <2>4. /\ card' \in Flows \cup {NoFlow} /\ ref' \in Flows \cup {NoFlow}
        /\ ~mounted' => card' = NoFlow /\ ref' = NoFlow /\ ~working'
        /\ mounted' \in BOOLEAN /\ working' \in BOOLEAN
        /\ leaving' \in BOOLEAN /\ (leaving' => session' # NoSession)
    BY <1>1, <1>2, <1>3, DeviceAssumption DEF Shown, Begun, Sessions, Flows
  <2> QED BY <2>1, <2>2, <2>3, <2>4 DEF TypeOK
<1>5. Shown'
  BY <1>1, <1>2, <1>3 DEF Shown, Begun, Flows
<1>6. Begun'
  BY <1>1, <1>2, <1>3 DEF Begun
<1>7. (Agreed /\ TokenByConsent)'
  BY <1>1, <1>2, <1>3 DEF Begun, Agreed, TokenByConsent
<1>8. Single'
  BY <1>1, <1>2, <1>3 DEF Begun, Single
<1>9. (Met /\ LogoutClears)'
  BY <1>1, <1>2, <1>3 DEF Begun, Met, LogoutClears
<1> HIDE DEF DeviceInv, TypeOK, Moves, AllKept, AllFaded, Kept, Faded, At, NoSession, NoFlow
<1> QED BY <1>4, <1>5, <1>6, <1>7, <1>8, <1>9 DEF DeviceInv

(* Typing a token in is the session's consent.                             *)
LEMMA GiveTokenKeeps ==
  ASSUME DeviceInv, GiveToken
  PROVE  DeviceInv'
<1>1. used \in Nat /\ flow \in [Flows -> FlowRecords(used)]
  BY Table DEF DeviceInv
<1>2. AllKept
  <2>1. flow' = flow /\ used' = used
    BY DEF GiveToken
  <2> QED BY <2>1, <1>1 DEF AllKept, Kept, Faded
<1>3. /\ mounted /\ session # NoSession
      /\ pat' = session
      /\ consent' = consent \cup {session}
      /\ UNCHANGED <<session, used, tokens, card, ref, mounted, working, leaving, out, raced>>
  BY DEF GiveToken, page, history
<1> USE DEF DeviceInv, TypeOK, Moves, AllKept, AllFaded, Kept, Faded, At, NoSession, NoFlow
<1>4. TypeOK'
  BY <1>1, <1>2, <1>3, DeviceAssumption, SMTT(20) DEF Shown, Begun, Sessions, Flows
<1>5. Shown'
  BY <1>1, <1>2, <1>3 DEF Shown, Begun, Flows
<1>6. Begun'
  BY <1>1, <1>2, <1>3 DEF Begun
<1>7. (Agreed /\ TokenByConsent)'
  BY <1>1, <1>2, <1>3 DEF Begun, Agreed, TokenByConsent
<1>8. Single'
  BY <1>1, <1>2, <1>3 DEF Begun, Single
<1>9. (Met /\ LogoutClears)'
  BY <1>1, <1>2, <1>3 DEF Begun, Met, LogoutClears
<1> HIDE DEF DeviceInv, TypeOK, Moves, AllKept, AllFaded, Kept, Faded, At, NoSession, NoFlow
<1> QED BY <1>4, <1>5, <1>6, <1>7, <1>8, <1>9 DEF DeviceInv

(* A typed token goes to the session that gave it.                         *)
LEMMA githubTokenConnectKeeps ==
  ASSUME DeviceInv, githubTokenConnect
  PROVE  DeviceInv'
<1>1. used \in Nat /\ flow \in [Flows -> FlowRecords(used)]
  BY Table DEF DeviceInv
<1>2. /\ AllKept
      /\ tokens' \subseteq tokens \cup {pat} /\ raced \subseteq raced' /\ raced' \subseteq raced \cup {pat}
      /\ leaving /\ session \in tokens' => session \in tokens \cup raced'
  <2>1. used' = used /\ ListedFor(pat) \in SUBSET Flows
    BY DEF githubTokenConnect, ListedFor
  <2>2. CASE Connect(pat) /\ flow' = Unlisted(flow, ListedFor(pat))
    <3>1. AllKept
      BY <2>1, <2>2, <1>1, UnlistedFacts DEF AllKept
    <3> QED BY <2>2, <3>1 DEF Connect
  <2>3. CASE tokens' = tokens /\ raced' = raced /\ flow' = flow
    <3>1. AllKept
      BY <2>1, <2>3, <1>1 DEF AllKept, Kept, Faded
    <3> QED BY <2>3, <3>1
  <2> QED BY <2>2, <2>3 DEF githubTokenConnect
<1>3. /\ pat # NoSession
      /\ pat' = NoSession
      /\ UNCHANGED <<session, used, card, ref, mounted, working, leaving, consent, out>>
  BY DEF githubTokenConnect, page, history
<1> USE DEF DeviceInv, TypeOK, Moves, AllKept, AllFaded, Kept, Faded, At, NoSession, NoFlow
<1>4. TypeOK'
  <2>1. /\ used' \in Sessions /\ session' \in {NoSession, used'}
        /\ flow' \in [Flows -> FlowRecords(used')]
    BY <1>1, <1>2, <1>3, DeviceAssumption DEF Shown, Begun, Sessions, Flows
  <2>2. \A g \in Flows : flow'[g].listed \/ g = card' => flow'[g].owner # NoSession
    BY <1>1, <1>2, <1>3, DeviceAssumption DEF Shown, Begun, Sessions, Flows
  <2>3. /\ tokens' \subseteq 1..used' /\ pat' \in 0..used'
        /\ consent' \subseteq 1..used' /\ out' \subseteq 1..used' /\ raced' \subseteq 1..used'
    BY <1>1, <1>2, <1>3, DeviceAssumption DEF Shown, Begun, Sessions, Flows
  <2>4. /\ card' \in Flows \cup {NoFlow} /\ ref' \in Flows \cup {NoFlow}
        /\ ~mounted' => card' = NoFlow /\ ref' = NoFlow /\ ~working'
        /\ mounted' \in BOOLEAN /\ working' \in BOOLEAN
        /\ leaving' \in BOOLEAN /\ (leaving' => session' # NoSession)
    BY <1>1, <1>2, <1>3, DeviceAssumption DEF Shown, Begun, Sessions, Flows
  <2> QED BY <2>1, <2>2, <2>3, <2>4 DEF TypeOK
<1>5. Shown'
  BY <1>1, <1>2, <1>3 DEF Shown, Begun, Flows
<1>6. Begun'
  BY <1>1, <1>2, <1>3 DEF Begun
<1>7. (Agreed /\ TokenByConsent)'
  BY <1>1, <1>2, <1>3 DEF Begun, Agreed, TokenByConsent
<1>8. Single'
  BY <1>1, <1>2, <1>3 DEF Begun, Single
<1>9. (Met /\ LogoutClears)'
  <2>1. \A g \in Flows : flow'[g].chain \in {"asking", "granted"} /\ flow'[g].sess \in out'
                          => flow'[g].sess \in raced'
    BY <1>1, <1>2, <1>3 DEF Begun, Met, LogoutClears
  <2>2. tokens' \cap out' \subseteq raced' /\ session' \notin out' /\ (pat' \in out' => pat' \in raced')
    BY <1>1, <1>2, <1>3 DEF Begun, Met, LogoutClears
  <2>3. leaving' /\ session' \in tokens' => session' \in raced'
    BY <1>1, <1>2, <1>3 DEF Begun, Met, LogoutClears
  <2> QED BY <2>1, <2>2, <2>3 DEF Met, LogoutClears
<1> HIDE DEF DeviceInv, TypeOK, Moves, AllKept, AllFaded, Kept, Faded, At, NoSession, NoFlow
<1> QED BY <1>4, <1>5, <1>6, <1>7, <1>8, <1>9 DEF DeviceInv

(* A disconnection takes a token away.                                     *)
LEMMA githubDisconnectKeeps ==
  ASSUME DeviceInv, githubDisconnect
  PROVE  DeviceInv'
<1>1. used \in Nat /\ flow \in [Flows -> FlowRecords(used)]
  BY Table DEF DeviceInv
<1>2. AllKept
  <2>1. used' = used /\ flow' = Unlisted(flow, ListedFor(session))
    BY DEF githubDisconnect, clearGitHubSession
  <2>2. ListedFor(session) \in SUBSET Flows
    BY DEF ListedFor
  <2> QED BY <2>1, <2>2, <1>1, UnlistedFacts DEF AllKept
<1>3. /\ tokens' = tokens \ {session}
      /\ UNCHANGED <<session, used, pat, card, ref, mounted, working, leaving, consent, out, raced>>
  BY DEF githubDisconnect, page, history, clearGitHubSession
<1> USE DEF DeviceInv, TypeOK, Moves, AllKept, AllFaded, Kept, Faded, At, NoSession, NoFlow
<1>4. TypeOK'
  BY <1>1, <1>2, <1>3, DeviceAssumption, SMTT(20) DEF Shown, Begun, Sessions, Flows
<1>5. Shown'
  BY <1>1, <1>2, <1>3 DEF Shown, Begun, Flows
<1>6. Begun'
  BY <1>1, <1>2, <1>3 DEF Begun
<1>7. (Agreed /\ TokenByConsent)'
  BY <1>1, <1>2, <1>3 DEF Begun, Agreed, TokenByConsent
<1>8. Single'
  BY <1>1, <1>2, <1>3 DEF Begun, Single
<1>9. (Met /\ LogoutClears)'
  BY <1>1, <1>2, <1>3 DEF Begun, Met, LogoutClears
<1> HIDE DEF DeviceInv, TypeOK, Moves, AllKept, AllFaded, Kept, Faded, At, NoSession, NoFlow
<1> QED BY <1>4, <1>5, <1>6, <1>7, <1>8, <1>9 DEF DeviceInv

(* A logout takes the token away and remembers whom it met.                *)
LEMMA logoutKeeps ==
  ASSUME DeviceInv, logout
  PROVE  DeviceInv'
<1>1. used \in Nat /\ flow \in [Flows -> FlowRecords(used)]
  BY Table DEF DeviceInv
<1>2. AllKept
  <2>1. used' = used /\ flow' = Unlisted(flow, ListedFor(session))
    BY DEF logout, clearGitHubSession
  <2>2. ListedFor(session) \in SUBSET Flows
    BY DEF ListedFor
  <2> QED BY <2>1, <2>2, <1>1, UnlistedFacts DEF AllKept
<1>3. /\ session # NoSession
      /\ tokens' = tokens \ {session}
      /\ leaving' = TRUE
      /\ raced' = IF Connecting(session) THEN raced \cup {session} ELSE raced
      /\ UNCHANGED <<session, used, pat, card, ref, mounted, working, consent, out>>
  BY DEF logout, page, history, clearGitHubSession
<1> USE DEF DeviceInv, TypeOK, Moves, AllKept, AllFaded, Kept, Faded, At, NoSession, NoFlow
<1>4. TypeOK'
  BY <1>1, <1>2, <1>3, DeviceAssumption, SMTT(20) DEF Shown, Begun, Sessions, Flows
<1>5. Shown'
  BY <1>1, <1>2, <1>3 DEF Shown, Begun, Flows
<1>6. Begun'
  BY <1>1, <1>2, <1>3 DEF Begun
<1>7. (Agreed /\ TokenByConsent)'
  BY <1>1, <1>2, <1>3 DEF Begun, Agreed, TokenByConsent
<1>8. Single'
  BY <1>1, <1>2, <1>3 DEF Begun, Single
<1>9. (Met /\ LogoutClears)'
  BY <1>1, <1>2, <1>3 DEF Begun, Met, LogoutClears
<1> HIDE DEF DeviceInv, TypeOK, Moves, AllKept, AllFaded, Kept, Faded, At, NoSession, NoFlow
<1> QED BY <1>4, <1>5, <1>6, <1>7, <1>8, <1>9 DEF DeviceInv

(* The session that ends has no token, or met a connecting request.        *)
LEMMA LoggedOutKeeps ==
  ASSUME DeviceInv, LoggedOut
  PROVE  DeviceInv'
<1>1. used \in Nat /\ flow \in [Flows -> FlowRecords(used)]
  BY Table DEF DeviceInv
<1>2. AllFaded /\ \A g \in Flows : ~flow'[g].here
  BY <1>1, UnmountedFacts DEF LoggedOut, AllFaded
<1>3. /\ mounted' = FALSE
      /\ card' = NoFlow
      /\ ref' = NoFlow
      /\ working' = FALSE
      /\ leaving /\ leaving' = FALSE
      /\ out' = out \cup {session} /\ session' = NoSession
      /\ raced' = IF Connecting(session) THEN raced \cup {session} ELSE raced
      /\ UNCHANGED <<used, tokens, pat, consent>>
  BY DEF LoggedOut, page, history, LeavePage
<1> USE DEF DeviceInv, TypeOK, Moves, AllKept, AllFaded, Kept, Faded, At, NoSession, NoFlow,
     Connecting
<1>4. TypeOK'
  <2>1. /\ used' \in Sessions /\ session' \in {NoSession, used'}
        /\ flow' \in [Flows -> FlowRecords(used')]
    BY <1>1, <1>2, <1>3, DeviceAssumption DEF Shown, Begun, Sessions, Flows
  <2>2. \A g \in Flows : flow'[g].listed \/ g = card' => flow'[g].owner # NoSession
    BY <1>1, <1>2, <1>3, DeviceAssumption DEF Shown, Begun, Sessions, Flows
  <2>3. /\ tokens' \subseteq 1..used' /\ pat' \in 0..used'
        /\ consent' \subseteq 1..used' /\ out' \subseteq 1..used' /\ raced' \subseteq 1..used'
    BY <1>1, <1>2, <1>3, DeviceAssumption DEF Shown, Begun, Sessions, Flows
  <2>4. /\ card' \in Flows \cup {NoFlow} /\ ref' \in Flows \cup {NoFlow}
        /\ ~mounted' => card' = NoFlow /\ ref' = NoFlow /\ ~working'
        /\ mounted' \in BOOLEAN /\ working' \in BOOLEAN
        /\ leaving' \in BOOLEAN /\ (leaving' => session' # NoSession)
    BY <1>1, <1>2, <1>3, DeviceAssumption DEF Shown, Begun, Sessions, Flows
  <2> QED BY <2>1, <2>2, <2>3, <2>4 DEF TypeOK
<1>5. Shown'
  BY <1>1, <1>2, <1>3 DEF Shown, Begun, Flows
<1>6. Begun'
  BY <1>1, <1>2, <1>3 DEF Begun
<1>7. (Agreed /\ TokenByConsent)'
  BY <1>1, <1>2, <1>3 DEF Begun, Agreed, TokenByConsent
<1>8. Single'
  BY <1>1, <1>2, <1>3 DEF Begun, Single
<1>9. (Met /\ LogoutClears)'
  BY <1>1, <1>2, <1>3 DEF Begun, Met, LogoutClears
<1> HIDE DEF DeviceInv, TypeOK, Moves, AllKept, AllFaded, Kept, Faded, At, NoSession,
     NoFlow, Connecting
<1> QED BY <1>4, <1>5, <1>6, <1>7, <1>8, <1>9 DEF DeviceInv

(* A session that expires leaves the tables alone.                         *)
LEMMA SessionEndsKeeps ==
  ASSUME DeviceInv, SessionEnds
  PROVE  DeviceInv'
<1>1. used \in Nat /\ flow \in [Flows -> FlowRecords(used)]
  BY Table DEF DeviceInv
<1>2. AllKept
  <2>1. flow' = flow /\ used' = used
    BY DEF SessionEnds
  <2> QED BY <2>1, <1>1 DEF AllKept, Kept, Faded
<1>3. /\ ~leaving
      /\ session' = NoSession
      /\ UNCHANGED <<used, tokens, pat, card, ref, mounted, working, leaving, consent, out, raced>>
  BY DEF SessionEnds, page, history
<1> USE DEF DeviceInv, TypeOK, Moves, AllKept, AllFaded, Kept, Faded, At, NoSession, NoFlow
<1>4. TypeOK'
  BY <1>1, <1>2, <1>3, DeviceAssumption, SMTT(20) DEF Shown, Begun, Sessions, Flows
<1>5. Shown'
  BY <1>1, <1>2, <1>3 DEF Shown, Begun, Flows
<1>6. Begun'
  BY <1>1, <1>2, <1>3 DEF Begun
<1>7. (Agreed /\ TokenByConsent)'
  BY <1>1, <1>2, <1>3 DEF Begun, Agreed, TokenByConsent
<1>8. Single'
  BY <1>1, <1>2, <1>3 DEF Begun, Single
<1>9. (Met /\ LogoutClears)'
  BY <1>1, <1>2, <1>3 DEF Begun, Met, LogoutClears
<1> HIDE DEF DeviceInv, TypeOK, Moves, AllKept, AllFaded, Kept, Faded, At, NoSession, NoFlow
<1> QED BY <1>4, <1>5, <1>6, <1>7, <1>8, <1>9 DEF DeviceInv

(* A login has a session number that no table names.                       *)
LEMMA loginKeeps ==
  ASSUME DeviceInv, login
  PROVE  DeviceInv'
<1>1. used \in Nat /\ flow \in [Flows -> FlowRecords(used)]
  BY Table DEF DeviceInv
<1>2. AllKept /\ used' = used + 1 /\ used' \in Sessions
  <2>1. used + Cardinality(Started) < Tries /\ used' = used + 1 /\ flow' = flow
    BY DEF login
  <2>2. Cardinality(Started) \in Nat
    <3>1. IsFiniteSet(Flows)
      BY DeviceAssumption, FS_Interval DEF Flows
    <3>2. IsFiniteSet(Started)
      BY <3>1, FS_Subset DEF Started
    <3> QED BY <3>2, FS_CardinalityType
  <2>3. used + 1 \in Sessions
    <3>1. Tries \in Nat
      BY DeviceAssumption
    <3> HIDE DEF Started
    <3> QED BY <2>1, <2>2, <3>1, <1>1 DEF Sessions
  <2>4. \A r \in FlowRecords(used) : r \in FlowRecords(used + 1)
    BY <1>1 DEF FlowRecords
  <2>5. flow' \in [Flows -> FlowRecords(used')]
    BY <2>1, <2>4, <1>1
  <2> QED BY <2>1, <2>3, <2>5, <1>1 DEF AllKept, Kept, Faded
<1>3. /\ session = NoSession /\ ~mounted
      /\ session' = used + 1
      /\ UNCHANGED <<tokens, pat, card, ref, mounted, working, leaving, consent, out, raced>>
  BY DEF login, page, history
<1> USE DEF DeviceInv, TypeOK, Moves, AllKept, AllFaded, Kept, Faded, At, NoSession, NoFlow
<1>4. TypeOK'
  BY <1>1, <1>2, <1>3, DeviceAssumption, SMTT(20) DEF Shown, Begun, Sessions, Flows
<1>5. Shown'
  BY <1>1, <1>2, <1>3 DEF Shown, Begun, Flows
<1>6. Begun'
  BY <1>1, <1>2, <1>3 DEF Begun
<1>7. (Agreed /\ TokenByConsent)'
  BY <1>1, <1>2, <1>3 DEF Begun, Agreed, TokenByConsent
<1>8. Single'
  BY <1>1, <1>2, <1>3 DEF Begun, Single
<1>9. (Met /\ LogoutClears)'
  BY <1>1, <1>2, <1>3 DEF Begun, Met, LogoutClears
<1> HIDE DEF DeviceInv, TypeOK, Moves, AllKept, AllFaded, Kept, Faded, At, NoSession, NoFlow
<1> QED BY <1>4, <1>5, <1>6, <1>7, <1>8, <1>9 DEF DeviceInv

(* A restart empties the tables.                                           *)
LEMMA RestartKeeps ==
  ASSUME DeviceInv, Restart
  PROVE  DeviceInv'
<1>1. used \in Nat /\ flow \in [Flows -> FlowRecords(used)]
  BY Table DEF DeviceInv
<1>2. /\ flow' \in [Flows -> FlowRecords(used')]
      /\ \A g \in Flows :
            /\ ~flow'[g].listed
            /\ \/ Kept(flow[g], flow'[g]) /\ flow[g].chain \notin {"asking", "granted"}
               \/ /\ flow'[g].chain = "replied" /\ flow'[g].reply = "error"
                  /\ flow'[g].owner = flow[g].owner /\ flow'[g].here = flow[g].here
  <2> DEFINE un == Unlisted(flow, Flows)
             Failed(g) == [Replied(g, "error")[g] EXCEPT !.listed = FALSE]
  <2>1. /\ used' = used
        /\ \A g \in Flows : \/ flow'[g] = un[g] /\ flow[g].chain \notin {"asking", "granted"}
                            \/ flow'[g] = Failed(g)
    BY DEF Restart, At
  <2>2. flow' = [g \in Flows |-> flow'[g]]
    BY DEF Restart
  <2>3. /\ un \in [Flows -> FlowRecords(used)]
        /\ \A g \in Flows : Kept(flow[g], un[g]) /\ ~un[g].listed
    BY <1>1, UnlistedFacts
  <2>4. ASSUME NEW g \in Flows
        PROVE  /\ Failed(g) \in FlowRecords(used) /\ ~Failed(g).listed
               /\ Failed(g).chain = "replied" /\ Failed(g).reply = "error"
               /\ Failed(g).owner = flow[g].owner /\ Failed(g).here = flow[g].here
    <3> DEFINE r == Replied(g, "error")[g]
    <3>1. /\ r \in FlowRecords(used)
          /\ r.chain = "replied" /\ r.reply = "error"
          /\ r.owner = flow[g].owner /\ r.here = flow[g].here
      BY <1>1, RepliedFacts DEF Replies
    <3> HIDE DEF r
    <3>2. LET q == [r EXCEPT !.listed = FALSE]
          IN  /\ q \in FlowRecords(used) /\ ~q.listed
              /\ q.chain = r.chain /\ q.reply = r.reply /\ q.owner = r.owner /\ q.here = r.here
      BY <3>1 DEF FlowRecords
    <3> QED BY <3>1, <3>2 DEF r
  <2> HIDE DEF un, Failed
  <2>5. flow' \in [Flows -> FlowRecords(used')]
    BY <2>1, <2>2, <2>3, <2>4
  <2>6. ASSUME NEW g \in Flows
        PROVE  /\ ~flow'[g].listed
               /\ \/ Kept(flow[g], flow'[g]) /\ flow[g].chain \notin {"asking", "granted"}
                  \/ /\ flow'[g].chain = "replied" /\ flow'[g].reply = "error"
                     /\ flow'[g].owner = flow[g].owner /\ flow'[g].here = flow[g].here
    <3>1. CASE flow'[g] = un[g] /\ flow[g].chain \notin {"asking", "granted"}
      BY <3>1, <2>3
    <3>2. CASE flow'[g] = Failed(g)
      BY <3>2, <2>4
    <3> QED BY <3>1, <3>2, <2>1
  <2> QED BY <2>5, <2>6
<1>3. /\ session' = NoSession
      /\ tokens' = {}
      /\ pat' = NoSession
      /\ leaving' = FALSE
      /\ consent' = {}
      /\ out' = {}
      /\ raced' = {}
      /\ UNCHANGED <<used, card, ref, mounted, working>>
  BY DEF Restart, page, history
<1> USE DEF DeviceInv, TypeOK, Moves, AllKept, AllFaded, Kept, Faded, At, NoSession, NoFlow
<1>4. TypeOK'
  <2>1. /\ used' \in Sessions /\ session' \in {NoSession, used'}
        /\ flow' \in [Flows -> FlowRecords(used')]
    BY <1>1, <1>2, <1>3, DeviceAssumption DEF Shown, Begun, Sessions, Flows
  <2>2. \A g \in Flows : flow'[g].listed \/ g = card' => flow'[g].owner # NoSession
    BY <1>1, <1>2, <1>3, DeviceAssumption DEF Shown, Begun, Sessions, Flows
  <2>3. /\ tokens' \subseteq 1..used' /\ pat' \in 0..used'
        /\ consent' \subseteq 1..used' /\ out' \subseteq 1..used' /\ raced' \subseteq 1..used'
    BY <1>1, <1>2, <1>3, DeviceAssumption DEF Shown, Begun, Sessions, Flows
  <2>4. /\ card' \in Flows \cup {NoFlow} /\ ref' \in Flows \cup {NoFlow}
        /\ ~mounted' => card' = NoFlow /\ ref' = NoFlow /\ ~working'
        /\ mounted' \in BOOLEAN /\ working' \in BOOLEAN
        /\ leaving' \in BOOLEAN /\ (leaving' => session' # NoSession)
    BY <1>1, <1>2, <1>3, DeviceAssumption DEF Shown, Begun, Sessions, Flows
  <2> QED BY <2>1, <2>2, <2>3, <2>4 DEF TypeOK
<1>5. Shown'
  BY <1>1, <1>2, <1>3 DEF Shown, Begun, Flows
<1>6. Begun'
  BY <1>1, <1>2, <1>3 DEF Begun
<1>7. (Agreed /\ TokenByConsent)'
  BY <1>1, <1>2, <1>3 DEF Begun, Agreed, TokenByConsent
<1>8. Single'
  BY <1>1, <1>2, <1>3 DEF Begun, Single
<1>9. (Met /\ LogoutClears)'
  BY <1>1, <1>2, <1>3 DEF Begun, Met, LogoutClears
<1> HIDE DEF DeviceInv, TypeOK, Moves, AllKept, AllFaded, Kept, Faded, At, NoSession, NoFlow
<1> QED BY <1>4, <1>5, <1>6, <1>7, <1>8, <1>9 DEF DeviceInv

-----------------------------------------------------------------------------
(* The invariant holds at first and after every step.                      *)
LEMMA InitDeviceInv == Init => DeviceInv
<1> SUFFICES ASSUME Init PROVE DeviceInv
  OBVIOUS
<1>1. 1 \in Sessions /\ used = 1 /\ session = 1
  BY DeviceAssumption DEF Init, Sessions
<1>2. NewFlow \in FlowRecords(used)
  BY <1>1 DEF NewFlow, FlowRecords, Chains, Replies, Grants, NoSession
<1>3. \A f \in Flows : flow[f] = NewFlow
  BY DEF Init
<1>4. \A f \in Flows : /\ flow[f].chain = "none" /\ flow[f].reply = "none" /\ flow[f].sess = NoSession
                       /\ flow[f].owner = NoSession /\ flow[f].listed = FALSE
                       /\ flow[f].grant = "waiting" /\ flow[f].here = FALSE
  BY <1>3 DEF NewFlow
<1>5. TypeOK
  <2>1. flow \in [Flows -> FlowRecords(used)]
    BY <1>2 DEF Init
  <2>2. \A f \in Flows : ~(flow[f].listed \/ f = card)
    BY <1>4 DEF Init, NoFlow, Flows
  <2>3. /\ tokens = {} /\ pat = 0 /\ 0 \in 0..used /\ card = NoFlow /\ ref = NoFlow
        /\ mounted = FALSE /\ working = FALSE /\ leaving = FALSE
        /\ consent = {} /\ out = {} /\ raced = {}
    BY <1>1 DEF Init, NoSession
  <2> QED BY <1>1, <2>1, <2>2, <2>3 DEF TypeOK
<1>6. Shown /\ Begun
  BY <1>4 DEF Init, Shown, Begun, At, NoFlow, Flows
<1>7. Agreed /\ TokenByConsent /\ Single
  BY <1>4 DEF Init, Agreed, TokenByConsent, Single, At
<1>8. Met /\ LogoutClears
  BY <1>4 DEF Init, Met, LogoutClears
<1> QED BY <1>5, <1>6, <1>7, <1>8 DEF DeviceInv

(* Stuttering included.                                                    *)
LEMMA NextDeviceInv == DeviceInv /\ [Next]_vars => DeviceInv'
<1> SUFFICES ASSUME DeviceInv, [Next]_vars PROVE DeviceInv'
  OBVIOUS
<1>1. CASE UNCHANGED vars
  BY <1>1 DEF vars, DeviceInv, TypeOK, Shown, Begun, Agreed, TokenByConsent, Single, Met,
              LogoutClears, At
<1>2. ASSUME NEW f \in Flows, startDevice(f) \/ Chain(f) \/ Decide(f) PROVE DeviceInv'
  BY <1>2, startDeviceKeeps, githubDeviceStartKeeps, FlowCreatedKeeps, DeviceStartedKeeps,
     DecideKeeps, pollDeviceKeeps, githubDevicePollKeeps, PollTooEarlyKeeps,
     GitHubAskedKeeps, TokenStoredKeeps, PollPendingKeeps, PollEndedKeeps,
     SignedOutKeeps DEF Chain
<1>3. CASE \/ OpenPage \/ ClosePage \/ Cancel \/ GiveToken \/ githubTokenConnect
           \/ githubDisconnect \/ logout \/ LoggedOut \/ SessionEnds \/ login \/ Restart
  BY <1>3, OpenPageKeeps, ClosePageKeeps, CancelKeeps, GiveTokenKeeps,
     githubTokenConnectKeeps, githubDisconnectKeeps, logoutKeeps, LoggedOutKeeps,
     SessionEndsKeeps, loginKeeps, RestartKeeps
<1> QED BY <1>1, <1>2, <1>3 DEF Next

LEMMA DeviceInvariant == Spec => []DeviceInv
  BY InitDeviceInv, NextDeviceInv, PTL DEF Spec

(* The tables name sessions there have been, and what the page shows or    *)
(* the panel lists has an owner (github_auth.go, GitHubPage).              *)
THEOREM DeviceTypeCorrect == Spec => []TypeOK
<1>1. DeviceInv => TypeOK
  BY DEF DeviceInv
<1> QED BY <1>1, DeviceInvariant, PTL

(* However many logins, flows, stale chains and restarts: a session has a  *)
(* token only if the user allowed a flow started in it, or typed one in    *)
(* (githubDevicePoll's check of the owner, github_auth.go).                *)
THEOREM TokenNeedsConsent == Spec => []TokenByConsent
<1>1. DeviceInv => TokenByConsent
  BY DEF DeviceInv
<1> QED BY <1>1, DeviceInvariant, PTL

(* githubDeviceStart's replacement of the earlier flows keeps one flow per *)
(* session, whatever starts are under way together.                        *)
THEOREM OneFlow == Spec => []OneFlowPerSession
<1>1. TypeOK /\ Single => OneFlowPerSession
  <2> SUFFICES ASSUME Single, NEW s \in Sessions PROVE Cardinality(ListedFor(s)) <= 1
    BY DEF OneFlowPerSession
  <2>1. \A f, g \in ListedFor(s) : f = g
    BY DEF Single, ListedFor
  <2>2. CASE ListedFor(s) = {}
    BY <2>2, FS_EmptySet
  <2>3. CASE ListedFor(s) # {}
    <3>1. PICK f \in ListedFor(s) : TRUE
      BY <2>3
    <3>2. ListedFor(s) = {f}
      BY <3>1, <2>1
    <3>3. Cardinality({f}) = 1
      BY FS_Singleton
    <3> QED BY <3>2, <3>3
  <2> QED BY <2>2, <2>3
<1>2. DeviceInv => OneFlowPerSession
  BY <1>1 DEF DeviceInv
<1> QED BY <1>2, DeviceInvariant, PTL

(* A token outlives a logout only where the logout met a request that was  *)
(* connecting the session (logout, clearGitHubSession, github_auth.go).    *)
THEOREM LogoutLeavesNoToken == Spec => []LogoutClears
<1>1. DeviceInv => LogoutClears
  BY DEF DeviceInv
<1> QED BY <1>1, DeviceInvariant, PTL
=============================================================================
