------------------------- MODULE RecoveryHoldProofs -------------------------
(***************************************************************************)
(* The recovery hold, for any number of request threads, attempts, grants, *)
(* crashes and outside changes: it is released once and finally, every     *)
(* attempt's record is true of its message, a grant authorises one         *)
(* dispatch, and no attempt in flight is orphaned.                         *)
(***************************************************************************)
EXTENDS RecoveryHold, FiniteSetTheorems, TLAPS

-----------------------------------------------------------------------------
(* The inductive invariant.                                                *)

Got     == MutationOutcomes \cup Judgements \cup {"none"}
Reading == Got \cup {"not_attempted"}

Typed ==
    /\ lock \in {"held", "free", "other"}
    /\ used \in 0 .. MaxAttempts
    /\ evidence \in [Attempts -> Reading]
    /\ mutation \in [Attempts -> MutationColumn]
    /\ verification \in [Attempts -> Reading]
    /\ outcome \in [Attempts -> Outcomes]
    /\ issued \in Nat /\ spent \in Nat /\ spent <= issued
    /\ msg \in [Attempts -> Messages]
    /\ pc \in [Requests -> Places]
    /\ mine \in [Requests -> 0 .. MaxAttempts]
    /\ got \in [Requests -> Got]
    /\ phase \in {"up", "down", "settling"}

\* Where a handler has an attempt of its own.
Working == {"read", "evidence", "replan", "marker", "refuse", "mutate", "wait", "result",
            "vread", "vresult", "finish", "complete"}

\* A handler at work owns an attempt in flight, alone; any other owns none, and only a
\* running backend has handlers.
Owns ==
    /\ \A q \in Requests :
          /\ pc[q] # "idle" => phase = "up"
          /\ pc[q] \in Working => mine[q] \in Attempts /\ outcome[mine[q]] = "in_flight"
          /\ pc[q] \notin Working => mine[q] = 0
    /\ \A q, p \in Requests : pc[q] \in Working /\ pc[p] \in Working => q = p
    /\ \A a, b \in Attempts : outcome[a] = "in_flight" /\ outcome[b] = "in_flight" => a = b

\* What a handler knows of its attempt where it stands.
StageFits(q) ==
    LET a == mine[q] IN
    /\ pc[q] \in {"read", "evidence", "replan", "marker", "refuse"} => mutation[a] = "undispatched"
    /\ pc[q] \in {"mutate", "wait", "result"} => mutation[a] = "dispatched"
    /\ pc[q] = "mutate" => msg[a] = "idle"
    /\ pc[q] = "wait" => msg[a] # "idle"
    /\ pc[q] = "result" =>
          /\ got[q] \in MutationOutcomes
          /\ got[q] = "written" => msg[a] = "written"
          /\ got[q] = "not_written" => msg[a] \in {"idle", "not_written"}
    /\ pc[q] \in {"vread", "vresult"} => mutation[a] = "written"
    /\ pc[q] = "finish" =>
          /\ mutation[a] \in MutationOutcomes
          /\ mutation[a] = "written" => verification[a] # "verified"
    /\ pc[q] = "complete" =>
          \/ mutation[a] = "undispatched" /\ evidence[a] = "verified"
          \/ mutation[a] = "written" /\ verification[a] = "verified"

Stages == \A q \in Requests : StageFits(q)

\* What the records of an attempt say together: AttemptsAreTruthful of it, and that
\* nothing is dispatched before the attempt is there or by one that ends without a write.
RecordFits(a) ==
    /\ a > used => outcome[a] = "none"
    /\ outcome[a] \in {"none", "refused", "proven", "resolved"} => mutation[a] = "undispatched"
    /\ mutation[a] = "undispatched" => msg[a] = "idle"
    /\ mutation[a] = "written" => msg[a] = "written"
    /\ mutation[a] = "not_written" => msg[a] \in {"idle", "not_written"}
    /\ outcome[a] = "verified" => mutation[a] = "written" /\ verification[a] = "verified"
    /\ outcome[a] = "proven" => evidence[a] = "verified"

Records == \A a \in Attempts : RecordFits(a)

\* The hold and the history: one release, and nothing under way after it.
HoldFits ==
    /\ (lock = "held") <=> ~Released
    /\ \A a, b \in Attempts : outcome[a] \in Releasing /\ outcome[b] \in Releasing => a = b
    /\ Released => \A a \in Attempts : outcome[a] # "in_flight"

IInv == Typed /\ Owns /\ Stages /\ Records /\ HoldFits /\ InFlightIsServed

LEMMA InitIInv == Init => IInv
<1> SUFFICES ASSUME Init PROVE IInv
  OBVIOUS
<1>1. Typed
  BY RecoveryAssumption
  DEF Init, Typed, Attempts, Reading, Got, MutationColumn, Outcomes, Messages, Places
<1>2. Owns /\ Stages /\ HoldFits /\ InFlightIsServed
  BY DEF Init, Owns, Stages, StageFits, HoldFits, Released, Releasing, InFlightIsServed, Working
<1>3. Records
  BY DEF Init, Records, RecordFits
<1>4. QED
  BY <1>1, <1>2, <1>3 DEF IInv

LEMMA TypedStep ==
    ASSUME IInv, [Next]_vars
    PROVE  Typed'
<1>0. Typed /\ (\A q \in Requests : pc[q] \in Working => mine[q] \in Attempts)
      /\ (\A q \in Requests : pc[q] = "result" => got[q] \in MutationOutcomes)
  BY DEF IInv, Owns, Stages, StageFits
<1>1. UNCHANGED <<rows, msg, pc, mine, got, phase>> => Typed'
  BY <1>0 DEF Typed, rows
<1> USE <1>0, RecoveryAssumption DEF Typed, rows, world, thread, bounds, Places, Goto, Hold, Return
<1>2. ASSUME NEW q \in Requests, ConfirmBegin(q) \/ RetryBegin(q) \/ ResolveBegin(q) \/ HoldGone(q)
      PROVE  Typed'
  BY <1>2 DEF ConfirmBegin, RetryBegin, ResolveBegin, HoldGone, Arrive, Got
<1>3. ASSUME NEW q \in Requests, Confirm(q) \/ Marker(q)
      PROVE  Typed'
  BY <1>3 DEF Confirm, Marker, Outstanding, Got, Working, MutationColumn
<1>4. ASSUME NEW q \in Requests, Open(q)
      PROVE  Typed'
  BY <1>4 DEF Open, Attempts, Outcomes
<1>5. ASSUME NEW q \in Requests, EvidenceRead(q) \/ VerifyRead(q) \/ ResolveRead(q)
      PROVE  Typed'
  BY <1>5 DEF EvidenceRead, VerifyRead, ResolveRead, ReadBack, Got, Judgements
<1>6. ASSUME NEW q \in Requests, Evidence(q) \/ VerifyResult(q) \/ Replan(q)
      PROVE  Typed'
  BY <1>6 DEF Evidence, VerifyResult, Replan, Reading, Working
<1>7. ASSUME NEW q \in Requests, Send(q) \/ Answer(q)
      PROVE  Typed'
  BY <1>7 DEF Send, Answer, AnswerTo, Got, MutationOutcomes, Messages, Working
<1>8. ASSUME NEW q \in Requests, Result(q)
      PROVE  Typed'
  BY <1>8 DEF Result, MutationColumn, Working
<1>9. ASSUME NEW q \in Requests, Refuse(q) \/ Finish(q) \/ Complete(q)
      PROVE  Typed'
  <2>1. mine[q] \in Attempts /\ (pc[q] = "finish" => mutation[mine[q]] \in MutationOutcomes)
    BY <1>9 DEF IInv, Stages, StageFits, Refuse, Finish, Complete, Working
  <2>2. outcome' \in [Attempts -> Outcomes]
    BY <1>9, <2>1 DEF Refuse, Finish, Complete, EndAttempt, RecoveryOutcomeFor, Outcomes,
                      MutationOutcomes
  <2>3. QED
    BY <1>9, <2>2 DEF Refuse, Finish, Complete, EndAttempt, Got
<1>10. ASSUME NEW q \in Requests, Resolve(q)
       PROVE  Typed'
  BY <1>10 DEF Resolve, Attempts, Outcomes, Got, Reading
<1>11. CASE Crash
  BY <1>11 DEF Crash, Got
<1>12. ASSUME NEW a \in Attempts, SettleInterrupted(a)
       PROVE  Typed'
  BY <1>12 DEF SettleInterrupted, OutcomeOnRecovery, MutationColumn, MutationOutcomes, Outcomes
<1>13. ASSUME NEW a \in Attempts, Land(a)
       PROVE  Typed'
  BY <1>13 DEF Land, Messages
<1>14. CASE Restart \/ SettleDone \/ OtherLocks
  BY <1>14 DEF Restart, SettleDone, OtherLocks
<1>15. QED
  BY <1>1, <1>2, <1>3, <1>4, <1>5, <1>6, <1>7, <1>8, <1>9, <1>10, <1>11, <1>12, <1>13, <1>14
  DEF Next, vars, Handle, Settlement, LandFirst, LandUndo, HostMoves, Observe

-----------------------------------------------------------------------------
(* A step of a handler at work.                                            *)

\* It leaves the other handlers and the other attempts as they are.
Touches(q, a) ==
    /\ phase' = phase /\ used' = used
    /\ \A p \in Requests : p # q => pc'[p] = pc[p] /\ mine'[p] = mine[p] /\ got'[p] = got[p]
    /\ \A b \in Attempts : b # a =>
          /\ outcome'[b] = outcome[b] /\ mutation'[b] = mutation[b] /\ msg'[b] = msg[b]
          /\ evidence'[b] = evidence[b] /\ verification'[b] = verification[b]

\* The attempt ends with it, or the handler goes on; it releases the lock only by an
\* ending that says so, which needs the hold to be open.
Goes(q, a) == pc'[q] \in Working /\ mine'[q] = a /\ outcome'[a] = "in_flight" /\ lock' = lock
Ends(q, a) ==
    /\ pc'[q] = "idle" /\ mine'[q] = 0
    /\ outcome'[a] \notin {"none", "in_flight"}
    /\ IF outcome'[a] \in Releasing THEN lock' = "free" /\ OpenHold(a) ELSE lock' = lock

LEMMA WorkTouches ==
    ASSUME IInv, NEW q \in Requests, NEW a \in Attempts, a = mine[q], pc[q] \in Working, Handle(q)
    PROVE  Touches(q, a)
<1>0. Typed
  BY DEF IInv
<1> USE <1>0 DEF Typed, rows, world, thread, bounds, Goto, Hold, Return, Touches, Working
<1>1. CASE Confirm(q) \/ Open(q) \/ HoldGone(q) \/ ResolveRead(q) \/ Resolve(q)
  BY <1>1 DEF Confirm, Open, HoldGone, ResolveRead, Resolve
<1>2. CASE EvidenceRead(q) \/ VerifyRead(q)
  BY <1>2 DEF EvidenceRead, VerifyRead, ReadBack
<1>3. CASE Evidence(q) \/ VerifyResult(q)
  BY <1>3 DEF Evidence, VerifyResult
<1>4. CASE Replan(q) \/ Marker(q)
  BY <1>4 DEF Replan, Marker
<1>5. CASE Send(q) \/ Answer(q) \/ Result(q)
  BY <1>5 DEF Send, Answer, Result
<1>6. CASE Refuse(q) \/ Finish(q) \/ Complete(q)
  BY <1>6 DEF Refuse, Finish, Complete, EndAttempt
<1>7. QED
  BY <1>1, <1>2, <1>3, <1>4, <1>5, <1>6 DEF Handle

LEMMA WorkGoes ==
    ASSUME IInv, NEW q \in Requests, NEW a \in Attempts, a = mine[q], pc[q] \in Working, Handle(q)
    PROVE  Goes(q, a) \/ Ends(q, a)
<1>0. Typed /\ outcome[a] = "in_flight" /\ StageFits(q)
  BY DEF IInv, Owns, Stages
<1> USE <1>0 DEF Typed, rows, world, thread, bounds, Goto, Hold, Return, Working
<1>1. CASE Confirm(q) \/ Open(q) \/ HoldGone(q) \/ ResolveRead(q) \/ Resolve(q)
  BY <1>1 DEF Confirm, Open, HoldGone, ResolveRead, Resolve
<1>2. CASE EvidenceRead(q) \/ VerifyRead(q)
  BY <1>2 DEF EvidenceRead, VerifyRead, ReadBack, Goes
<1>3. CASE Evidence(q) \/ VerifyResult(q)
  BY <1>3 DEF Evidence, VerifyResult, Goes
<1>4. CASE Replan(q) \/ Marker(q)
  BY <1>4 DEF Replan, Marker, Goes
<1>5. CASE Send(q) \/ Answer(q) \/ Result(q)
  BY <1>5 DEF Send, Answer, Result, Goes
<1>6. CASE Refuse(q)
  BY <1>6 DEF Refuse, EndAttempt, Ends, Releasing
<1>7. CASE Finish(q)
  <2>1. /\ mutation[a] \in MutationOutcomes
        /\ mutation[a] = "written" => verification[a] # "verified"
    BY <1>7 DEF Finish, StageFits
  <2>2. /\ RecoveryOutcomeFor(mutation[a], verification[a]) \notin Releasing
        /\ RecoveryOutcomeFor(mutation[a], verification[a]) \notin {"none", "in_flight"}
    BY <2>1 DEF RecoveryOutcomeFor, Releasing, MutationOutcomes
  <2>3. QED
    BY <1>7, <2>2 DEF Finish, EndAttempt, Ends
<1>8. CASE Complete(q)
  BY <1>8 DEF Complete, Ends, Releasing
<1>9. QED
  BY <1>1, <1>2, <1>3, <1>4, <1>5, <1>6, <1>7, <1>8 DEF Handle

\* Where the handler goes on it knows what that place asks for, and in any case the
\* attempt's records agree.
LEMMA WorkFits ==
    ASSUME IInv, NEW q \in Requests, NEW a \in Attempts, a = mine[q], pc[q] \in Working, Handle(q)
    PROVE  StageFits(q)' /\ RecordFits(a)'
<1>0. Typed /\ outcome[a] = "in_flight" /\ StageFits(q) /\ RecordFits(a)
  BY DEF IInv, Owns, Stages, Records
<1> USE <1>0 DEF Typed, rows, world, thread, bounds, Goto, Hold, Return, Working, StageFits, RecordFits
<1>1. CASE Confirm(q) \/ Open(q) \/ HoldGone(q) \/ ResolveRead(q) \/ Resolve(q)
  BY <1>1 DEF Confirm, Open, HoldGone, ResolveRead, Resolve
<1>2. CASE EvidenceRead(q) \/ VerifyRead(q)
  BY <1>2 DEF EvidenceRead, VerifyRead, ReadBack
<1>3. CASE Evidence(q)
  BY <1>3 DEF Evidence
<1>4. CASE VerifyResult(q)
  BY <1>4 DEF VerifyResult, MutationOutcomes
<1>5. CASE Replan(q) \/ Marker(q)
  BY <1>5 DEF Replan, Marker
<1>6. CASE Send(q)
  BY <1>6 DEF Send, MutationOutcomes, Messages
<1>7. CASE Answer(q)
  BY <1>7 DEF Answer, AnswerTo, MutationOutcomes
<1>8. CASE Result(q)
  BY <1>8 DEF Result, MutationOutcomes
<1>9. CASE Refuse(q)
  BY <1>9 DEF Refuse, EndAttempt
<1>10. CASE Finish(q)
  BY <1>10 DEF Finish, EndAttempt, RecoveryOutcomeFor, MutationOutcomes
<1>11. CASE Complete(q)
  BY <1>11 DEF Complete
<1>12. QED
  BY <1>1, <1>2, <1>3, <1>4, <1>5, <1>6, <1>7, <1>8, <1>9, <1>10, <1>11 DEF Handle

Rest == Owns /\ Stages /\ Records /\ HoldFits /\ InFlightIsServed

LEMMA WorkKeeps ==
    ASSUME IInv, NEW q \in Requests, pc[q] \in Working, Handle(q)
    PROVE  Rest'
<1>1. PICK a \in Attempts : a = mine[q] /\ outcome[a] = "in_flight"
  BY DEF IInv, Owns
<1>2. Touches(q, a) /\ (Goes(q, a) \/ Ends(q, a)) /\ StageFits(q)' /\ RecordFits(a)'
  BY <1>1, WorkTouches, WorkGoes, WorkFits
<1>3. \A p \in Requests : p # q => pc[p] \notin Working /\ mine[p] = 0
  BY DEF IInv, Owns
<1>4. \A b \in Attempts : b # a => outcome[b] # "in_flight"
  BY <1>1 DEF IInv, Owns
<1>5. Owns'
  BY <1>1, <1>2, <1>3, <1>4 DEF Touches, Goes, Ends, IInv, Owns, Working
<1>6. Stages'
  <2>1. \A p \in Requests : p # q => StageFits(p)'
    BY <1>2, <1>3 DEF Touches, StageFits, Working
  <2>2. QED
    BY <1>2, <2>1 DEF Stages
<1>7. Records'
  BY <1>2 DEF Touches, IInv, Records, RecordFits
<1>8. HoldFits'
  <2>1. ~Released /\ lock = "held"
    BY <1>1 DEF IInv, HoldFits
  <2>2. \A b \in Attempts : b # a =>
           outcome'[b] = outcome[b] /\ outcome[b] \notin Releasing /\ outcome'[b] # "in_flight"
    BY <1>2, <1>4, <2>1 DEF Touches, Released
  <2>3. CASE outcome'[a] \in Releasing
    <3>1. lock' = "free" /\ outcome'[a] # "in_flight"
      BY <1>2, <2>3 DEF Goes, Ends, Releasing
    <3>2. QED
      BY <2>2, <2>3, <3>1 DEF HoldFits, Released
  <2>4. CASE outcome'[a] \notin Releasing
    <3>1. lock' = lock
      BY <1>2, <2>4 DEF Goes, Ends
    <3>2. \A b \in Attempts : outcome'[b] \notin Releasing
      BY <2>2, <2>4
    <3>3. QED
      BY <2>1, <3>1, <3>2 DEF HoldFits, Released
  <2>5. QED
    BY <2>3, <2>4
<1>9. InFlightIsServed'
  BY <1>2, <1>4 DEF Touches, Goes, Ends, InFlightIsServed
<1>10. QED
  BY <1>5, <1>6, <1>7, <1>8, <1>9 DEF Rest

\* A handler without an attempt opens one, settles the hold, or only moves.
LEMMA OpenKeeps ==
    ASSUME IInv, NEW q \in Requests, Open(q)
    PROVE  Rest'
<1>0. Typed /\ Typed'
  <2>1. [Next]_vars
    BY DEF Next, Handle
  <2>2. QED
    BY <2>1, TypedStep DEF IInv
<1>1. PICK a \in Attempts : a = used + 1
  BY <1>0, RecoveryAssumption DEF Open, Typed, Attempts
<1>2. /\ outcome' = [outcome EXCEPT ![a] = "in_flight"]
      /\ pc' = [pc EXCEPT ![q] = "read"] /\ mine' = [mine EXCEPT ![q] = a]
      /\ used' = a /\ UNCHANGED <<lock, evidence, mutation, verification, msg, got, phase>>
  BY <1>1 DEF Open, world
<1>3. ~Released /\ lock = "held" /\ \A b \in Attempts : outcome[b] # "in_flight"
  BY DEF Open, OpenHold, Attempts
<1>4. outcome[a] = "none" /\ mutation[a] = "undispatched" /\ phase = "up"
  <2>1. outcome[a] = "none"
    BY <1>0, <1>1 DEF IInv, Records, RecordFits, Typed
  <2>2. phase = "up"
    BY DEF Open, IInv, Owns
  <2>3. QED
    BY <2>1, <2>2 DEF IInv, Records, RecordFits
<1>5. \A p \in Requests : pc[p] \notin Working
  BY <1>3 DEF IInv, Owns
<1>6. Owns'
  BY <1>0, <1>2, <1>3, <1>4, <1>5 DEF IInv, Owns, Working, Typed
<1>7. Stages'
  BY <1>0, <1>2, <1>4, <1>5 DEF Stages, StageFits, Working, Typed
<1>8. Records'
  <2>1. RecordFits(a)'
    BY <1>0, <1>1, <1>2, <1>4 DEF IInv, Records, RecordFits, Typed
  <2>2. ASSUME NEW b \in Attempts, b # a
        PROVE  RecordFits(b)'
    <3>1. outcome'[b] = outcome[b] /\ (b > used' => b > used)
      BY <1>0, <1>1, <1>2, <2>2 DEF Typed, Attempts
    <3>2. QED
      BY <1>2, <3>1 DEF IInv, Records, RecordFits
  <2>3. QED
    BY <2>1, <2>2 DEF Records
<1>9. HoldFits'
  BY <1>0, <1>2, <1>3 DEF HoldFits, Released, Releasing, Typed
<1>10. InFlightIsServed'
  BY <1>0, <1>2, <1>3 DEF InFlightIsServed, Typed
<1>11. QED
  BY <1>6, <1>7, <1>8, <1>9, <1>10 DEF Rest

LEMMA ResolveKeeps ==
    ASSUME IInv, NEW q \in Requests, Resolve(q)
    PROVE  Rest'
<1>0. Typed
  BY DEF IInv
<1>1. PICK a \in Attempts : a = used + 1
  BY <1>0, RecoveryAssumption DEF Resolve, Typed, Attempts
<1>2. /\ outcome' = [outcome EXCEPT ![a] = "resolved"]
      /\ evidence' = [evidence EXCEPT ![a] = got[q]]
      /\ pc' = [pc EXCEPT ![q] = "idle"] /\ mine' = [mine EXCEPT ![q] = 0]
      /\ used' = a /\ lock' = "free" /\ UNCHANGED <<mutation, verification, msg, phase>>
  BY <1>1 DEF Resolve, Return, world
<1>3. ~Released /\ \A b \in Attempts : outcome[b] # "in_flight"
  BY DEF Resolve, OpenHold, Attempts
<1>4. outcome[a] = "none" /\ mutation[a] = "undispatched"
  <2>1. outcome[a] = "none"
    BY <1>0, <1>1 DEF IInv, Records, RecordFits, Typed
  <2>2. QED
    BY <2>1 DEF IInv, Records, RecordFits
<1>5. \A p \in Requests : pc[p] \notin Working /\ pc'[p] \notin Working
  BY <1>0, <1>2, <1>3 DEF IInv, Owns, Working, Typed
<1>6. Owns'
  BY <1>0, <1>2, <1>3, <1>5 DEF IInv, Owns, Working, Typed
<1>7. Stages'
  BY <1>5 DEF Stages, StageFits, Working
<1>8. Records'
  <2>1. RecordFits(a)'
    BY <1>0, <1>1, <1>2, <1>4 DEF IInv, Records, RecordFits, Typed
  <2>2. ASSUME NEW b \in Attempts, b # a
        PROVE  RecordFits(b)'
    <3>1. /\ outcome'[b] = outcome[b] /\ evidence'[b] = evidence[b]
          /\ b > used' => b > used
      BY <1>0, <1>1, <1>2, <2>2 DEF Typed, Attempts
    <3>2. QED
      BY <1>2, <3>1 DEF IInv, Records, RecordFits
  <2>3. QED
    BY <2>1, <2>2 DEF Records
<1>9. HoldFits'
  BY <1>0, <1>2, <1>3 DEF HoldFits, Released, Releasing, Typed
<1>10. InFlightIsServed'
  BY <1>0, <1>2, <1>3 DEF InFlightIsServed, Typed
<1>11. QED
  BY <1>6, <1>7, <1>8, <1>9, <1>10 DEF Rest

\* Moves of a handler that has no attempt, before and after.
LEMMA IdleMoveKeeps ==
    ASSUME IInv, NEW q \in Requests, NEW at \in {"idle", "confirm", "open", "rread", "resolve"},
           UNCHANGED <<lock, used, evidence, mutation, verification, outcome, msg, phase>>,
           pc' = [pc EXCEPT ![q] = at], pc[q] \notin Working, phase = "up",
           mine' = mine \/ mine' = [mine EXCEPT ![q] = 0],
           \A p \in Requests : p # q => got'[p] = got[p]
    PROVE  Rest'
<1>0. Typed
  BY DEF IInv
<1>1. mine' = mine
  BY <1>0 DEF IInv, Owns, Typed
<1>2. Owns'
  BY <1>0, <1>1 DEF IInv, Owns, Working, Typed
<1>3. Stages'
  BY <1>0, <1>1 DEF IInv, Stages, StageFits, Working, Typed
<1>4. Records' /\ HoldFits' /\ InFlightIsServed'
  BY <1>1 DEF IInv, Records, RecordFits, HoldFits, Released, InFlightIsServed
<1>5. QED
  BY <1>2, <1>3, <1>4 DEF Rest

\* Death, restart and settlement.
LEMMA SettlementKeeps ==
    ASSUME IInv, Crash \/ Restart \/ Settlement
    PROVE  Rest'
<1>0. Typed
  BY DEF IInv
<1>1. CASE Crash
  BY <1>0, <1>1 DEF Crash, rows, world, IInv, Rest, Owns, Stages, StageFits, Records, RecordFits,
                    HoldFits, Released, InFlightIsServed, Working, Typed
<1>2. CASE Restart \/ SettleDone
  <2>1. UNCHANGED <<rows, world, thread>> /\ phase # "up"
    BY <1>2 DEF Restart, SettleDone
  <2>2. Owns'
    BY <2>1 DEF rows, thread, IInv, Owns, Working
  <2>3. Stages' /\ Records' /\ HoldFits'
    BY <2>1 DEF rows, thread, world, IInv, Stages, StageFits, Records, RecordFits, HoldFits, Released
  <2>4. InFlightIsServed'
    BY <1>2, <2>1 DEF Restart, SettleDone, rows, InFlightIsServed
  <2>5. QED
    BY <2>2, <2>3, <2>4 DEF Rest
<1>3. ASSUME NEW a \in Attempts, SettleInterrupted(a)
      PROVE  Rest'
  <2>1. \A q \in Requests : pc[q] = "idle" /\ pc'[q] = "idle" /\ mine'[q] = 0
    BY <1>3 DEF SettleInterrupted, thread, IInv, Owns, Working
  <2>2. /\ outcome' = [outcome EXCEPT ![a] = "interrupted"] /\ outcome[a] = "in_flight"
        /\ mutation' = [mutation EXCEPT ![a] =
                          IF mutation[a] = "dispatched" THEN "write_unknown" ELSE mutation[a]]
        /\ UNCHANGED <<lock, used, evidence, verification, msg, phase>> /\ phase # "up"
    BY <1>0, <1>3 DEF SettleInterrupted, OutcomeOnRecovery, MutationOutcomes, world, Typed
  <2>3. Owns'
    BY <1>0, <2>1, <2>2 DEF IInv, Owns, Working, Typed
  <2>4. Stages' /\ InFlightIsServed'
    BY <2>1, <2>2 DEF Stages, StageFits, InFlightIsServed
  <2>5. Records'
    BY <1>0, <2>2 DEF IInv, Records, RecordFits, Typed
  <2>6. HoldFits'
    BY <1>0, <2>2 DEF IInv, HoldFits, Released, Releasing, Typed
  <2>7. QED
    BY <2>3, <2>4, <2>5, <2>6 DEF Rest
<1>4. QED
  BY <1>1, <1>2, <1>3 DEF Settlement

\* The helper, the host and the other Runs.
LEMMA WorldKeeps ==
    ASSUME IInv, \/ \E a \in Attempts : Land(a)
                 \/ LandFirst \/ LandUndo \/ HostMoves \/ Observe \/ OtherLocks
    PROVE  Rest'
<1>0. Typed
  BY DEF IInv
<1>1. UNCHANGED <<used, evidence, mutation, verification, outcome, thread, phase>>
  BY DEF Land, LandFirst, LandUndo, HostMoves, Observe, OtherLocks, rows
<1>2. lock' = lock \/ (lock # "held" /\ lock' # "held")
  BY DEF Land, LandFirst, LandUndo, HostMoves, Observe, OtherLocks, rows
<1>3. \A a \in Attempts : msg'[a] = msg[a] \/ (msg[a] = "sent" /\ msg'[a] \in {"written", "not_written"})
  BY <1>0 DEF Land, LandFirst, LandUndo, HostMoves, Observe, OtherLocks, world, Typed
<1>4. Owns' /\ InFlightIsServed'
  BY <1>1 DEF IInv, Owns, InFlightIsServed, thread
<1>5. Stages'
  BY <1>0, <1>1, <1>3 DEF IInv, Owns, Stages, StageFits, thread, Working, Typed
<1>6. Records'
  BY <1>1, <1>3 DEF IInv, Records, RecordFits
<1>7. HoldFits'
  BY <1>1, <1>2 DEF IInv, HoldFits, Released
<1>8. QED
  BY <1>4, <1>5, <1>6, <1>7 DEF Rest

LEMMA IInvStep ==
    ASSUME IInv, [Next]_vars
    PROVE  IInv'
<1>0. Typed
  BY DEF IInv
<1>1. Rest'
  <2>1. CASE UNCHANGED vars
    BY <2>1 DEF vars, rows, world, thread, IInv, Rest, Owns, Stages, StageFits, Records, RecordFits,
                HoldFits, Released, InFlightIsServed
  <2>2. ASSUME NEW q \in Requests, ConfirmBegin(q) \/ RetryBegin(q) \/ ResolveBegin(q)
        PROVE  Rest'
    BY <1>0, <2>2, IdleMoveKeeps
    DEF ConfirmBegin, RetryBegin, ResolveBegin, Arrive, Goto, rows, world, Working
  <2>3. ASSUME NEW q \in Requests, Handle(q), pc[q] \notin Working
        PROVE  Rest'
    <3>1. CASE Open(q) \/ Resolve(q)
      BY <3>1, OpenKeeps, ResolveKeeps
    <3>2. CASE Confirm(q) \/ HoldGone(q)
      <4>1. phase = "up"
        BY <3>2 DEF Confirm, HoldGone, IInv, Owns
      <4>2. QED
        BY <1>0, <2>3, <3>2, <4>1, IdleMoveKeeps DEF Confirm, HoldGone, Return, rows, world, Typed
    <3>3. CASE ResolveRead(q)
      <4>1. phase = "up"
        BY <3>3 DEF ResolveRead, IInv, Owns
      <4>2. QED
        BY <1>0, <2>3, <3>3, <4>1, IdleMoveKeeps DEF ResolveRead, ReadBack, Hold, rows, Typed
    <3>4. QED
      BY <2>3, <3>1, <3>2, <3>3
      DEF Handle, EvidenceRead, Evidence, Replan, Marker, Refuse, Send, Answer, Result, VerifyRead,
          VerifyResult, Finish, Complete, Working
  <2>4. QED
    BY <2>1, <2>2, <2>3, WorkKeeps, SettlementKeeps, WorldKeeps DEF Next
<1>2. QED
  BY <1>1, TypedStep DEF IInv, Rest

LEMMA IInvHolds == Spec => []IInv
  BY InitIInv, IInvStep, PTL DEF Spec

-----------------------------------------------------------------------------
(* The theorems.                                                           *)

\* An attempt in flight on a served backend has a handler (settle_interrupted_recovery
\* runs before requests are served).
THEOREM InFlightIsAlwaysServed == Spec => []InFlightIsServed
<1>1. IInv => InFlightIsServed
  BY DEF IInv
<1>2. QED
  BY <1>1, IInvHolds, PTL

\* Every attempt's record is true of its message, whatever crashed or came late
\* (_recovery_result, _complete_recovery, settle_interrupted_recovery).
THEOREM AttemptsAreAlwaysTruthful == Spec => []AttemptsAreTruthful
<1>1. IInv => AttemptsAreTruthful
  BY DEF IInv, Records, RecordFits, AttemptsAreTruthful
<1>2. QED
  BY <1>1, IInvHolds, PTL

LEMMA AttemptsFinite == IsFiniteSet(Attempts)
  BY RecoveryAssumption, FS_Interval DEF Attempts

\* The lock is the Change's until one attempt says it released it, and no second
\* attempt ever does (recovery_retry against recovery_resolve, and either against a
\* crash).
THEOREM HoldIsAlwaysReleasedOnce == Spec => []HoldIsReleasedOnce
<1>1. ASSUME IInv
      PROVE  HoldIsReleasedOnce
  <2> DEFINE S == {a \in Attempts : outcome[a] \in Releasing}
  <2>1. (lock = "held") = ~Released
    BY <1>1 DEF IInv, HoldFits
  <2>2. CASE S = {}
    BY <2>1, <2>2, FS_EmptySet DEF HoldIsReleasedOnce
  <2>3. CASE S # {}
    <3>1. PICK x : S = {x}
      BY <1>1, <2>3 DEF IInv, HoldFits
    <3>2. Cardinality(S) = 1
      BY <3>1, FS_Singleton
    <3>3. QED
      BY <2>1, <3>2 DEF HoldIsReleasedOnce
  <2>4. QED
    BY <2>2, <2>3
<1>2. QED
  BY <1>1, IInvHolds, PTL

\* After the release no attempt's outcome changes and nothing more is sent for the
\* Change (_require_open_hold_locked).
THEOREM ReleaseIsAlwaysFinal == Spec => ReleaseIsFinal
<1>1. ASSUME IInv, [Next]_vars
      PROVE  [Released => \A a \in Attempts :
                 /\ outcome'[a] = outcome[a]
                 /\ msg[a] = "idle" => msg'[a] = "idle"]_vars
  <2> SUFFICES ASSUME Released, NEW a \in Attempts
               PROVE  /\ outcome'[a] = outcome[a]
                      /\ msg[a] = "idle" => msg'[a] = "idle"
    OBVIOUS
  <2>0. Typed
    BY <1>1 DEF IInv
  <2>1. \A b \in Attempts : outcome[b] # "in_flight"
    BY <1>1 DEF IInv, HoldFits
  <2>2. \A q \in Requests : pc[q] \notin Working
    BY <1>1, <2>1 DEF IInv, Owns
  <2>3. \A q \in Requests : Handle(q) => Confirm(q) \/ HoldGone(q) \/ ResolveRead(q)
    BY <2>2 DEF Handle, Open, Resolve, OpenHold, EvidenceRead, Evidence, Replan, Marker, Refuse, Send,
                Answer, Result, VerifyRead, VerifyResult, Finish, Complete, Working
  <2>4. outcome' = outcome
    BY <1>1, <2>1, <2>3
    DEF Next, vars, rows, Confirm, HoldGone, ResolveRead, ReadBack, ConfirmBegin, RetryBegin,
        ResolveBegin, Arrive, Land, LandFirst, LandUndo, HostMoves, Observe, OtherLocks, Crash,
        Restart, Settlement, SettleDone, SettleInterrupted
  <2>5. msg[a] = "idle" => msg'[a] = "idle"
    <3>1. msg' = msg \/ \E b \in Attempts : Land(b)
      BY <1>1, <2>3
      DEF Next, vars, world, Confirm, HoldGone, ResolveRead, ReadBack, ConfirmBegin, RetryBegin,
          ResolveBegin, Arrive, LandFirst, LandUndo, HostMoves, Observe, OtherLocks, Crash,
          Restart, Settlement, SettleDone, SettleInterrupted
    <3>2. QED
      BY <2>0, <3>1 DEF Land, Typed
  <2>6. QED
    BY <2>4, <2>5
<1>2. QED
  BY <1>1, IInvHolds, PTL DEF Spec, ReleaseIsFinal

Dispatched == {a \in Attempts : mutation[a] # "undispatched"}

\* A grant is spent in the same step that marks the dispatch it authorises.
LEMMA DispatchSpends ==
    ASSUME IInv, [Next]_vars
    PROVE  \/ Dispatched' = Dispatched /\ spent' = spent
           \/ spent' = spent + 1 /\ \E a \in Attempts : Dispatched' = Dispatched \cup {a}
<1>0. Typed
  BY DEF IInv
<1>1. CASE UNCHANGED <<mutation, spent>>
  BY <1>1 DEF Dispatched
<1>2. ASSUME NEW q \in Requests, Marker(q)
      PROVE  \/ Dispatched' = Dispatched /\ spent' = spent
             \/ spent' = spent + 1 /\ \E a \in Attempts : Dispatched' = Dispatched \cup {a}
  <2>1. mine[q] \in Attempts
    BY <1>2 DEF Marker, IInv, Owns, Working
  <2>2. CASE Outstanding
    <3>1. mutation' = [mutation EXCEPT ![mine[q]] = "dispatched"] /\ spent' = spent + 1
      BY <1>2, <2>2 DEF Marker
    <3>2. Dispatched' = Dispatched \cup {mine[q]}
      BY <1>0, <2>1, <3>1 DEF Dispatched, Typed
    <3>3. QED
      BY <2>1, <3>1, <3>2
  <2>3. CASE ~Outstanding
    BY <1>2, <2>3 DEF Marker, Dispatched
  <2>4. QED
    BY <2>2, <2>3
<1>3. ASSUME NEW q \in Requests, Result(q)
      PROVE  Dispatched' = Dispatched /\ spent' = spent
  <2>1. /\ mine[q] \in Attempts /\ mutation[mine[q]] = "dispatched"
        /\ got[q] \in MutationOutcomes
    BY <1>3 DEF Result, IInv, Owns, Stages, StageFits, Working
  <2>2. QED
    BY <1>0, <1>3, <2>1 DEF Result, Dispatched, MutationOutcomes, Typed
<1>4. ASSUME NEW a \in Attempts, SettleInterrupted(a)
      PROVE  Dispatched' = Dispatched /\ spent' = spent
  BY <1>0, <1>4 DEF SettleInterrupted, OutcomeOnRecovery, MutationOutcomes, Dispatched, Typed
<1>5. QED
  BY <1>1, <1>2, <1>3, <1>4
  DEF Next, vars, rows, Handle, Confirm, Open, HoldGone, EvidenceRead, Evidence, Replan, Refuse, Send,
      Answer, VerifyRead, VerifyResult, Finish, Complete, ResolveRead, Resolve, ReadBack, EndAttempt,
      ConfirmBegin, RetryBegin, ResolveBegin, Arrive, Land, LandFirst, LandUndo, HostMoves, Observe,
      OtherLocks, Crash, Restart, Settlement, SettleDone

\* No more dispatches than grants consumed, and no more consumed than a person made,
\* however requests, retries and crashes interleave (_recovery_dispatch_marker).
THEOREM GrantPerDispatchAlways == Spec => []GrantPerDispatch
<1> DEFINE G == Cardinality(Dispatched) <= spent
<1>0. IsFiniteSet(Dispatched) /\ Cardinality(Dispatched) \in Nat
  BY AttemptsFinite, FS_Subset, FS_CardinalityType DEF Dispatched
<1>1. Init => G
  <2> SUFFICES ASSUME Init PROVE G
    OBVIOUS
  <2>1. Dispatched = {}
    BY DEF Init, Dispatched
  <2>2. QED
    BY <2>1, FS_EmptySet DEF Init
<1>2. ASSUME IInv, G, [Next]_vars
      PROVE  G'
  <2>0. spent \in Nat
    BY <1>2 DEF IInv, Typed
  <2>1. CASE Dispatched' = Dispatched /\ spent' = spent
    BY <1>2, <2>1
  <2>2. CASE spent' = spent + 1 /\ \E a \in Attempts : Dispatched' = Dispatched \cup {a}
    <3>1. PICK a \in Attempts : Dispatched' = Dispatched \cup {a}
      BY <2>2
    <3>2. Cardinality(Dispatched') \in {Cardinality(Dispatched), Cardinality(Dispatched) + 1}
      BY <1>0, <3>1, FS_AddElement
    <3>3. QED
      BY <1>0, <1>2, <2>0, <2>2, <3>1, <3>2
  <2>3. QED
    BY <1>2, <2>1, <2>2, DispatchSpends
<1>3. IInv /\ G => GrantPerDispatch
  BY DEF IInv, Typed, GrantPerDispatch, Dispatched
<1>4. QED
  BY <1>1, <1>2, <1>3, IInvHolds, PTL DEF Spec

-----------------------------------------------------------------------------
(* The rows keep to the values their CHECKs allow.                         *)

\* Where an answer is about to be recorded as a reading, it is one: the helper's answer
\* to a write is never taken for what the target was seen to hold.
Judged ==
    \A q \in Requests : pc[q] \in {"evidence", "vresult", "resolve"} => got[q] \in Judgements

LEMMA JudgedStep ==
    ASSUME IInv, Judged, [Next]_vars
    PROVE  Judged'
<1>0. Typed
  BY DEF IInv
<1> USE <1>0 DEF Typed, Judged
<1>1. UNCHANGED thread => Judged'
  BY DEF thread
<1>2. ASSUME NEW q \in Requests,
             ConfirmBegin(q) \/ RetryBegin(q) \/ ResolveBegin(q) \/ Evidence(q) \/ Replan(q)
               \/ Marker(q) \/ Result(q) \/ VerifyResult(q) \/ Open(q)
      PROVE  Judged'
  <2>1. /\ got' = got
        /\ \E at \in Places \ {"evidence", "vresult", "resolve"} : pc' = [pc EXCEPT ![q] = at]
    BY <1>2 DEF ConfirmBegin, RetryBegin, ResolveBegin, Arrive, Evidence, Replan, Marker, Result,
                VerifyResult, Open, Goto, Places
  <2>2. QED
    BY <2>1
<1>3. ASSUME NEW q \in Requests,
             Confirm(q) \/ HoldGone(q) \/ Refuse(q) \/ Finish(q) \/ Complete(q) \/ Resolve(q)
      PROVE  Judged'
  <2>1. pc' = [pc EXCEPT ![q] = "idle"] /\ got' = [got EXCEPT ![q] = "none"]
    BY <1>3 DEF Confirm, HoldGone, Refuse, Finish, Complete, EndAttempt, Resolve, Return
  <2>2. QED
    BY <2>1
<1>4. ASSUME NEW q \in Requests, EvidenceRead(q) \/ VerifyRead(q) \/ ResolveRead(q)
      PROVE  Judged'
  <2>1. PICK at \in Places, v \in Judgements :
          pc' = [pc EXCEPT ![q] = at] /\ got' = [got EXCEPT ![q] = v]
    BY <1>4 DEF EvidenceRead, VerifyRead, ResolveRead, ReadBack, Hold, Judgements, Places
  <2>2. QED
    BY <2>1
<1>5. ASSUME NEW q \in Requests, Send(q) \/ Answer(q)
      PROVE  Judged'
  <2>1. PICK at \in {"wait", "result"}, v \in Got :
          pc' = [pc EXCEPT ![q] = at] /\ (got' = got \/ got' = [got EXCEPT ![q] = v])
    BY <1>5 DEF Send, Answer, AnswerTo, Goto, Hold, Got, MutationOutcomes
  <2>2. QED
    BY <2>1
<1>6. CASE Crash
  BY <1>6 DEF Crash
<1>7. QED
  BY <1>1, <1>2, <1>3, <1>4, <1>5, <1>6
  DEF Next, vars, Handle, Settlement, Restart, SettleDone, SettleInterrupted, Land, LandFirst,
      LandUndo, HostMoves, Observe, OtherLocks

\* The part of TypeOK that IInv does not say.
Valued ==
    /\ kind \in [Attempts -> {"none", "retry", "resolve"}]
    /\ evidence \in [Attempts -> Judgements \cup {"not_attempted"}]
    /\ verification \in [Attempts -> Judgements \cup {"not_attempted"}]
    /\ issued <= MaxGrants
    /\ host \in Nat /\ observed \in Nat
    /\ first \in Messages \ {"idle"}
    /\ undo \in 0 .. 2
    /\ carry \in [Attempts -> Nat]
    /\ val \in [Requests -> Nat]
    /\ isField \in BOOLEAN
    /\ crashes \in 0 .. MaxCrashes
    /\ moves \in 0 .. MaxMoves

LEMMA ValuedStep ==
    ASSUME IInv, Judged, Valued, [Next]_vars
    PROVE  Valued'
<1>0. Typed /\ \A q \in Requests : pc[q] \in Working => mine[q] \in Attempts
  BY DEF IInv, Owns
<1> USE <1>0, RecoveryAssumption DEF Typed, Valued, rows, world, thread, bounds, Goto, Hold, Return
<1>1. ASSUME UNCHANGED <<kind, evidence, verification, issued, world, val, bounds>>
      PROVE  Valued'
  BY <1>1
<1>2. ASSUME NEW q \in Requests,
             ConfirmBegin(q) \/ RetryBegin(q) \/ ResolveBegin(q) \/ HoldGone(q) \/ Marker(q)
               \/ Answer(q) \/ Result(q) \/ Refuse(q) \/ Finish(q) \/ Complete(q)
      PROVE  Valued'
  <2>1. UNCHANGED <<kind, evidence, verification, issued, world, bounds>>
        /\ (val' = val \/ val' = [val EXCEPT ![q] = 0])
    BY <1>2 DEF ConfirmBegin, RetryBegin, ResolveBegin, Arrive, HoldGone, Marker, Answer, Result,
                Refuse, Finish, Complete, EndAttempt
  <2>2. QED
    BY <2>1
<1>3. ASSUME NEW q \in Requests, Confirm(q)
      PROVE  Valued'
  <2>1. issued' <= MaxGrants
    BY <1>3 DEF Confirm, Outstanding
  <2>2. QED
    BY <1>3, <2>1 DEF Confirm
<1>4. ASSUME NEW q \in Requests, Open(q)
      PROVE  Valued'
  BY <1>4 DEF Open, Attempts
<1>5. ASSUME NEW q \in Requests, EvidenceRead(q) \/ VerifyRead(q) \/ ResolveRead(q)
      PROVE  Valued'
  <2>1. /\ UNCHANGED <<kind, evidence, verification, issued, host, first, undo, carry, bounds>>
        /\ observed' \in {observed, host}
        /\ val' = val \/ val' = [val EXCEPT ![q] = host]
    BY <1>5 DEF EvidenceRead, VerifyRead, ResolveRead, ReadBack
  <2>2. QED
    BY <2>1
<1>6. ASSUME NEW q \in Requests, Evidence(q) \/ VerifyResult(q)
      PROVE  Valued'
  <2>1. got[q] \in Judgements
    BY <1>6 DEF Judged, Evidence, VerifyResult
  <2>2. QED
    BY <1>6, <2>1 DEF Evidence, VerifyResult
<1>7. ASSUME NEW q \in Requests, Replan(q)
      PROVE  Valued'
  BY <1>7 DEF Replan
<1>8. ASSUME NEW q \in Requests, Send(q)
      PROVE  Valued'
  BY <1>8 DEF Send
<1>9. ASSUME NEW q \in Requests, Resolve(q)
      PROVE  Valued'
  <2>1. got[q] \in Judgements
    BY <1>9 DEF Judged, Resolve
  <2>2. QED
    BY <1>9, <2>1 DEF Resolve, Attempts
<1>10. CASE Crash
  BY <1>10 DEF Crash
<1>11. CASE Restart \/ Settlement \/ OtherLocks
  BY <1>11 DEF Restart, Settlement, SettleDone, SettleInterrupted, OtherLocks
<1>12. CASE (\E a \in Attempts : Land(a)) \/ LandFirst
  <2>1. host' \in Nat
    BY <1>12 DEF Land, LandFirst, Carried
  <2>2. QED
    BY <1>12, <2>1 DEF Land, LandFirst, Messages
<1>13. CASE LandUndo \/ HostMoves \/ Observe
  <2>1. host' \in Nat
    BY <1>13 DEF LandUndo, HostMoves, Observe
  <2>2. QED
    BY <1>13, <2>1 DEF LandUndo, HostMoves, Observe
<1>14. QED
  BY <1>1, <1>2, <1>3, <1>4, <1>5, <1>6, <1>7, <1>8, <1>9, <1>10, <1>11, <1>12, <1>13
  DEF Next, vars, Handle

\* Every column keeps to what migration 0009 allows: in particular a reading recorded as
\* evidence or verification is a judgement of a reading, whichever of the handler's
\* answers was last (_recovery_evidence, _recovery_verification, recovery_resolve).
THEOREM HoldTypeCorrect == Spec => []TypeOK
<1>1. Init => Judged /\ Valued
  BY RecoveryAssumption DEF Init, Judged, Valued, Messages
<1>2. IInv /\ Judged /\ Valued => TypeOK
  BY DEF IInv, Typed, Valued, TypeOK, Got
<1>3. QED
  BY <1>1, <1>2, IInvHolds, JudgedStep, ValuedStep, PTL DEF Spec
=============================================================================
