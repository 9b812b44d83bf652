------------------------- MODULE ChangeEngineProofs -------------------------
(***************************************************************************)
(* Theorems about ChangeEngine, for every set of Runs, targets and request *)
(* threads and every bound: types, truthful records and spent authority    *)
(* with concurrent applies of one Run allowed; the lock, the endings and   *)
(* the refinement of ChangePromise for clients that do not do that.        *)
(***************************************************************************)
EXTENDS ChangeRefinement, TLAPS

-----------------------------------------------------------------------------
(* Type correctness *)

\* Vocabulary sets every typing step expands.
USE DEF Endings

LEMMA InitTypeOK == Init => TypeOK
  BY EngineAssumption
  DEF Init, TypeOK, RunStates, HostEffects, Results, MutationColumn, Judgements,
      Messages, Values, Answers, Counters, Appliable, MutationOutcomes

\* A handler serving a Run: its job is a Run from its arrival to its return.
JobIsRun == \A q \in Requests : pc[q] # "idle" => job[q] \in Runs

LEMMA InitJobIsRun == Init => JobIsRun
  BY DEF Init, JobIsRun

LEMMA JobIsRunStep == TypeOK /\ JobIsRun /\ [Next]_vars => JobIsRun'
<1> SUFFICES ASSUME TypeOK, JobIsRun, [Next]_vars
             PROVE  JobIsRun'
  OBVIOUS
<1> USE DEF JobIsRun, TypeOK
<1>1. CASE UNCHANGED vars
  BY <1>1 DEF vars, thread
<1>2. ASSUME NEW q \in Requests, Handle(q)
      PROVE  JobIsRun'
  BY <1>2
  DEF Handle, Confirm, Override, Plan, AwaitConfirmation, Consume, ConsumeRefuses,
      Refuse, Prepare, PrepareFails, Cross, Dispatch, Send, NotSent, Answer, Settle,
      VerifyStart, VerifyRead, VerifyResult, RollBack, RollBackRead, RollBackMark,
      RollBackSend, RollBackAnswer, RollBackResult, RollBackVerifyStart,
      RollBackVerifyRead, RollBackVerifyResult, Finish, StoreRefuses, Goto, Hold,
      Return, MoveState, ReadBack
<1>3. ASSUME NEW q \in Requests, NEW r \in Runs,
             ConfirmBegin(q, r) \/ OverrideBegin(q, r) \/ Acquire(q, r)
      PROVE  JobIsRun'
  BY <1>3 DEF ConfirmBegin, OverrideBegin, Acquire, Arrive
<1>4. ASSUME NEW r \in Runs,
             Create(r) \/ Cancel(r) \/ Land(r) \/ RollBackLand(r)
      PROVE  JobIsRun'
  BY <1>4 DEF Create, Cancel, Land, RollBackLand, thread
<1>5. CASE Crash
  BY <1>5 DEF Crash
<1>6. CASE Restart \/ SettleStep
  BY <1>6 DEF Restart, SettleStep, SettleDone, SettleOutcome, SettleFinish, thread
<1>7. ASSUME NEW t \in Targets, HostMoves(t) \/ Observe(t)
      PROVE  JobIsRun'
  BY <1>7 DEF HostMoves, Observe, thread
<1>8. QED
  BY <1>1, <1>2, <1>3, <1>4, <1>5, <1>6, <1>7 DEF Next

\* What a handler holds in memory is what its next step will store.
GotFits ==
    \A q \in Requests :
        /\ pc[q] \in {"settle", "rbresult"} => got[q] \in MutationOutcomes
        /\ pc[q] \in {"vresult", "rbvresult"} => got[q] \in Judgements
        /\ pc[q] \in {"rbmark", "rbmutate"} => got[q] \in Values

LEMMA InitGotFits == Init => GotFits
  BY DEF Init, GotFits

LEMMA GotFitsStep == TypeOK /\ JobIsRun /\ GotFits /\ [Next]_vars => GotFits'
<1> SUFFICES ASSUME TypeOK, JobIsRun, GotFits, [Next]_vars
             PROVE  GotFits'
  OBVIOUS
<1> USE DEF GotFits, TypeOK, Answers, MutationOutcomes, Judgements, Values
<1>1. CASE UNCHANGED vars
  BY <1>1 DEF vars, thread
<1>2. ASSUME NEW q \in Requests, Handle(q)
      PROVE  GotFits'
  <2>1. CASE \/ Confirm(q) \/ Override(q) \/ Refuse(q) \/ PrepareFails(q)
             \/ Finish(q) \/ StoreRefuses(q)
    BY <2>1 DEF Confirm, Override, Refuse, PrepareFails, Finish, StoreRefuses, Return
  <2>2. CASE \/ Plan(q) \/ AwaitConfirmation(q) \/ Consume(q) \/ ConsumeRefuses(q)
             \/ Prepare(q) \/ Cross(q) \/ Dispatch(q) \/ Send(q)
    BY <2>2 DEF Plan, AwaitConfirmation, Consume, ConsumeRefuses, Prepare, Cross,
                Dispatch, Send, MoveState, Goto
  <2>3. CASE Settle(q)
    BY <2>3 DEF Settle, Goto, AfterSettle
  <2>4. CASE NotSent(q) \/ Answer(q) \/ RollBackAnswer(q)
    BY <2>4 DEF NotSent, Answer, RollBackAnswer, Hold, AnswerTo
  <2>5. CASE VerifyRead(q) \/ RollBackVerifyRead(q)
    BY <2>5 DEF VerifyRead, RollBackVerifyRead, ReadBack, Hold
  <2>6. CASE RollBackRead(q)
    <3>1. job[q] \in Runs
      BY <2>6 DEF RollBackRead, JobIsRun
    <3>2. host[Target[job[q]]] \in Values
      BY <3>1, EngineAssumption
    <3>3. QED
      BY <2>6, <3>2 DEF RollBackRead, Hold, Goto
  <2>7. CASE RollBackSend(q)
    BY <2>7 DEF RollBackSend, Hold, Goto
  <2>8. CASE \/ VerifyStart(q) \/ VerifyResult(q) \/ RollBack(q) \/ RollBackMark(q)
             \/ RollBackResult(q) \/ RollBackVerifyStart(q) \/ RollBackVerifyResult(q)
    BY <2>8 DEF VerifyStart, VerifyResult, RollBack, RollBackMark, RollBackResult,
                RollBackVerifyStart, RollBackVerifyResult, MoveState, Goto
  <2>9. QED
    BY <1>2, <2>1, <2>2, <2>3, <2>4, <2>5, <2>6, <2>7, <2>8 DEF Handle
<1>3. ASSUME NEW q \in Requests, NEW r \in Runs,
             ConfirmBegin(q, r) \/ OverrideBegin(q, r) \/ Acquire(q, r)
      PROVE  GotFits'
  BY <1>3 DEF ConfirmBegin, OverrideBegin, Acquire, Arrive
<1>4. ASSUME NEW r \in Runs,
             Create(r) \/ Cancel(r) \/ Land(r) \/ RollBackLand(r)
      PROVE  GotFits'
  BY <1>4 DEF Create, Cancel, Land, RollBackLand, thread
<1>5. CASE Crash
  BY <1>5 DEF Crash
<1>6. CASE Restart \/ SettleStep
  BY <1>6 DEF Restart, SettleStep, SettleDone, SettleOutcome, SettleFinish, thread
<1>7. ASSUME NEW t \in Targets, HostMoves(t) \/ Observe(t)
      PROVE  GotFits'
  BY <1>7 DEF HostMoves, Observe, thread
<1>8. QED
  BY <1>1, <1>2, <1>3, <1>4, <1>5, <1>6, <1>7 DEF Next

LEMMA TypeOKStep == TypeOK /\ JobIsRun /\ GotFits /\ [Next]_vars => TypeOK'
<1> SUFFICES ASSUME TypeOK, JobIsRun, GotFits, [Next]_vars
             PROVE  TypeOK'
  OBVIOUS
<1> USE EngineAssumption
    DEF TypeOK, GotFits, JobIsRun, RunStates, HostEffects, Results, MutationColumn,
        Judgements, Messages, Values, Answers, Counters, Applying, Acquired, Owner,
        Appliable, MutationOutcomes, rows, world, thread, bounds
<1>1. CASE UNCHANGED vars
  BY <1>1 DEF vars
<1>2. ASSUME NEW q \in Requests, Handle(q)
      PROVE  TypeOK'
  <2> USE DEF Goto, Hold, Return
  <2>1. CASE Confirm(q)
    BY <2>1 DEF Confirm
  <2>2. CASE Override(q)
    BY <2>2 DEF Override
  <2>3. CASE Plan(q)
    BY <2>3 DEF Plan
  <2>4. CASE AwaitConfirmation(q)
    BY <2>4 DEF AwaitConfirmation, MoveState, StepTo
  <2>5. CASE Consume(q)
    BY <2>5 DEF Consume
  <2>6. CASE ConsumeRefuses(q)
    BY <2>6 DEF ConsumeRefuses
  <2>7. CASE Refuse(q)
    BY <2>7 DEF Refuse, Released
  <2>8. CASE Prepare(q)
    BY <2>8 DEF Prepare
  <2>9. CASE PrepareFails(q)
    BY <2>9 DEF PrepareFails, Released
  <2>10. CASE Cross(q)
    BY <2>10 DEF Cross, MoveState, StepTo
  <2>11. CASE Dispatch(q)
    BY <2>11 DEF Dispatch
  <2>12. CASE Send(q)
    BY <2>12 DEF Send
  <2>13. CASE NotSent(q)
    BY <2>13 DEF NotSent
  <2>14. CASE Answer(q)
    BY <2>14 DEF Answer, AnswerTo
  <2>15. CASE Settle(q)
    BY <2>15 DEF Settle, AfterSettle, HostEffectFor
  <2>16. CASE VerifyStart(q)
    BY <2>16 DEF VerifyStart, MoveState, StepTo
  <2>17. CASE VerifyRead(q)
    BY <2>17, SMTT(30) DEF VerifyRead, ReadBack, Reading
  <2>18. CASE VerifyResult(q)
    BY <2>18 DEF VerifyResult
  <2>19. CASE RollBack(q)
    BY <2>19 DEF RollBack, MoveState, StepTo
  <2>20. CASE RollBackRead(q)
    BY <2>20, SMTT(30) DEF RollBackRead, Reading
  <2>21. CASE RollBackMark(q)
    BY <2>21 DEF RollBackMark
  <2>22. CASE RollBackSend(q)
    BY <2>22, SMTT(30) DEF RollBackSend
  <2>23. CASE RollBackAnswer(q)
    BY <2>23 DEF RollBackAnswer, AnswerTo
  <2>24. CASE RollBackResult(q)
    BY <2>24 DEF RollBackResult
  <2>25. CASE RollBackVerifyStart(q)
    BY <2>25 DEF RollBackVerifyStart, MoveState, StepTo
  <2>26. CASE RollBackVerifyRead(q)
    BY <2>26 DEF RollBackVerifyRead, ReadBack, Reading
  <2>27. CASE RollBackVerifyResult(q)
    BY <2>27 DEF RollBackVerifyResult
  <2>28. CASE Finish(q)
    BY <2>28 DEF Finish, End, Released, HostEffectFor
  <2>29. CASE StoreRefuses(q)
    BY <2>29 DEF StoreRefuses
  <2>30. QED
    BY <1>2, <2>1, <2>2, <2>3, <2>4, <2>5, <2>6, <2>7, <2>8, <2>9, <2>10, <2>11,
       <2>12, <2>13, <2>14, <2>15, <2>16, <2>17, <2>18, <2>19, <2>20, <2>21, <2>22,
       <2>23, <2>24, <2>25, <2>26, <2>27, <2>28, <2>29 DEF Handle
<1>3. ASSUME NEW q \in Requests, NEW r \in Runs,
             ConfirmBegin(q, r) \/ OverrideBegin(q, r) \/ Acquire(q, r)
      PROVE  TypeOK'
  BY <1>3, SMTT(30) DEF ConfirmBegin, OverrideBegin, Acquire, Arrive
<1>4. ASSUME NEW r \in Runs, Create(r) \/ Cancel(r)
      PROVE  TypeOK'
  BY <1>4 DEF Create, Cancel
<1>5. ASSUME NEW r \in Runs, Land(r) \/ RollBackLand(r)
      PROVE  TypeOK'
  BY <1>5 DEF Land, RollBackLand
<1>6. ASSUME NEW r \in Runs, SettleOutcome(r)
      PROVE  TypeOK'
  BY <1>6 DEF SettleOutcome, OutcomeOnRecovery, HostEffectFor
<1>7. ASSUME NEW r \in Runs, SettleFinish(r)
      PROVE  TypeOK'
  BY <1>7 DEF SettleFinish, End, SettledEnding, Released, HostEffectFor
<1>8. CASE Crash
  BY <1>8 DEF Crash
<1>9. CASE Restart \/ SettleDone
  BY <1>9 DEF Restart, SettleDone
<1>10. ASSUME NEW t \in Targets, HostMoves(t) \/ Observe(t)
       PROVE  TypeOK'
  BY <1>10 DEF HostMoves, Observe, Reading
<1>11. QED
  BY <1>1, <1>2, <1>3, <1>4, <1>5, <1>6, <1>7, <1>8, <1>9, <1>10 DEF Next, SettleStep

\* Every row, message and handler register stays in its declared vocabulary,
\* whatever the interleaving: the columns' CHECKed vocabularies are never left.
THEOREM TypeCorrect == Spec => []TypeOK
<1> DEFINE TypeInv == TypeOK /\ JobIsRun /\ GotFits
<1>1. Init => TypeInv
  BY InitTypeOK, InitJobIsRun, InitGotFits
<1>2. TypeInv /\ [Next]_vars => TypeInv'
  BY TypeOKStep, JobIsRunStep, GotFitsStep
<1>3. QED
  BY <1>1, <1>2, PTL DEF Spec

-----------------------------------------------------------------------------
(* Authority and truth: the inductive invariant *)

\* A handler past the consuming transaction owns spent authority ...
OwnerSpent ==
    \A q \in Requests : pc[q] \in Owner =>
        /\ conf[job[q]] = "spent"
        /\ job[q] \in Overridden => override[job[q]] = "spent"
        /\ pc[q] # "prepare" /\ job[q] \in Fields => job[q] \in checkpoint

\* ... and is the only one that does, because spending is what admits it.
OneOwner ==
    \A p, q \in Requests :
        pc[p] \in Owner /\ pc[q] \in Owner /\ job[p] = job[q] => p = q

\* How far the owner is decides what can be on disk and on the wire.
Stage ==
    \A q \in Requests :
        LET r == job[q] IN
        /\ pc[q] \in {"prepare", "cross", "dispatch"} =>
              sends[r] = 0 /\ mutation[r] = "undispatched"
        /\ pc[q] = "mutate" => sends[r] = 0 /\ mutation[r] = "dispatched"
        /\ pc[q] = "wait" => mutation[r] = "dispatched"
        /\ pc[q] = "settle" =>
              /\ mutation[r] = "dispatched"
              /\ got[q] = "written" => call[r] = "written"
              /\ got[q] = "not_written" => call[r] \in {"idle", "not_written"}

\* Nothing is on disk or on the wire for a Run whose authority is unspent.
Ledger ==
    \A r \in Runs :
        /\ sends[r] = 0 <=> call[r] = "idle"
        /\ mutation[r] = "undispatched" => sends[r] = 0
        /\ result[r] # "none" \/ mutation[r] # "undispatched" => conf[r] = "spent"

\* Only a running backend has handlers.
Quiescent == phase # "up" => \A q \in Requests : pc[q] = "idle"

AuthInv ==
    /\ OwnerSpent
    /\ OneOwner
    /\ Stage
    /\ Ledger
    /\ Quiescent
    /\ OneDispatchPerAuthority
    /\ OutcomeIsTruthful

TypeInv == TypeOK /\ JobIsRun /\ GotFits

LEMMA InitAuthInv == Init => AuthInv
  BY DEF Init, AuthInv, OwnerSpent, OneOwner, Stage, Ledger, Quiescent,
         OneDispatchPerAuthority, OutcomeIsTruthful, Owner

\* What the invariant speaks about, unchanged by a step.
authority == <<conf, override, checkpoint, result, mutation, call, sends>>

\* A handler that only moves on, past the stages that constrain the ledger.
LEMMA QuietMove ==
    ASSUME TypeInv, AuthInv, NEW q \in Requests, UNCHANGED authority, UNCHANGED phase,
           UNCHANGED job, NEW at \in Counters, pc' = [pc EXCEPT ![q] = at],
           pc[q] # "idle",
           \/ at \notin Owner
           \/ /\ pc[q] \in Owner \ {"prepare"}
              /\ at \notin {"prepare", "cross", "dispatch", "mutate", "wait", "settle"},
           \A p \in Requests : p # q => got'[p] = got[p]
    PROVE  AuthInv'
  BY DEF AuthInv, TypeInv, TypeOK, JobIsRun, OwnerSpent, OneOwner, Stage, Ledger,
         Quiescent, OneDispatchPerAuthority, OutcomeIsTruthful, Owner, authority

\* A request that arrives owns nothing yet.
LEMMA ArrivalStep ==
    ASSUME TypeInv, AuthInv, NEW q \in Requests, NEW r \in Runs,
           NEW at \in {"confirm", "override", "plan"}, Arrive(q, r, at),
           UNCHANGED authority, UNCHANGED phase
    PROVE  AuthInv'
  <1>1. \A p \in Requests : /\ p # q => pc'[p] = pc[p] /\ job'[p] = job[p]
                            /\ pc'[p] \in Owner => p # q
                            /\ got'[p] = got[p]
    BY DEF Arrive, TypeInv, TypeOK, Owner
  <1>2. phase = "up"
    BY DEF Arrive
  <1>3. OwnerSpent' /\ OneOwner' /\ Stage' /\ Quiescent'
    BY <1>1, <1>2 DEF AuthInv, OwnerSpent, OneOwner, Stage, Quiescent, authority, Owner
  <1>4. Ledger' /\ OneDispatchPerAuthority' /\ OutcomeIsTruthful'
    BY DEF AuthInv, Ledger, OneDispatchPerAuthority, OutcomeIsTruthful, authority
  <1>5. QED
    BY <1>3, <1>4 DEF AuthInv

\* A request that returns.
LEMMA ReturnStep ==
    ASSUME TypeInv, AuthInv, NEW q \in Requests, UNCHANGED authority, UNCHANGED phase,
           Return(q)
    PROVE  AuthInv'
  BY DEF AuthInv, TypeInv, TypeOK, JobIsRun, OwnerSpent, OneOwner, Stage, Ledger,
         Quiescent, OneDispatchPerAuthority, OutcomeIsTruthful, Owner, authority, Return

\* A step that touches neither the ledger nor a handler.
LEMMA ElsewhereStep ==
    ASSUME TypeInv, AuthInv, UNCHANGED authority, UNCHANGED thread,
           phase' = phase \/ phase # "up"
    PROVE  AuthInv'
  BY DEF AuthInv, TypeInv, TypeOK, JobIsRun, OwnerSpent, OneOwner, Stage, Ledger,
         Quiescent, OneDispatchPerAuthority, OutcomeIsTruthful, Owner, authority, thread

LEMMA AuthInvStep == TypeInv /\ AuthInv /\ [Next]_vars => AuthInv'
<1> SUFFICES ASSUME TypeInv, AuthInv, [Next]_vars
             PROVE  AuthInv'
  OBVIOUS
<1>1. CASE UNCHANGED vars
  BY <1>1, ElsewhereStep DEF vars, rows, world, thread, authority
<1>2. ASSUME NEW q \in Requests, Handle(q)
      PROVE  AuthInv'
  <2> USE DEF rows, world, bounds, authority
  <2>1. CASE Confirm(q)
    BY <2>1 DEF Confirm, Return, AuthInv, TypeInv, TypeOK, JobIsRun, OwnerSpent,
                OneOwner, Stage, Ledger, Quiescent, OneDispatchPerAuthority,
                OutcomeIsTruthful, Owner
  <2>2. CASE Override(q)
    BY <2>2 DEF Override, Return, AuthInv, TypeInv, TypeOK, JobIsRun, OwnerSpent,
                OneOwner, Stage, Ledger, Quiescent, OneDispatchPerAuthority,
                OutcomeIsTruthful, Owner
  <2>3. CASE Plan(q) \/ AwaitConfirmation(q) \/ ConsumeRefuses(q)
    BY <2>3, QuietMove
    DEF Plan, AwaitConfirmation, ConsumeRefuses, MoveState, Goto, Owner, Counters,
        Applying, Acquired
  <2>4. CASE Consume(q)
    \* No other handler owns the Run: its authority was unspent until now.
    BY <2>4 DEF Consume, Authorised, Goto, AuthInv, TypeInv, TypeOK, JobIsRun,
                OwnerSpent, OneOwner, Stage, Ledger, Quiescent,
                OneDispatchPerAuthority, OutcomeIsTruthful, Owner
  <2>5. CASE Refuse(q) \/ PrepareFails(q) \/ StoreRefuses(q)
    BY <2>5, ReturnStep DEF Refuse, PrepareFails, StoreRefuses
  <2>6. CASE Prepare(q)
    BY <2>6 DEF Prepare, Goto, AuthInv, TypeInv, TypeOK, JobIsRun, OwnerSpent,
                OneOwner, Stage, Ledger, Quiescent, OneDispatchPerAuthority,
                OutcomeIsTruthful, Owner
  <2>7. CASE Cross(q)
    BY <2>7 DEF Cross, MoveState, Goto, AuthInv, TypeInv, TypeOK, JobIsRun,
                OwnerSpent, OneOwner, Stage, Ledger, Quiescent,
                OneDispatchPerAuthority, OutcomeIsTruthful, Owner
  <2>8. CASE Dispatch(q)
    BY <2>8 DEF Dispatch, Goto, AuthInv, TypeInv, TypeOK, JobIsRun, OwnerSpent,
                OneOwner, Stage, Ledger, Quiescent, OneDispatchPerAuthority,
                OutcomeIsTruthful, Owner
  <2>9. CASE Send(q)
    BY <2>9 DEF Send, Goto, AuthInv, TypeInv, TypeOK, JobIsRun, OwnerSpent,
                OneOwner, Stage, Ledger, Quiescent, OneDispatchPerAuthority,
                OutcomeIsTruthful, Owner
  <2>10. CASE NotSent(q)
    BY <2>10 DEF NotSent, Hold, AuthInv, TypeInv, TypeOK, JobIsRun, OwnerSpent,
                 OneOwner, Stage, Ledger, Quiescent, OneDispatchPerAuthority,
                 OutcomeIsTruthful, Owner
  <2>11. CASE Answer(q)
    BY <2>11 DEF Answer, AnswerTo, Hold, AuthInv, TypeInv, TypeOK, JobIsRun,
                 OwnerSpent, OneOwner, Stage, Ledger, Quiescent,
                 OneDispatchPerAuthority, OutcomeIsTruthful, Owner
  <2>12. CASE Settle(q)
    <3>1. AfterSettle(job[q], got[q])
              \in {"failed", "verify", "rollback", "recovery_required"}
      BY DEF AfterSettle
    <3>2. QED
      BY <2>12, <3>1 DEF Settle, Goto, AuthInv, TypeInv, TypeOK, JobIsRun, GotFits,
                 OwnerSpent, OneOwner, Stage, Ledger, Quiescent,
                 OneDispatchPerAuthority, OutcomeIsTruthful, Owner, MutationOutcomes
  <2>13. CASE VerifyStart(q) \/ RollBack(q) \/ RollBackVerifyStart(q)
    BY <2>13, QuietMove
    DEF VerifyStart, RollBack, RollBackVerifyStart, MoveState, Goto, Owner, Counters,
        Applying
  <2>14. CASE VerifyRead(q) \/ RollBackVerifyRead(q)
    BY <2>14, QuietMove
    DEF VerifyRead, RollBackVerifyRead, ReadBack, Hold, Owner, Counters, Applying,
        TypeInv, TypeOK
  <2>15. CASE VerifyResult(q) \/ RollBackResult(q) \/ RollBackVerifyResult(q)
              \/ RollBackMark(q)
    BY <2>15, QuietMove
    DEF VerifyResult, RollBackResult, RollBackVerifyResult, RollBackMark, Goto, Owner,
        Counters, Applying
  <2>16. CASE RollBackRead(q) \/ RollBackSend(q) \/ RollBackAnswer(q)
    BY <2>16, QuietMove
    DEF RollBackRead, RollBackSend, RollBackAnswer, Goto, Hold, Owner, Counters,
        Applying, TypeInv, TypeOK
  <2>17. CASE Finish(q)
    BY <2>17 DEF Finish, End, Return, AuthInv, TypeInv, TypeOK, JobIsRun,
                 OwnerSpent, OneOwner, Stage, Ledger, Quiescent,
                 OneDispatchPerAuthority, OutcomeIsTruthful, Owner
  <2>18. QED
    BY <1>2, <2>1, <2>2, <2>3, <2>4, <2>5, <2>6, <2>7, <2>8, <2>9, <2>10, <2>11,
       <2>12, <2>13, <2>14, <2>15, <2>16, <2>17 DEF Handle
<1>3. ASSUME NEW q \in Requests, NEW r \in Runs,
             ConfirmBegin(q, r) \/ OverrideBegin(q, r) \/ Acquire(q, r)
      PROVE  AuthInv'
  BY <1>3, ArrivalStep
  DEF ConfirmBegin, OverrideBegin, Acquire, rows, world, authority
<1>4. ASSUME NEW r \in Runs, Create(r) \/ Cancel(r) \/ RollBackLand(r)
      PROVE  AuthInv'
  BY <1>4, ElsewhereStep DEF Create, Cancel, RollBackLand, rows, world, authority
<1>5. ASSUME NEW r \in Runs, Land(r)
      PROVE  AuthInv'
  BY <1>5 DEF Land, rows, thread, AuthInv, TypeInv, TypeOK, JobIsRun, OwnerSpent,
              OneOwner, Stage, Ledger, Quiescent, OneDispatchPerAuthority,
              OutcomeIsTruthful, Owner
<1>6. ASSUME NEW r \in Runs, SettleOutcome(r)
      PROVE  AuthInv'
  BY <1>6 DEF SettleOutcome, Interrupted, OutcomeOnRecovery, MutationOutcomes,
              MutationColumn, world, thread, AuthInv, TypeInv, TypeOK, JobIsRun,
              OwnerSpent, OneOwner, Stage, Ledger, Quiescent,
              OneDispatchPerAuthority, OutcomeIsTruthful, Owner
<1>7. ASSUME NEW r \in Runs, SettleFinish(r)
      PROVE  AuthInv'
  BY <1>7 DEF SettleFinish, End, Interrupted, world, thread, AuthInv, TypeInv, TypeOK,
              JobIsRun, OwnerSpent, OneOwner, Stage, Ledger, Quiescent,
              OneDispatchPerAuthority, OutcomeIsTruthful, Owner
<1>8. CASE Crash
  BY <1>8 DEF Crash, rows, world, AuthInv, TypeInv, TypeOK, OwnerSpent, OneOwner,
              Stage, Ledger, Quiescent, OneDispatchPerAuthority, OutcomeIsTruthful,
              Owner
<1>9. CASE Restart \/ SettleDone
  BY <1>9, ElsewhereStep DEF Restart, SettleDone, rows, world, authority
<1>10. ASSUME NEW t \in Targets, HostMoves(t) \/ Observe(t)
       PROVE  AuthInv'
  BY <1>10, ElsewhereStep DEF HostMoves, Observe, rows, authority
<1>11. QED
  BY <1>1, <1>2, <1>3, <1>4, <1>5, <1>6, <1>7, <1>8, <1>9, <1>10
  DEF Next, SettleStep

\* At most one dispatch for each confirmation (and override), with the
\* checkpoint on disk, however many applies of a Run are in progress at once and
\* wherever the process dies (_consume_confirmation, _dispatch).
THEOREM AuthorityIsSpentOnce == Spec => []OneDispatchPerAuthority
<1>1. Init => TypeInv /\ AuthInv
  BY InitTypeOK, InitJobIsRun, InitGotFits, InitAuthInv DEF TypeInv
<1>2. TypeInv /\ AuthInv /\ [Next]_vars => (TypeInv /\ AuthInv)'
  BY TypeOKStep, JobIsRunStep, GotFitsStep, AuthInvStep DEF TypeInv
<1>3. AuthInv => OneDispatchPerAuthority
  BY DEF AuthInv
<1>4. QED
  BY <1>1, <1>2, <1>3, PTL DEF Spec

\* The recorded mutation outcome is true of the message that was sent, for every
\* interleaving of timeouts, late landings, crashes and settlements
\* (_settle, settle_interrupted, outcome_on_recovery).
THEOREM RecordsAreTruthful == Spec => []OutcomeIsTruthful
<1>1. Init => TypeInv /\ AuthInv
  BY InitTypeOK, InitJobIsRun, InitGotFits, InitAuthInv DEF TypeInv
<1>2. TypeInv /\ AuthInv /\ [Next]_vars => (TypeInv /\ AuthInv)'
  BY TypeOKStep, JobIsRunStep, GotFitsStep, AuthInvStep DEF TypeInv
<1>3. AuthInv => OutcomeIsTruthful
  BY DEF AuthInv
<1>4. QED
  BY <1>1, <1>2, <1>3, PTL DEF Spec

\* No step rewrites a recorded outcome: the handler that records it is the only
\* one that may, and settlement leaves it alone.
LEMMA OutcomeStandsStep ==
    ASSUME TypeInv, AuthInv, [Next]_vars
    PROVE  \A r \in Runs : mutation[r] \in MutationOutcomes => mutation'[r] = mutation[r]
<1> USE DEF TypeInv, TypeOK, JobIsRun, MutationOutcomes, rows, Goto
<1>1. CASE UNCHANGED vars
  BY <1>1 DEF vars
<1>2. ASSUME NEW q \in Requests, Handle(q)
      PROVE  \A r \in Runs : mutation[r] \in MutationOutcomes => mutation'[r] = mutation[r]
  <2>1. CASE Cross(q)
    BY <2>1 DEF Cross, AuthInv, Stage
  <2>2. CASE Dispatch(q)
    BY <2>2 DEF Dispatch, AuthInv, Stage
  <2>3. CASE Settle(q)
    BY <2>3 DEF Settle, AuthInv, Stage
  <2>4. CASE UNCHANGED mutation
    BY <2>4
  <2>5. QED
    BY <1>2, <2>1, <2>2, <2>3, <2>4
    DEF Handle, Confirm, Override, Plan, AwaitConfirmation, Consume, ConsumeRefuses,
        Refuse, Prepare, PrepareFails, Send, NotSent, Answer, VerifyStart, VerifyRead,
        VerifyResult, RollBack, RollBackRead, RollBackMark, RollBackSend,
        RollBackAnswer, RollBackResult, RollBackVerifyStart, RollBackVerifyRead,
        RollBackVerifyResult, Finish, End, StoreRefuses, ReadBack
<1>3. ASSUME NEW q \in Requests, NEW r \in Runs,
             ConfirmBegin(q, r) \/ OverrideBegin(q, r) \/ Acquire(q, r)
      PROVE  UNCHANGED mutation
  BY <1>3 DEF ConfirmBegin, OverrideBegin, Acquire
<1>4. ASSUME NEW r \in Runs,
             Create(r) \/ Cancel(r) \/ Land(r) \/ RollBackLand(r)
             \/ SettleFinish(r)
      PROVE  UNCHANGED mutation
  BY <1>4 DEF Create, Cancel, Land, RollBackLand, SettleFinish, End
<1>5. ASSUME NEW r \in Runs, SettleOutcome(r)
      PROVE  \A s \in Runs : mutation[s] \in MutationOutcomes => mutation'[s] = mutation[s]
  BY <1>5 DEF SettleOutcome
<1>6. ASSUME NEW t \in Targets, HostMoves(t) \/ Observe(t)
      PROVE  UNCHANGED mutation
  BY <1>6 DEF HostMoves, Observe
<1>7. CASE Crash \/ Restart \/ SettleDone
  BY <1>7 DEF Crash, Restart, SettleDone
<1>8. QED
  BY <1>1, <1>2, <1>3, <1>4, <1>5, <1>6, <1>7 DEF Next, SettleStep

\* A recorded outcome survives everything that follows it (settle_interrupted:
\* "a restart is not entitled to a second opinion about it").
THEOREM OutcomesStand == Spec => RecordedOutcomeStands
<1>1. Init => TypeInv /\ AuthInv
  BY InitTypeOK, InitJobIsRun, InitGotFits, InitAuthInv DEF TypeInv
<1>2. TypeInv /\ AuthInv /\ [Next]_vars => (TypeInv /\ AuthInv)'
  BY TypeOKStep, JobIsRunStep, GotFitsStep, AuthInvStep DEF TypeInv
<1>3. TypeInv /\ AuthInv /\ [Next]_vars
      => [\A r \in Runs : mutation[r] \in MutationOutcomes
                          => mutation'[r] = mutation[r]]_vars
  BY OutcomeStandsStep
<1>4. QED
  BY <1>1, <1>2, <1>3, PTL DEF Spec, RecordedOutcomeStands

-----------------------------------------------------------------------------
(* The write lock, when clients do not apply one Run twice at the same time *)

\* A handler of an apply holds its target's lock, and is alone in doing so.
AppliersHold ==
    /\ \A q \in Requests : pc[q] \in Applying => lock[Target[job[q]]] = job[q]
    /\ \A p, q \in Requests :
          pc[p] \in Applying /\ pc[q] \in Applying /\ job[p] = job[q] => p = q

\* Where a handler stands relative to the boundary is what the rows say.
BoundaryKnown ==
    \A q \in Requests :
        /\ pc[q] \in Acquired \cup {"prepare", "cross"} =>
              result[job[q]] = "none" /\ state[job[q]] # "failed"
        /\ pc[q] \in Owner \ {"prepare", "cross"} => result[job[q]] = "in_flight"
        /\ pc[q] = "failed" => mutation[job[q]] = "not_written"

\* The Run row and the Change row, side by side.
RowsAgree ==
    \A r \in Runs :
        /\ result[r] # "none" => state[r] \notin Appliable \cup {"absent", "cancelled"}
        /\ state[r] = "recovery_required" => result[r] = "recovery_required"
        /\ state[r] = "failed" => result[r] \in {"none", "failed"}
        /\ result[r] = "failed" => mutation[r] = "not_written"
        /\ result[r] = "none" => sends[r] = 0

WindowInv == AppliersHold /\ BoundaryKnown /\ RowsAgree /\ LockCoversWindow

LEMMA InitWindowInv == Init => WindowInv
  BY DEF Init, WindowInv, AppliersHold, BoundaryKnown, RowsAgree, LockCoversWindow,
         Applying, Acquired, Owner, Appliable

\* What WindowInv speaks about besides the handlers.
windowRows == <<state, result, mutation, lock, sends>>

\* A handler moves on without touching the rows.
LEMMA WindowMove ==
    ASSUME TypeInv, AuthInv, WindowInv, NEW q \in Requests, UNCHANGED windowRows,
           UNCHANGED job, NEW at \in Counters, pc' = [pc EXCEPT ![q] = at],
           \/ pc[q] \in Acquired /\ at \in Acquired
           \/ /\ pc[q] \in Owner \ {"prepare", "cross"}
              /\ at \in Owner \ {"prepare", "cross", "failed"}
    PROVE  WindowInv'
  BY DEF WindowInv, TypeInv, TypeOK, AppliersHold, BoundaryKnown, RowsAgree,
         LockCoversWindow, Applying, Acquired, Owner, windowRows

\* A request returns and leaves the rows as they are.
LEMMA WindowReturn ==
    ASSUME TypeInv, WindowInv, NEW q \in Requests, UNCHANGED windowRows, Return(q)
    PROVE  WindowInv'
  BY DEF WindowInv, TypeInv, TypeOK, AppliersHold, BoundaryKnown, RowsAgree,
         LockCoversWindow, Applying, Acquired, Owner, windowRows, Return

\* A step that touches neither rows nor handlers.
LEMMA WindowElsewhere ==
    ASSUME WindowInv, UNCHANGED windowRows, UNCHANGED thread
    PROVE  WindowInv'
  BY DEF WindowInv, AppliersHold, BoundaryKnown, RowsAgree, LockCoversWindow,
         windowRows, thread

\* apply goes to the ending `failed` only with a recorded not_written.
LEMMA OnlyNotWrittenFails ==
    ASSUME NEW r, NEW o
    PROVE  /\ AfterSettle(r, o) \in {"failed", "verify", "rollback", "recovery_required"}
           /\ AfterSettle(r, o) = "failed" => o = "not_written"
  BY DEF AfterSettle

\* _finish ends a Run in flight that no handler but its own is serving.
LEMMA WindowEnd ==
    ASSUME TypeInv, WindowInv, NEW r \in Runs, NEW ending \in Endings, End(r, ending),
           result[r] = "in_flight", ending = "failed" => mutation[r] = "not_written",
           \A q \in Requests : pc'[q] \in Applying =>
              pc[q] = pc'[q] /\ job'[q] = job[q] /\ job[q] # r,
           UNCHANGED sends
    PROVE  WindowInv'
<1> USE DEF TypeInv, TypeOK, End, Released
<1>1. \A q \in Requests : pc'[q] \in Applying =>
          lock'[Target[job[q]]] = lock[Target[job[q]]]
  <2>1. SUFFICES ASSUME NEW q \in Requests, pc'[q] \in Applying
                 PROVE  lock'[Target[job[q]]] = lock[Target[job[q]]]
    OBVIOUS
  <2>2. pc[q] \in Applying /\ job[q] # r
    BY <2>1
  <2>3. job[q] \in Runs /\ lock[Target[job[q]]] = job[q]
    BY <2>2 DEF JobIsRun, WindowInv, AppliersHold, Applying, Acquired, Owner
  <2>4. QED
    BY <2>2, <2>3, EngineAssumption
<1>1a. AppliersHold'
  BY <1>1, SMTT(30) DEF WindowInv, AppliersHold
<1>2. BoundaryKnown'
  BY DEF WindowInv, BoundaryKnown, JobIsRun, Applying, Acquired, Owner
<1>3. RowsAgree'
  BY DEF WindowInv, RowsAgree, Appliable
<1>4. LockCoversWindow'
  <2>1. SUFFICES ASSUME NEW s \in Runs, result'[s] = "in_flight" \/ state'[s] = "recovery_required"
                 PROVE  lock'[Target[s]] = s
    BY DEF LockCoversWindow
  <2>2. Target[s] \in Targets /\ Target[r] \in Targets
    BY EngineAssumption
  <2>3. CASE s = r
    <3>1. lock[Target[r]] = r
      BY DEF WindowInv, LockCoversWindow
    <3>2. QED
      BY <2>1, <2>2, <2>3, <3>1
  <2>4. CASE s # r
    <3>1. lock[Target[s]] = s
      BY <2>1, <2>4 DEF WindowInv, LockCoversWindow
    <3>2. QED
      BY <2>2, <2>4, <3>1
  <2>5. QED
    BY <2>3, <2>4
<1>5. QED
  BY <1>1a, <1>2, <1>3, <1>4 DEF WindowInv

LEMMA WindowInvStep ==
    ASSUME ConcurrentApplies = FALSE, TypeInv, AuthInv, WindowInv, [Next]_vars
    PROVE  WindowInv'
<1>1. CASE UNCHANGED vars
  BY <1>1, WindowElsewhere DEF vars, rows, world, thread, windowRows
<1>2. ASSUME NEW q \in Requests, Handle(q)
      PROVE  WindowInv'
  <2> USE DEF rows, world, windowRows
  <2>1. CASE Confirm(q) \/ Override(q) \/ StoreRefuses(q)
    BY <2>1, WindowReturn DEF Confirm, Override, StoreRefuses
  <2>2. CASE Plan(q) \/ ConsumeRefuses(q)
    BY <2>2, WindowMove DEF Plan, ConsumeRefuses, Goto, Acquired, Counters, Applying
  <2>3. CASE AwaitConfirmation(q)
    <3>1. state' = [state EXCEPT ![job[q]] = "awaiting_confirmation"]
      BY <2>3 DEF AwaitConfirmation, MoveState, StepTo
    <3>2. QED
      BY <2>3, <3>1 DEF AwaitConfirmation, MoveState, Goto, WindowInv, TypeInv, TypeOK,
                  JobIsRun, AppliersHold, BoundaryKnown, RowsAgree, LockCoversWindow,
                  Applying, Acquired, Owner
  <2>4. CASE Consume(q)
    BY <2>4 DEF Consume, Goto, WindowInv, TypeInv, TypeOK, JobIsRun, AppliersHold,
                BoundaryKnown, RowsAgree, LockCoversWindow, Applying, Acquired, Owner
  <2>5. CASE Refuse(q)
    <3>1. job[q] \in Runs /\ result[job[q]] = "none" /\ pc[q] \in Applying
      BY <2>5 DEF Refuse, TypeInv, JobIsRun, WindowInv, BoundaryKnown, Acquired, Applying
    <3>2. \A p \in Requests : p # q /\ pc[p] \in Applying => job[p] # job[q]
      BY <3>1 DEF WindowInv, AppliersHold
    <3>3. LockCoversWindow'
      BY <2>5, <3>1, EngineAssumption
      DEF Refuse, Released, WindowInv, LockCoversWindow, RowsAgree, TypeInv, TypeOK
    <3>4. AppliersHold'
      BY <2>5, <3>1, <3>2, EngineAssumption
      DEF Refuse, Released, Return, WindowInv, AppliersHold, TypeInv, TypeOK, JobIsRun,
          Applying, Acquired, Owner
    <3>5. BoundaryKnown' /\ RowsAgree'
      BY <2>5 DEF Refuse, Return, WindowInv, BoundaryKnown, RowsAgree, TypeInv, TypeOK,
                  Acquired, Owner
    <3>6. QED
      BY <3>3, <3>4, <3>5 DEF WindowInv
  <2>6. CASE Prepare(q)
    BY <2>6 DEF Prepare, Goto, WindowInv, TypeInv, TypeOK, JobIsRun, AppliersHold,
                BoundaryKnown, RowsAgree, LockCoversWindow, Applying, Acquired, Owner
  <2>7. CASE PrepareFails(q)
    <3>1. job[q] \in Runs /\ result[job[q]] = "none" /\ pc[q] \in Applying
      BY <2>7 DEF PrepareFails, TypeInv, JobIsRun, WindowInv, BoundaryKnown, Applying, Owner
    <3>2. \A p \in Requests : p # q /\ pc[p] \in Applying => job[p] # job[q]
      BY <3>1 DEF WindowInv, AppliersHold
    <3>a. /\ state' = [state EXCEPT ![job[q]] = "failed"]
          /\ lock' = Released(job[q])
          /\ UNCHANGED result
      BY <2>7 DEF PrepareFails
    <3>3. LockCoversWindow'
      <4>1. SUFFICES ASSUME NEW s \in Runs,
                            result'[s] = "in_flight" \/ state'[s] = "recovery_required"
                     PROVE  lock'[Target[s]] = s
        BY DEF LockCoversWindow
      <4>2. s # job[q] /\ lock[Target[s]] = s
        BY <3>1, <3>a, <4>1 DEF WindowInv, LockCoversWindow, TypeInv, TypeOK
      <4>3. QED
        BY <3>a, <4>2, EngineAssumption DEF Released, TypeInv, TypeOK
    <3>b. \A p \in Requests : pc'[p] \in Applying =>
              /\ p # q /\ pc'[p] = pc[p] /\ job'[p] = job[p]
              /\ lock'[Target[job[p]]] = lock[Target[job[p]]]
      <4>1. SUFFICES ASSUME NEW p \in Requests, pc'[p] \in Applying
                     PROVE  /\ p # q /\ pc'[p] = pc[p] /\ job'[p] = job[p]
                            /\ lock'[Target[job[p]]] = lock[Target[job[p]]]
        OBVIOUS
      <4>2. p # q /\ pc'[p] = pc[p] /\ job'[p] = job[p]
        BY <2>7, <4>1 DEF PrepareFails, Return, TypeInv, TypeOK, Applying, Acquired, Owner
      <4>3. job[p] \in Runs /\ job[p] # job[q] /\ lock[Target[job[p]]] = job[p]
        BY <3>2, <4>1, <4>2 DEF TypeInv, JobIsRun, WindowInv, AppliersHold, Applying,
                                Acquired, Owner
      <4>4. QED
        BY <3>a, <4>2, <4>3, EngineAssumption DEF Released, TypeInv, TypeOK
    <3>4. AppliersHold'
      BY <3>b DEF WindowInv, AppliersHold
    <3>5. BoundaryKnown' /\ RowsAgree'
      BY <2>7, <3>1, <3>2 DEF PrepareFails, Return, WindowInv, BoundaryKnown, RowsAgree,
                  TypeInv, TypeOK, Applying, Acquired, Owner, Appliable
    <3>6. QED
      BY <3>3, <3>4, <3>5 DEF WindowInv
  <2>8. CASE Cross(q)
    <3>1. state' = [state EXCEPT ![job[q]] = "applying"]
      BY <2>8 DEF Cross, MoveState, StepTo
    <3>2. QED
      BY <2>8, <3>1 DEF Cross, MoveState, Goto, WindowInv, TypeInv, TypeOK, JobIsRun,
                  AppliersHold, BoundaryKnown, RowsAgree, LockCoversWindow, Applying,
                  Acquired, Owner, Appliable
  <2>9. CASE Dispatch(q)
    BY <2>9 DEF Dispatch, Goto, WindowInv, TypeInv, TypeOK, JobIsRun, AppliersHold,
                BoundaryKnown, RowsAgree, LockCoversWindow, Applying, Acquired, Owner
  <2>10. CASE Send(q)
    BY <2>10 DEF Send, Goto, WindowInv, TypeInv, TypeOK, JobIsRun, AppliersHold,
                 BoundaryKnown, RowsAgree, LockCoversWindow, Applying, Acquired, Owner
  <2>11. CASE NotSent(q) \/ Answer(q)
    BY <2>11, WindowMove DEF NotSent, Answer, Hold, Owner, Counters, Applying
  <2>12. CASE Settle(q)
    BY <2>12, OnlyNotWrittenFails
    DEF Settle, Goto, WindowInv, TypeInv, TypeOK, JobIsRun, AppliersHold, BoundaryKnown,
        RowsAgree, LockCoversWindow, Applying, Acquired, Owner
  <2>13. CASE VerifyStart(q) \/ RollBack(q) \/ RollBackVerifyStart(q)
    <3>1. PICK st \in {"verifying", "rolling_back", "rollback_verifying"} :
             state' = [state EXCEPT ![job[q]] = st]
      BY <2>13 DEF VerifyStart, RollBack, RollBackVerifyStart, MoveState, StepTo
    <3>2. PICK at \in {"vread", "rbread", "rbvread"} : pc' = [pc EXCEPT ![q] = at]
      BY <2>13 DEF VerifyStart, RollBack, RollBackVerifyStart, MoveState, Goto
    <3>3. UNCHANGED <<job, result, mutation, lock, sends>>
      BY <2>13 DEF VerifyStart, RollBack, RollBackVerifyStart, MoveState, Goto
    <3>4. /\ pc[q] \in Owner \ {"prepare", "cross"}
          /\ pc[q] \in Applying
          /\ pc'[q] \in Owner \ {"prepare", "cross", "failed"}
      BY <2>13, <3>2 DEF VerifyStart, RollBack, RollBackVerifyStart, TypeInv, TypeOK,
                         Applying, Owner
    <3>5. job[q] \in Runs /\ result[job[q]] = "in_flight"
      BY <3>4 DEF TypeInv, JobIsRun, WindowInv, BoundaryKnown, Applying, Owner
    <3>6. \A p \in Requests : p # q => pc'[p] = pc[p]
      BY <3>2 DEF TypeInv, TypeOK
    <3>7. AppliersHold'
      BY <3>3, <3>4, <3>6 DEF WindowInv, AppliersHold
    <3>8. \A r \in Runs : state'[r] = IF r = job[q] THEN st ELSE state[r]
      BY <3>1 DEF TypeInv, TypeOK
    <3>9. RowsAgree'
      BY <3>3, <3>5, <3>8 DEF WindowInv, RowsAgree, Appliable
    <3>10. LockCoversWindow'
      BY <3>3, <3>8 DEF WindowInv, LockCoversWindow
    <3>11. BoundaryKnown'
      <4>1. SUFFICES ASSUME NEW p \in Requests
                     PROVE  /\ pc'[p] \in Acquired \cup {"prepare", "cross"} =>
                                  result[job[p]] = "none" /\ state'[job[p]] # "failed"
                            /\ pc'[p] \in Owner \ {"prepare", "cross"} =>
                                  result[job[p]] = "in_flight"
                            /\ pc'[p] = "failed" => mutation[job[p]] = "not_written"
        BY <3>3 DEF BoundaryKnown
      <4>2. CASE p = q
        BY <3>2, <3>4, <3>5, <4>2 DEF TypeInv, TypeOK, Acquired, Owner
      <4>3. CASE p # q
        <5>1. pc'[p] = pc[p]
          BY <3>6, <4>3
        <5>2. pc[p] \in Acquired \cup {"prepare", "cross"} =>
                  job[p] \in Runs /\ job[p] # job[q] /\ result[job[p]] = "none"
                  /\ state[job[p]] # "failed"
          BY <3>5 DEF TypeInv, JobIsRun, WindowInv, BoundaryKnown, Applying, Acquired, Owner
        <5>3. QED
          BY <3>8, <5>1, <5>2 DEF WindowInv, BoundaryKnown
      <4>4. QED
        BY <4>2, <4>3
    <3>12. QED
      BY <3>7, <3>9, <3>10, <3>11 DEF WindowInv
  <2>14. CASE VerifyRead(q) \/ RollBackVerifyRead(q) \/ RollBackRead(q)
    BY <2>14, WindowMove
    DEF VerifyRead, RollBackVerifyRead, RollBackRead, ReadBack, Hold, Goto, Owner,
        Counters, Applying
  <2>15. CASE VerifyResult(q) \/ RollBackResult(q) \/ RollBackVerifyResult(q)
              \/ RollBackMark(q)
    BY <2>15, WindowMove
    DEF VerifyResult, RollBackResult, RollBackVerifyResult, RollBackMark, Goto, Owner,
        Counters, Applying
  <2>16. CASE RollBackSend(q) \/ RollBackAnswer(q)
    BY <2>16, WindowMove DEF RollBackSend, RollBackAnswer, Goto, Hold, Owner, Counters,
                             Applying
  <2>17. CASE Finish(q)
    <3>1. job[q] \in Runs /\ result[job[q]] = "in_flight" /\ pc[q] \in Applying
      BY <2>17 DEF Finish, TypeInv, JobIsRun, WindowInv, BoundaryKnown, Applying, Owner
    <3>2. \A p \in Requests : p # q /\ pc[p] \in Applying => job[p] # job[q]
      BY <3>1 DEF WindowInv, AppliersHold
    <3>3. \A p \in Requests : pc'[p] \in Applying =>
              pc[p] = pc'[p] /\ job'[p] = job[p] /\ job[p] # job[q]
      BY <2>17, <3>2 DEF Finish, Return, TypeInv, TypeOK, Applying, Acquired, Owner
    <3>4. pc[q] = "failed" => mutation[job[q]] = "not_written"
      BY DEF WindowInv, BoundaryKnown
    <3>5. QED
      BY <2>17, <3>1, <3>3, <3>4, WindowEnd DEF Finish
  <2>18. QED
    BY <1>2, <2>1, <2>2, <2>3, <2>4, <2>5, <2>6, <2>7, <2>8, <2>9, <2>10, <2>11,
       <2>12, <2>13, <2>14, <2>15, <2>16, <2>17 DEF Handle
<1>3. ASSUME NEW q \in Requests, NEW r \in Runs, ConfirmBegin(q, r) \/ OverrideBegin(q, r)
      PROVE  WindowInv'
  <2>1. UNCHANGED windowRows
    BY <1>3 DEF ConfirmBegin, OverrideBegin, rows, world, windowRows
  <2>2. \A p \in Requests : pc'[p] \in Applying =>
            p # q /\ pc'[p] = pc[p] /\ job'[p] = job[p]
    BY <1>3 DEF ConfirmBegin, OverrideBegin, Arrive, TypeInv, TypeOK, Applying,
                Acquired, Owner
  <2>3. AppliersHold'
    BY <2>1, <2>2 DEF WindowInv, AppliersHold, windowRows
  <2>4. BoundaryKnown' /\ RowsAgree' /\ LockCoversWindow'
    BY <2>1, <2>2 DEF WindowInv, BoundaryKnown, RowsAgree, LockCoversWindow,
                      windowRows, Applying, Acquired, Owner
  <2>5. QED
    BY <2>3, <2>4 DEF WindowInv
<1>4. ASSUME NEW q \in Requests, NEW r \in Runs, Acquire(q, r)
      PROVE  WindowInv'
  <2>1. \A p \in Requests : job[p] # r \/ pc[p] \notin Applying
    BY <1>4 DEF Acquire
  <2>2. result[r] = "none" /\ state[r] # "failed"
    BY <1>4 DEF Acquire, Arrive, WindowInv, RowsAgree, Appliable
  <2>3. AppliersHold'
    BY <1>4, <2>1, EngineAssumption
    DEF Acquire, Arrive, WindowInv, AppliersHold, TypeInv, TypeOK, JobIsRun, Applying,
        Acquired, Owner
  <2>4. LockCoversWindow'
    BY <1>4, <2>2, EngineAssumption
    DEF Acquire, WindowInv, LockCoversWindow, RowsAgree, TypeInv, TypeOK
  <2>5. BoundaryKnown' /\ RowsAgree'
    BY <1>4, <2>2 DEF Acquire, Arrive, world, WindowInv, BoundaryKnown, RowsAgree, TypeInv,
                TypeOK, Acquired, Owner
  <2>6. QED
    BY <2>3, <2>4, <2>5 DEF WindowInv
<1>5. ASSUME NEW r \in Runs, Create(r) \/ Cancel(r)
      PROVE  WindowInv'
  <2>1. PICK st \in {"preview", "cancelled"} : state' = [state EXCEPT ![r] = st]
    BY <1>5 DEF Create, Cancel
  <2>2. result[r] = "none"
    BY <1>5 DEF Create, Cancel, WindowInv, RowsAgree, Appliable
  <2>3. UNCHANGED <<result, mutation, lock, sends, pc, job>>
    BY <1>5 DEF Create, Cancel, world, thread
  <2>4. AppliersHold' /\ BoundaryKnown'
    BY <2>1, <2>3 DEF WindowInv, AppliersHold, BoundaryKnown, TypeInv, TypeOK, JobIsRun,
                      Applying
  <2>5. RowsAgree' /\ LockCoversWindow'
    BY <2>1, <2>2, <2>3 DEF WindowInv, RowsAgree, LockCoversWindow, TypeInv, TypeOK
  <2>6. QED
    BY <2>4, <2>5 DEF WindowInv
<1>6. ASSUME NEW r \in Runs, Land(r) \/ RollBackLand(r)
      PROVE  WindowInv'
  BY <1>6, WindowElsewhere DEF Land, RollBackLand, rows, world, windowRows
<1>7. ASSUME NEW r \in Runs, SettleOutcome(r)
      PROVE  WindowInv'
  BY <1>7 DEF SettleOutcome, Interrupted, world, thread, WindowInv, AuthInv, Quiescent,
              TypeInv, TypeOK, AppliersHold, BoundaryKnown, RowsAgree, LockCoversWindow,
              Applying, Acquired, Owner
<1>8. ASSUME NEW r \in Runs, SettleFinish(r)
      PROVE  WindowInv'
  <2>1. \A q \in Requests : pc'[q] \notin Applying
    BY <1>8 DEF SettleFinish, AuthInv, Quiescent, thread, Applying, Acquired, Owner
  <2>2. /\ SettledEnding(r) \in Endings
        /\ SettledEnding(r) = "failed" => mutation[r] = "not_written"
    BY DEF SettledEnding
  <2>3. QED
    BY <1>8, <2>1, <2>2, WindowEnd DEF SettleFinish, Interrupted, world
<1>9. CASE Crash
  BY <1>9 DEF Crash, rows, world, WindowInv, TypeInv, TypeOK, AppliersHold,
              BoundaryKnown, RowsAgree, LockCoversWindow, Applying, Acquired, Owner
<1>10. CASE Restart \/ SettleDone
  BY <1>10, WindowElsewhere DEF Restart, SettleDone, rows, world, windowRows
<1>11. ASSUME NEW t \in Targets, HostMoves(t) \/ Observe(t)
       PROVE  WindowInv'
  BY <1>11, WindowElsewhere DEF HostMoves, Observe, rows, windowRows
<1>12. QED
  BY <1>1, <1>2, <1>3, <1>4, <1>5, <1>6, <1>7, <1>8, <1>9, <1>10, <1>11
  DEF Next, SettleStep

\* The invariants a lock argument rests on hold together.
LEMMA WindowHolds ==
    ASSUME ConcurrentApplies = FALSE
    PROVE  Spec => [](TypeInv /\ AuthInv /\ WindowInv)
<1>1. Init => TypeInv /\ AuthInv /\ WindowInv
  BY InitTypeOK, InitJobIsRun, InitGotFits, InitAuthInv, InitWindowInv DEF TypeInv
<1>2. TypeInv /\ AuthInv /\ WindowInv /\ [Next]_vars => (TypeInv /\ AuthInv /\ WindowInv)'
  BY TypeOKStep, JobIsRunStep, GotFitsStep, AuthInvStep, WindowInvStep DEF TypeInv
<1>3. QED
  BY <1>1, <1>2, PTL DEF Spec

\* While clients wait for their applies, every Run past the boundary, and every
\* Run whose ending could not prove the host, holds its target's write lock,
\* whatever crashes, refusals and settlements come between (_acquire, _finish).
THEOREM LockIsHeld ==
    ASSUME ConcurrentApplies = FALSE
    PROVE  Spec => []LockCoversWindow
<1>1. WindowInv => LockCoversWindow
  BY DEF WindowInv
<1>2. QED
  BY <1>1, WindowHolds, PTL

\* ... and so two Runs never change one object and aspect at the same time, the
\* property 0007_write_boundary.sql gives as the lock's purpose. EngineSecondApply
\* shows that the assumption is needed.
THEOREM MutationIsExclusive ==
    ASSUME ConcurrentApplies = FALSE
    PROVE  Spec => []ExclusiveMutation
<1>1. LockCoversWindow => ExclusiveMutation
  BY DEF LockCoversWindow, ExclusiveMutation
<1>2. QED
  BY <1>1, LockIsHeld, PTL

\* A Run that ended `failed` or `cancelled` never touched the host and never will
\* (PrepareFails, _finish, settle_interrupted, RunService.cancel).
THEOREM FailuresAreHarmless ==
    ASSUME ConcurrentApplies = FALSE
    PROVE  Spec => []FailureTouchedNothing
<1>1. TypeInv /\ AuthInv /\ WindowInv => FailureTouchedNothing
  <2>1. SUFFICES ASSUME TypeInv, AuthInv, WindowInv, NEW r \in Runs,
                        state[r] \in {"failed", "cancelled"}
                 PROVE  call[r] \in {"idle", "not_written"}
    BY DEF FailureTouchedNothing
  <2>2. CASE result[r] = "none"
    BY <2>1, <2>2 DEF WindowInv, RowsAgree, AuthInv, Ledger
  <2>3. CASE result[r] = "failed"
    BY <2>1, <2>3 DEF WindowInv, RowsAgree, AuthInv, OutcomeIsTruthful
  <2>4. QED
    BY <2>1, <2>2, <2>3 DEF WindowInv, RowsAgree
<1>2. QED
  BY <1>1, WindowHolds, PTL

-----------------------------------------------------------------------------
(* Endings and the promise. The invariant adds to WindowInv what _finish   *)
(* may rely on when the store looks at the rows it writes.                 *)

\* A Run whose row says it succeeded or was rolled back has a Change that says so.
EndedTogether ==
    \A r \in Runs : state[r] \in {"succeeded", "rolled_back"} => result[r] = state[r]

\* A Run holds no lock but its own target's, and none after a proven ending.
LocksFit ==
    \A t \in Targets :
        lock[t] # NoRun =>
            /\ Target[lock[t]] = t
            /\ result[lock[t]] \in {"none", "in_flight", "recovery_required"}
            /\ result[lock[t]] = "recovery_required" => state[lock[t]] = "recovery_required"

\* The Run's host effect is the one its Change's outcome allows.
EffectFits ==
    \A r \in Runs :
        /\ effect[r] = HostEffectFor(mutation[r])
        /\ result[r] = "none" => mutation[r] = "undispatched"

\* Past the marker: where the handler stands says what it has recorded, and that
\* a request it does not know to be refused did leave.
Written   == {"verify", "vread", "vresult", "succeeded"}
Unproven  == {"rollback", "rbread", "rbmark", "rbmutate", "rbwait", "rbresult",
              "rbverify", "rbvread", "rbvresult", "rolled_back", "recovery_required"}

FitsAt(q) ==
    LET r == job[q] IN
    /\ pc[q] \in {"dispatch", "mutate", "wait", "settle"} => state[r] = "applying"
    /\ pc[q] \in Written => mutation[r] = "written"
    /\ pc[q] \in Unproven => mutation[r] \in {"written", "write_unknown"}
    /\ pc[q] = "succeeded" => verification[r] = "verified"
    /\ pc[q] = "rolled_back" => restored[r] = "verified"
    /\ pc[q] \in {"wait"} \cup Written \cup Unproven => call[r] # "idle"
    /\ pc[q] = "settle" /\ got[q] # "not_written" => call[r] # "idle"

HandlerFits == \A q \in Requests : FitsAt(q)

\* While the backend serves, every Change in flight has a handler at work on it.
Served ==
    phase = "up" =>
        \A r \in Runs : result[r] = "in_flight" =>
            \E q \in Requests : job[q] = r /\ pc[q] \in Owner \ {"prepare", "cross"}

EndInv == EndedTogether /\ LocksFit /\ EffectFits /\ HandlerFits /\ Served

LEMMA InitEndInv == Init => EndInv
  BY EngineAssumption
  DEF Init, EndInv, EndedTogether, LocksFit, EffectFits, HandlerFits, FitsAt, Served, HostEffectFor,
      Written, Unproven

\* A handler's step leaves the other handlers where they are.
LEMMA HandlesOne ==
    ASSUME TypeInv, NEW q \in Requests, Handle(q)
    PROVE  /\ pc[q] # "idle" /\ job[q] \in Runs /\ phase' = phase
           /\ job'[q] # job[q] => pc'[q] = "idle"
           /\ \A p \in Requests : p # q =>
                 pc'[p] = pc[p] /\ job'[p] = job[p] /\ got'[p] = got[p]
<1> USE DEF TypeInv, TypeOK, JobIsRun
<1>1. CASE \/ Confirm(q) \/ Override(q) \/ Refuse(q) \/ PrepareFails(q)
           \/ Finish(q) \/ StoreRefuses(q)
  BY <1>1 DEF Confirm, Override, Refuse, PrepareFails, Finish, StoreRefuses, Return
<1>2. CASE \/ Plan(q) \/ AwaitConfirmation(q) \/ Consume(q) \/ ConsumeRefuses(q)
           \/ Prepare(q) \/ Cross(q) \/ Dispatch(q) \/ Send(q) \/ Settle(q)
  BY <1>2 DEF Plan, AwaitConfirmation, Consume, ConsumeRefuses, Prepare, Cross, Dispatch,
              Send, Settle, MoveState, Goto
<1>3. CASE NotSent(q) \/ Answer(q) \/ RollBackAnswer(q) \/ RollBackRead(q) \/ RollBackSend(q)
  BY <1>3 DEF NotSent, Answer, RollBackAnswer, RollBackRead, RollBackSend, Hold, Goto
<1>4. CASE VerifyRead(q) \/ RollBackVerifyRead(q)
  BY <1>4 DEF VerifyRead, RollBackVerifyRead, ReadBack, Hold
<1>5. CASE \/ VerifyStart(q) \/ VerifyResult(q) \/ RollBack(q) \/ RollBackMark(q)
           \/ RollBackResult(q) \/ RollBackVerifyStart(q) \/ RollBackVerifyResult(q)
  BY <1>5 DEF VerifyStart, VerifyResult, RollBack, RollBackMark, RollBackResult,
              RollBackVerifyStart, RollBackVerifyResult, MoveState, Goto
<1>6. QED
  BY <1>1, <1>2, <1>3, <1>4, <1>5 DEF Handle
-----------------------------------------------------------------------------
(* What one step of a handler does to the rows the promise is about. *)

\* It leaves them and the request as they are,
RowsStand == UNCHANGED <<state, result, lock, call>>

\* or moves the Run on (a _step that commits no ending),
RunMoves(q) ==
    /\ pc[q] \in {"awaiting", "consume", "verify", "rollback", "rbverify"}
    /\ state[job[q]] # "cancelled"
    /\ \E st \in {"awaiting_confirmation", "arming", "verifying", "rolling_back",
                   "rollback_verifying"} : state' = [state EXCEPT ![job[q]] = st]
    /\ UNCHANGED <<result, lock, call>>

\* or takes it across the boundary (_cross),
Crosses(q) ==
    /\ pc[q] = "cross"
    /\ state[job[q]] # "cancelled"
    /\ state' = [state EXCEPT ![job[q]] = "applying"]
    /\ result' = [result EXCEPT ![job[q]] = "in_flight"]
    /\ UNCHANGED <<lock, call>>

\* or gives up before it: the refusal handler, or a failed preparation.
GivesUp(q) ==
    /\ \/ pc[q] = "refuse" /\ UNCHANGED state
       \/ /\ pc[q] = "prepare"
          /\ state[job[q]] # "cancelled"
          /\ state' = [state EXCEPT ![job[q]] = "failed"]
    /\ lock' = Released(job[q])
    /\ UNCHANGED <<result, call>>

LEMMA HandlerSteps ==
    ASSUME TypeInv, NEW q \in Requests, Handle(q)
    PROVE  \/ RowsStand \/ RunMoves(q) \/ Crosses(q) \/ GivesUp(q)
           \/ Send(q) \/ Finish(q)
<1> USE DEF rows, world
<1>1. CASE \/ Confirm(q) \/ Override(q) \/ Plan(q) \/ ConsumeRefuses(q) \/ Prepare(q)
           \/ Dispatch(q) \/ NotSent(q) \/ Answer(q) \/ Settle(q) \/ VerifyRead(q)
           \/ VerifyResult(q) \/ RollBackRead(q) \/ RollBackMark(q) \/ RollBackSend(q)
           \/ RollBackAnswer(q) \/ RollBackResult(q) \/ RollBackVerifyRead(q)
           \/ RollBackVerifyResult(q) \/ StoreRefuses(q)
  BY <1>1
  DEF RowsStand, Confirm, Override, Plan, ConsumeRefuses, Prepare, Dispatch, NotSent, Answer,
      Settle, VerifyRead, VerifyResult, RollBackRead, RollBackMark, RollBackSend,
      RollBackAnswer, RollBackResult, RollBackVerifyRead, RollBackVerifyResult,
      StoreRefuses, ReadBack
<1>2. CASE \/ AwaitConfirmation(q) \/ VerifyStart(q) \/ RollBack(q)
           \/ RollBackVerifyStart(q)
  <2>1. /\ pc[q] \in {"awaiting", "verify", "rollback", "rbverify"}
        /\ StoreAccepts(q) /\ state' = [state EXCEPT ![job[q]] = StepTo(pc[q])]
        /\ UNCHANGED <<result, lock, call>>
    BY <1>2 DEF AwaitConfirmation, VerifyStart, RollBack, RollBackVerifyStart, MoveState
  <2>2. StepTo(pc[q]) \in {"awaiting_confirmation", "verifying", "rolling_back",
                           "rollback_verifying"}
    BY <2>1 DEF StepTo
  <2>3. state[job[q]] # "cancelled"
    BY <2>1, <2>2 DEF StoreAccepts, RunRowAllowed
  <2>4. QED
    BY <2>1, <2>2, <2>3 DEF RunMoves
<1>3. CASE Consume(q)
  <2>1. CASE job[q] \in Fields
    BY <1>3, <2>1 DEF Consume, StoreAccepts, RunRowAllowed, RunMoves
  <2>2. CASE job[q] \notin Fields
    BY <1>3, <2>2 DEF Consume, RowsStand, TypeInv, TypeOK
  <2>3. QED
    BY <2>1, <2>2
<1>4. CASE Cross(q)
  BY <1>4 DEF Cross, MoveState, StoreAccepts, RunRowAllowed, StepTo, Crosses
<1>5. CASE Refuse(q)
  BY <1>5 DEF Refuse, GivesUp
<1>6. CASE PrepareFails(q)
  BY <1>6 DEF PrepareFails, StoreAccepts, RunRowAllowed, GivesUp
<1>7. CASE Send(q) \/ Finish(q)
  BY <1>7
<1>8. QED
  BY <1>1, <1>2, <1>3, <1>4, <1>5, <1>6, <1>7 DEF Handle

\* Before the boundary, and while a Change is in flight, no ending is on the row.
LEMMA OpenRows ==
    ASSUME TypeInv, WindowInv, EndInv, NEW q \in Requests, pc[q] \in Applying
    PROVE  /\ job[q] \in Runs /\ lock[Target[job[q]]] = job[q]
           /\ result[job[q]] \in {"none", "in_flight"}
           /\ state[job[q]] \notin Endings
           /\ result[job[q]] = "in_flight" => state[job[q]] # "cancelled"
           /\ pc[q] \in Owner \ {"prepare", "cross"} <=> result[job[q]] = "in_flight"
  BY DEF TypeInv, TypeOK, JobIsRun, WindowInv, AppliersHold, BoundaryKnown, RowsAgree, EndInv,
         EndedTogether, Applying, Acquired, Owner
-----------------------------------------------------------------------------
(* The invariant is inductive *)

LEMMA EndedTogetherStep ==
    ASSUME TypeInv, WindowInv, EndInv, [Next]_vars
    PROVE  EndedTogether'
<1> USE DEF TypeInv, TypeOK, EndInv, EndedTogether, rows
<1>1. CASE UNCHANGED <<state, result>>
  BY <1>1
<1>2. ASSUME NEW q \in Requests, Handle(q)
      PROVE  EndedTogether'
  <2>1. CASE RunMoves(q)
    BY <2>1 DEF RunMoves
  <2>2. CASE Crosses(q)
    BY <2>2 DEF Crosses
  <2>3. CASE GivesUp(q)
    BY <2>3 DEF GivesUp
  <2>4. CASE Finish(q)
    BY <2>4 DEF Finish, End
  <2>5. QED
    BY <1>1, <1>2, <2>1, <2>2, <2>3, <2>4, HandlerSteps DEF RowsStand, Send
<1>3. ASSUME NEW r \in Runs, Create(r) \/ Cancel(r)
      PROVE  EndedTogether'
  BY <1>3 DEF Create, Cancel
<1>4. ASSUME NEW r \in Runs, SettleFinish(r)
      PROVE  EndedTogether'
  BY <1>4 DEF SettleFinish, End
<1>5. QED
  BY <1>1, <1>2, <1>3, <1>4
  DEF Next, vars, SettleStep, ConfirmBegin, OverrideBegin, Acquire, Land, RollBackLand,
      SettleOutcome, SettleDone, Crash, Restart, HostMoves, Observe

LEMMA LocksFitStep ==
    ASSUME TypeInv, WindowInv, EndInv, [Next]_vars
    PROVE  LocksFit'
<1> USE DEF TypeInv, TypeOK, EndInv, LocksFit, rows
<1>1. CASE UNCHANGED <<state, result, lock>>
  BY <1>1
<1>2. ASSUME NEW q \in Requests, Handle(q)
      PROVE  LocksFit'
  <2>0. job[q] \in Runs
    BY <1>2, HandlesOne
  <2>1. CASE RunMoves(q)
    BY <2>0, <2>1, OpenRows DEF RunMoves, Applying, Acquired, Owner
  <2>2. CASE Crosses(q)
    BY <2>0, <2>2 DEF Crosses
  <2>3. CASE GivesUp(q)
    BY <2>0, <2>3 DEF GivesUp, Released
  <2>4. CASE Finish(q)
    BY <2>0, <2>4 DEF Finish, End, Released
  <2>5. QED
    BY <1>1, <1>2, <2>1, <2>2, <2>3, <2>4, HandlerSteps DEF RowsStand, Send
<1>3. ASSUME NEW q \in Requests, NEW r \in Runs, Acquire(q, r)
      PROVE  LocksFit'
  <2>1. result[r] = "none"
    BY <1>3 DEF Acquire, Arrive, WindowInv, RowsAgree
  <2>2. QED
    BY <1>3, <2>1, EngineAssumption DEF Acquire
<1>4. ASSUME NEW r \in Runs, Create(r) \/ Cancel(r)
      PROVE  LocksFit'
  <2>1. result[r] = "none"
    BY <1>4 DEF Create, Cancel, WindowInv, RowsAgree
  <2>2. QED
    BY <1>4, <2>1 DEF Create, Cancel
<1>5. ASSUME NEW r \in Runs, SettleFinish(r)
      PROVE  LocksFit'
  BY <1>5 DEF SettleFinish, End, Released, SettledEnding
<1>6. QED
  BY <1>1, <1>2, <1>3, <1>4, <1>5
  DEF Next, vars, SettleStep, ConfirmBegin, OverrideBegin, Land, RollBackLand,
      SettleOutcome, SettleDone, Crash, Restart, HostMoves, Observe

LEMMA EffectFitsStep ==
    ASSUME TypeInv, AuthInv, WindowInv, EndInv, [Next]_vars
    PROVE  EffectFits'
<1> USE DEF TypeInv, TypeOK, EndInv, EffectFits, rows
<1>1. CASE UNCHANGED <<effect, result, mutation>>
  BY <1>1
<1>2. ASSUME NEW q \in Requests, Handle(q)
      PROVE  EffectFits'
  <2>0. job[q] \in Runs
    BY <1>2, HandlesOne
  <2>1. CASE PrepareFails(q)
    BY <2>0, <2>1, OpenRows DEF PrepareFails, Applying, Acquired, Owner, HostEffectFor
  <2>2. CASE Cross(q)
    BY <2>0, <2>2 DEF Cross, AuthInv, Stage
  <2>3. CASE Dispatch(q)
    BY <2>0, <2>3, OpenRows DEF Dispatch, AuthInv, Stage, Applying, Acquired, Owner, HostEffectFor
  <2>4. CASE Settle(q)
    BY <2>0, <2>4, OpenRows DEF Settle, Applying, Acquired, Owner
  <2>5. CASE Finish(q)
    BY <2>0, <2>5 DEF Finish, End
  <2>6. QED
    BY <1>1, <1>2, <2>1, <2>2, <2>3, <2>4, <2>5
    DEF Handle, Confirm, Override, Plan, AwaitConfirmation, Consume, ConsumeRefuses, Refuse,
        Prepare, Send, NotSent, Answer, VerifyStart, VerifyRead, VerifyResult, RollBack,
        RollBackRead, RollBackMark, RollBackSend, RollBackAnswer, RollBackResult,
        RollBackVerifyStart, RollBackVerifyRead, RollBackVerifyResult, StoreRefuses, ReadBack
<1>3. ASSUME NEW r \in Runs, SettleOutcome(r)
      PROVE  EffectFits'
  BY <1>3 DEF SettleOutcome, Interrupted
<1>4. ASSUME NEW r \in Runs, SettleFinish(r)
      PROVE  EffectFits'
  BY <1>4 DEF SettleFinish, End, Interrupted, SettledEnding
<1>5. QED
  BY <1>1, <1>2, <1>3, <1>4
  DEF Next, vars, SettleStep, ConfirmBegin, OverrideBegin, Acquire, Create, Cancel, Land,
      RollBackLand, SettleDone, Crash, Restart, HostMoves, Observe
\* The handler that takes a step fits the rows it leaves.
LEMMA OwnStepFits ==
    ASSUME TypeInv, AuthInv, WindowInv, EndInv, NEW q \in Requests, Handle(q)
    PROVE  FitsAt(q)'
<1> USE DEF TypeInv, TypeOK, JobIsRun, EndInv, HandlerFits, FitsAt, Written, Unproven, rows,
            world
<1>0. job[q] \in Runs
  BY HandlesOne
<1>1. CASE \/ Confirm(q) \/ Override(q) \/ Refuse(q) \/ PrepareFails(q)
           \/ Finish(q) \/ StoreRefuses(q)
  BY <1>1 DEF Confirm, Override, Refuse, PrepareFails, Finish, StoreRefuses, Return
<1>2. CASE \/ Plan(q) \/ AwaitConfirmation(q) \/ Consume(q) \/ ConsumeRefuses(q)
           \/ Prepare(q)
  BY <1>2 DEF Plan, AwaitConfirmation, Consume, ConsumeRefuses, Prepare, MoveState, Goto
<1>3. CASE Cross(q)
  BY <1>0, <1>3 DEF Cross, MoveState, StepTo, Goto
<1>4. CASE Dispatch(q)
  BY <1>0, <1>4 DEF Dispatch, Goto
<1>5. CASE Send(q)
  BY <1>0, <1>5 DEF Send, Goto
<1>6. CASE NotSent(q) \/ Answer(q)
  BY <1>0, <1>6 DEF NotSent, Answer, Hold
<1>7. CASE Settle(q)
  BY <1>0, <1>7 DEF Settle, AfterSettle, Goto, GotFits, MutationOutcomes
<1>8. CASE VerifyStart(q) \/ RollBack(q) \/ RollBackVerifyStart(q)
  BY <1>0, <1>8 DEF VerifyStart, RollBack, RollBackVerifyStart, MoveState, Goto
<1>9. CASE VerifyRead(q) \/ RollBackVerifyRead(q)
  BY <1>0, <1>9 DEF VerifyRead, RollBackVerifyRead, ReadBack, Hold
<1>10. CASE VerifyResult(q) \/ RollBackVerifyResult(q)
  BY <1>0, <1>10 DEF VerifyResult, RollBackVerifyResult, Goto
<1>11. CASE \/ RollBackRead(q) \/ RollBackMark(q) \/ RollBackSend(q) \/ RollBackAnswer(q)
            \/ RollBackResult(q)
  BY <1>0, <1>11 DEF RollBackRead, RollBackMark, RollBackSend, RollBackAnswer, RollBackResult,
                     Hold, Goto
<1>12. QED
  BY <1>1, <1>2, <1>3, <1>4, <1>5, <1>6, <1>7, <1>8, <1>9, <1>10, <1>11 DEF Handle

\* A handler past the marker is alone with its Run: another one's step does not
\* touch its rows.
LEMMA OthersStand ==
    ASSUME TypeInv, WindowInv, NEW q \in Requests, Handle(q),
           NEW r \in Runs, r # job[q]
    PROVE  /\ state'[r] = state[r] /\ mutation'[r] = mutation[r] /\ call'[r] = call[r]
           /\ verification'[r] = verification[r] /\ restored'[r] = restored[r]
<1> USE DEF TypeInv, TypeOK, rows, world
<1>1. CASE \/ Confirm(q) \/ Override(q) \/ Refuse(q) \/ PrepareFails(q)
           \/ Finish(q) \/ StoreRefuses(q)
  BY <1>1 DEF Confirm, Override, Refuse, PrepareFails, Finish, StoreRefuses, End
<1>2. CASE \/ Plan(q) \/ AwaitConfirmation(q) \/ Consume(q) \/ ConsumeRefuses(q)
           \/ Prepare(q) \/ Cross(q) \/ Dispatch(q) \/ Send(q) \/ NotSent(q) \/ Answer(q)
           \/ Settle(q)
  BY <1>2 DEF Plan, AwaitConfirmation, Consume, ConsumeRefuses, Prepare, Cross, Dispatch,
              Send, NotSent, Answer, Settle, MoveState
<1>3. CASE \/ VerifyStart(q) \/ VerifyRead(q) \/ VerifyResult(q) \/ RollBack(q)
           \/ RollBackRead(q) \/ RollBackMark(q) \/ RollBackSend(q) \/ RollBackAnswer(q)
           \/ RollBackResult(q) \/ RollBackVerifyStart(q) \/ RollBackVerifyRead(q)
           \/ RollBackVerifyResult(q)
  BY <1>3 DEF VerifyStart, VerifyRead, VerifyResult, RollBack, RollBackRead, RollBackMark,
              RollBackSend, RollBackAnswer, RollBackResult, RollBackVerifyStart,
              RollBackVerifyRead, RollBackVerifyResult, MoveState, ReadBack
<1>4. QED
  BY <1>1, <1>2, <1>3 DEF Handle

LEMMA HandlerFitsStep ==
    ASSUME TypeInv, AuthInv, WindowInv, EndInv, [Next]_vars
    PROVE  HandlerFits'
<1> USE DEF EndInv, HandlerFits, Written, Unproven
<1>1. CASE UNCHANGED <<pc, job, got, state, mutation, verification, restored, call>>
  BY <1>1 DEF FitsAt
<1>2. ASSUME NEW q \in Requests, Handle(q)
      PROVE  HandlerFits'
  <2>1. SUFFICES ASSUME NEW p \in Requests, p # q
                 PROVE  FitsAt(p)'
    BY <1>2, OwnStepFits
  <2>2. pc'[p] = pc[p] /\ job'[p] = job[p] /\ got'[p] = got[p]
    BY <1>2, <2>1, HandlesOne
  <2>3. CASE pc[p] \notin Owner
    BY <2>2, <2>3 DEF FitsAt, Owner
  <2>4. CASE pc[p] \in Owner /\ pc[q] \notin Applying
    BY <1>2, <2>2, <2>4
    DEF Handle, Confirm, Override, StoreRefuses, StoreAccepts, FitsAt, rows, world, Applying,
        Acquired, Owner, Plan, AwaitConfirmation, Consume, ConsumeRefuses, Prepare, Cross,
        Dispatch, Send, NotSent, Answer, Settle, Refuse, PrepareFails, Finish, VerifyStart,
        VerifyRead, VerifyResult, RollBack, RollBackRead, RollBackMark, RollBackSend,
        RollBackAnswer, RollBackResult, RollBackVerifyStart, RollBackVerifyRead,
        RollBackVerifyResult
  <2>5. CASE pc[p] \in Owner /\ pc[q] \in Applying
    <3>1. job[p] \in Runs /\ job[p] # job[q]
      BY <2>1, <2>5, OpenRows DEF WindowInv, AppliersHold, Applying
    <3>2. QED
      BY <1>2, <2>2, <3>1, OthersStand DEF FitsAt
  <2>6. QED
    BY <2>3, <2>4, <2>5
<1>3. ASSUME NEW q \in Requests, NEW r \in Runs,
             ConfirmBegin(q, r) \/ OverrideBegin(q, r) \/ Acquire(q, r)
      PROVE  HandlerFits'
  BY <1>3 DEF ConfirmBegin, OverrideBegin, Acquire, Arrive, FitsAt, rows, world, TypeInv,
              TypeOK
<1>4. ASSUME NEW r \in Runs, Create(r) \/ Cancel(r)
      PROVE  HandlerFits'
  BY <1>4 DEF Create, Cancel, Appliable, FitsAt, world, thread, TypeInv, TypeOK, JobIsRun
<1>5. ASSUME NEW r \in Runs, Land(r)
      PROVE  HandlerFits'
  BY <1>5 DEF Land, FitsAt, rows, thread, TypeInv, TypeOK, JobIsRun
<1>6. ASSUME NEW r \in Runs, SettleOutcome(r) \/ SettleFinish(r)
      PROVE  HandlerFits'
  BY <1>6 DEF SettleOutcome, SettleFinish, AuthInv, Quiescent, FitsAt, thread
<1>7. CASE Crash
  BY <1>7 DEF Crash, FitsAt
<1>8. QED
  BY <1>1, <1>2, <1>3, <1>4, <1>5, <1>6, <1>7
  DEF Next, vars, SettleStep, RollBackLand, SettleDone, Restart, HostMoves, Observe, rows,
      world, thread
\* Past the boundary no CHECK stands in the way of the handler's next commit.
LEMMA StoreTakesIt ==
    ASSUME TypeInv, WindowInv, EndInv, NEW q \in Requests,
           pc[q] \in Owner \ {"prepare", "cross"}
    PROVE  StoreAccepts(q)
<1>1. /\ job[q] \in Runs /\ FitsAt(q)
      /\ state[job[q]] # "cancelled"
      /\ effect[job[q]] = HostEffectFor(mutation[job[q]])
      /\ pc[q] = "failed" => mutation[job[q]] = "not_written"
  BY OpenRows DEF EndInv, HandlerFits, EffectFits, WindowInv, BoundaryKnown, Applying
<1>2. CASE pc[q] \in {"dispatch", "mutate", "wait", "vread", "vresult", "rbread", "rbmark",
                      "rbmutate", "rbwait", "rbresult", "rbvread", "rbvresult"}
  BY <1>2 DEF StoreAccepts
<1>3. CASE pc[q] = "settle"
  BY <1>1, <1>3 DEF StoreAccepts, FitsAt, RunRowAllowed, Effectful
<1>4. CASE pc[q] \in {"verify", "rollback", "rbverify"}
  BY <1>1, <1>4 DEF StoreAccepts, StepTo, FitsAt, RunRowAllowed, Effectful
<1>5. CASE pc[q] \in Endings
  BY <1>1, <1>5 DEF StoreAccepts, FitsAt, Written, Unproven, RunRowAllowed, ChangeRowAllowed,
                    Effectful, HostEffectFor
<1>6. QED
  BY <1>2, <1>3, <1>4, <1>5 DEF Owner

\* A handler past the boundary stays at work until it ends its Change.
LEMMA AtWork ==
    ASSUME TypeInv, WindowInv, EndInv, NEW q \in Requests, Handle(q),
           pc[q] \in Owner \ {"prepare", "cross"}
    PROVE  \/ job'[q] = job[q] /\ pc'[q] \in Owner \ {"prepare", "cross"}
           \/ Finish(q)
<1> USE DEF TypeInv, TypeOK, Owner
<1>1. ~StoreRefuses(q)
  BY StoreTakesIt DEF StoreRefuses
<1>2. CASE \/ Dispatch(q) \/ Send(q) \/ NotSent(q) \/ Answer(q)
  BY <1>2 DEF Dispatch, Send, NotSent, Answer, Goto, Hold
<1>3. CASE Settle(q)
  BY <1>3 DEF Settle, AfterSettle, Goto
<1>4. CASE VerifyStart(q) \/ RollBack(q) \/ RollBackVerifyStart(q)
  BY <1>4 DEF VerifyStart, RollBack, RollBackVerifyStart, MoveState, Goto
<1>5. CASE VerifyRead(q) \/ RollBackVerifyRead(q)
  BY <1>5 DEF VerifyRead, RollBackVerifyRead, ReadBack, Hold
<1>6. CASE VerifyResult(q) \/ RollBackVerifyResult(q)
  BY <1>6 DEF VerifyResult, RollBackVerifyResult, Goto
<1>7. CASE \/ RollBackRead(q) \/ RollBackMark(q) \/ RollBackSend(q) \/ RollBackAnswer(q)
           \/ RollBackResult(q)
  BY <1>7 DEF RollBackRead, RollBackMark, RollBackSend, RollBackAnswer, RollBackResult, Hold,
              Goto
<1>8. QED
  BY <1>1, <1>2, <1>3, <1>4, <1>5, <1>6, <1>7
  DEF Handle, Confirm, Override, Plan, AwaitConfirmation, Consume, ConsumeRefuses, Refuse,
      Prepare, PrepareFails, Cross

LEMMA ServedStep ==
    ASSUME TypeInv, AuthInv, WindowInv, EndInv, [Next]_vars
    PROVE  Served'
<1> USE DEF EndInv, Served, rows, thread
<1>1. CASE UNCHANGED <<pc, job, result, phase>>
  BY <1>1
<1>2. ASSUME NEW q \in Requests, Handle(q)
      PROVE  Served'
  <2>1. SUFFICES ASSUME phase = "up", NEW r \in Runs, result'[r] = "in_flight"
                 PROVE  \E p \in Requests : job'[p] = r /\ pc'[p] \in Owner \ {"prepare", "cross"}
    BY <1>2, HandlesOne
  <2>2. CASE result[r] = "in_flight"
    <3>1. PICK p \in Requests : job[p] = r /\ pc[p] \in Owner \ {"prepare", "cross"}
      BY <2>1, <2>2
    <3>2. CASE p # q
      BY <1>2, <3>1, <3>2, HandlesOne
    <3>3. CASE p = q
      BY <1>2, <2>1, <3>1, <3>3, AtWork DEF Finish, End, TypeInv, TypeOK
    <3>4. QED
      BY <3>2, <3>3
  <2>3. CASE result[r] # "in_flight"
    <3>1. Cross(q) /\ job[q] = r
      BY <1>2, <2>1, <2>3
      DEF Handle, Confirm, Override, Plan, AwaitConfirmation, Consume, ConsumeRefuses, Refuse,
          Prepare, PrepareFails, Cross, Dispatch, Send, NotSent, Answer, Settle, VerifyStart,
          VerifyRead, VerifyResult, RollBack, RollBackRead, RollBackMark, RollBackSend,
          RollBackAnswer, RollBackResult, RollBackVerifyStart, RollBackVerifyRead,
          RollBackVerifyResult, ReadBack, Finish, End, StoreRefuses, TypeInv, TypeOK
    <3>2. QED
      BY <3>1 DEF Cross, MoveState, Goto, Owner, TypeInv, TypeOK
  <2>4. QED
    BY <2>2, <2>3
<1>3. ASSUME NEW q \in Requests, NEW r \in Runs,
             ConfirmBegin(q, r) \/ OverrideBegin(q, r) \/ Acquire(q, r)
      PROVE  Served'
  BY <1>3 DEF ConfirmBegin, OverrideBegin, Acquire, Arrive, Owner, TypeInv, TypeOK
<1>4. CASE Crash \/ Restart \/ SettleDone
  BY <1>4 DEF Crash, Restart, SettleDone, Interrupted
<1>5. ASSUME NEW r \in Runs, SettleOutcome(r) \/ SettleFinish(r)
      PROVE  Served'
  BY <1>5 DEF SettleOutcome, SettleFinish
<1>6. QED
  BY <1>1, <1>2, <1>3, <1>4, <1>5
  DEF Next, vars, SettleStep, Create, Cancel, Land, RollBackLand, HostMoves, Observe

\* The invariants of the engine, all together.
Inv == TypeInv /\ AuthInv /\ WindowInv /\ EndInv

LEMMA InvHolds ==
    ASSUME ConcurrentApplies = FALSE
    PROVE  Spec => []Inv
<1>1. Init => Inv
  BY InitTypeOK, InitJobIsRun, InitGotFits, InitAuthInv, InitWindowInv, InitEndInv
  DEF Inv, TypeInv
<1>2. Inv /\ [Next]_vars => Inv'
  BY TypeOKStep, JobIsRunStep, GotFitsStep, AuthInvStep, WindowInvStep, EndedTogetherStep,
     LocksFitStep, EffectFitsStep, HandlerFitsStep, ServedStep
  DEF Inv, TypeInv, EndInv
<1>3. QED
  BY <1>1, <1>2, PTL DEF Spec

-----------------------------------------------------------------------------
(* Endings are final, and no crossed Run's lock is forgotten *)

LEMMA EndedStaysEndedStep ==
    ASSUME Inv, [Next]_vars
    PROVE  \A r \in Runs : state[r] \in Endings \cup {"cancelled"} => state'[r] = state[r]
<1> USE DEF Inv, TypeInv, TypeOK, rows
<1>1. CASE UNCHANGED state
  BY <1>1
<1>2. ASSUME NEW q \in Requests, Handle(q)
      PROVE  \A r \in Runs : state[r] \in Endings \cup {"cancelled"} => state'[r] = state[r]
  <2>1. CASE RunMoves(q) \/ Crosses(q) \/ GivesUp(q) \/ Finish(q)
    <3>1. pc[q] \in Applying
      BY <2>1 DEF RunMoves, Crosses, GivesUp, Finish, Applying, Acquired, Owner
    <3>2. state[job[q]] \notin Endings
      BY <3>1, OpenRows
    <3>3. CASE RunMoves(q) \/ Crosses(q) \/ GivesUp(q)
      BY <3>2, <3>3 DEF RunMoves, Crosses, GivesUp
    <3>4. CASE Finish(q)
      <4>1. state[job[q]] # "cancelled"
        BY <3>1, <3>4, OpenRows DEF Finish, Owner
      <4>2. QED
        BY <3>2, <3>4, <4>1 DEF Finish, End
    <3>5. QED
      BY <2>1, <3>3, <3>4
  <2>2. QED
    BY <1>1, <1>2, <2>1, HandlerSteps DEF RowsStand, Send
<1>3. ASSUME NEW r \in Runs, Create(r) \/ Cancel(r)
      PROVE  \A s \in Runs : state[s] \in Endings \cup {"cancelled"} => state'[s] = state[s]
  BY <1>3 DEF Create, Cancel, Appliable
<1>4. ASSUME NEW r \in Runs, SettleFinish(r)
      PROVE  \A s \in Runs : state[s] \in Endings \cup {"cancelled"} => state'[s] = state[s]
  BY <1>4 DEF SettleFinish, Interrupted, End, WindowInv, RowsAgree, EndInv, EndedTogether
<1>5. QED
  BY <1>1, <1>2, <1>3, <1>4
  DEF Next, vars, SettleStep, ConfirmBegin, OverrideBegin, Acquire, Land, RollBackLand,
      SettleOutcome, SettleDone, Crash, Restart, HostMoves, Observe

\* TERMINAL_RUN_STATES are terminal: no stale step of a handler, no cancel and no
\* settlement takes a Run out of its ending.
THEOREM EndingsAreFinal ==
    ASSUME ConcurrentApplies = FALSE
    PROVE  Spec => EndedStaysEnded
<1>1. Inv /\ [Next]_vars
      => [\A r \in Runs :
             state[r] \in Endings \cup {"cancelled"} => state'[r] = state[r]]_vars
  BY EndedStaysEndedStep
<1>2. QED
  BY <1>1, InvHolds, PTL DEF Spec, EndedStaysEnded

\* A lock nobody works under is a recovery hold, or was taken by a Run that never
\* crossed the boundary: after a crash, startup leaves no other (_acquire, _finish,
\* settle_interrupted).
THEOREM NoLockIsForgotten ==
    ASSUME ConcurrentApplies = FALSE
    PROVE  Spec => []IdleLockIsBeforeBoundary
<1>1. Inv => IdleLockIsBeforeBoundary
  <2>1. SUFFICES ASSUME Inv, NEW t \in Targets, phase = "up", lock[t] # NoRun,
                        \A q \in Requests : job[q] # lock[t],
                        state[lock[t]] # "recovery_required"
                 PROVE  result[lock[t]] = "none" /\ sends[lock[t]] = 0
    BY DEF IdleLockIsBeforeBoundary
  <2>2. lock[t] \in Runs
    BY <2>1 DEF Inv, TypeInv, TypeOK
  <2>3. result[lock[t]] = "none"
    BY <2>1, <2>2 DEF Inv, EndInv, LocksFit, Served
  <2>4. QED
    BY <2>1, <2>2, <2>3 DEF Inv, WindowInv, RowsAgree
<1>2. QED
  BY <1>1, InvHolds, PTL
-----------------------------------------------------------------------------
(* The refinement *)

told == [r \in Runs |-> Told(r)]

\* A step that touches the rows of one Run only changes what is told of that Run.
LEMMA ToldOf ==
    ASSUME NEW r \in Runs, NEW new,
           \A s \in Runs : s # r => state'[s] = state[s] /\ result'[s] = result[s],
           Told(r)' = new
    PROVE  told' = [told EXCEPT ![r] = new]
<1>1. \A s \in Runs : s # r => Told(s)' = Told(s)
  BY DEF Told
<1>2. QED
  BY <1>1 DEF told

\* A Run is open until it crosses, is cancelled or fails before it.
LEMMA ToldOpen ==
    ASSUME NEW r \in Runs, result[r] # "in_flight",
           state[r] \notin Endings \cup {"cancelled"}
    PROVE  Told(r) = "open"
  BY DEF Told

\* What a Run holds and tells while a handler applies it.
LEMMA ToldApplying ==
    ASSUME Inv, NEW q \in Requests, pc[q] \in Applying
    PROVE  /\ job[q] \in Runs /\ lock[Target[job[q]]] = job[q]
           /\ pc[q] \in Owner \ {"prepare", "cross"} => Told(job[q]) = "in_flight"
           /\ pc[q] \notin Owner \ {"prepare", "cross"} =>
                 /\ state[job[q]] = "cancelled" => Told(job[q]) = "nothing"
                 /\ state[job[q]] # "cancelled" => Told(job[q]) = "open"
  BY OpenRows DEF Inv, Told

\* Only its own target is freed when a Run's locks are released.
LEMMA ReleasedIsOwn ==
    ASSUME Inv, NEW r \in Runs
    PROVE  /\ lock[Target[r]] = r => Released(r) = [lock EXCEPT ![Target[r]] = NoRun]
           /\ \A t \in Targets : lock[t] = r => t = Target[r]
<1>1. \A t \in Targets : lock[t] = r => t = Target[r]
  BY EngineAssumption DEF Inv, EndInv, LocksFit
<1>2. lock \in [Targets -> Runs \cup {NoRun}] /\ Target[r] \in Targets
  BY EngineAssumption DEF Inv, TypeInv, TypeOK
<1>3. ASSUME lock[Target[r]] = r
      PROVE  Released(r) = [lock EXCEPT ![Target[r]] = NoRun]
  <2>1. \A t \in Targets : (lock[t] = r) = (t = Target[r])
    BY <1>1, <1>3
  <2>2. \A t \in Targets : Released(r)[t] = [lock EXCEPT ![Target[r]] = NoRun][t]
    BY <1>2, <2>1 DEF Released
  <2>3. QED
    BY <1>2, <2>2 DEF Released
<1>4. QED
  BY <1>1, <1>3

\* An ending, whether a request or startup writes it.
LEMMA EndingTells ==
    ASSUME Inv, NEW r \in Runs, NEW ending \in Endings, End(r, ending), UNCHANGED call,
           result[r] = "in_flight",
           ending = "failed" => mutation[r] = "not_written",
           ending = "succeeded" => mutation[r] = "written",
           ending = "rolled_back" => call[r] # "idle"
    PROVE  \/ Promise!TellNothing(r) \/ Promise!TellPerson(r)
           \/ \E e \in {"done", "undone"} : Promise!TellSettled(r, e)
<1> USE DEF Inv, TypeInv, TypeOK
<1>1. told[r] = "in_flight" /\ lock[Target[r]] = r
  <2>1. Told(r) = "in_flight"
    BY DEF Told, WindowInv, RowsAgree, EndInv, EndedTogether
  <2>2. lock[Target[r]] = r
    BY DEF WindowInv, LockCoversWindow
  <2>3. QED
    BY <2>1, <2>2 DEF told
<1>2. /\ mutation[r] = "not_written" => call[r] \in {"idle", "not_written"}
      /\ mutation[r] = "written" => call[r] = "written"
      /\ call[r] # "idle" => call[r] \in {"sent", "written", "not_written"}
  BY DEF AuthInv, OutcomeIsTruthful, Messages
<1>3. state'[r] = ending /\ result'[r] = ending
      /\ \A s \in Runs : s # r => state'[s] = state[s] /\ result'[s] = result[s]
  BY DEF End
<1>4. ending # "recovery_required" => lock' = [lock EXCEPT ![Target[r]] = NoRun]
  BY <1>1, ReleasedIsOwn DEF End
<1>5. CASE ending = "failed"
  <2>1. told' = [told EXCEPT ![r] = "nothing"]
    BY <1>3, <1>5, ToldOf DEF Told
  <2>2. QED
    BY <1>1, <1>2, <1>4, <1>5, <2>1 DEF Promise!TellNothing, told
<1>6. CASE ending = "succeeded"
  <2>1. told' = [told EXCEPT ![r] = "done"]
    BY <1>3, <1>6, ToldOf DEF Told
  <2>2. Promise!TellSettled(r, "done")
    BY <1>1, <1>2, <1>4, <1>6, <2>1 DEF Promise!TellSettled, told
  <2>3. QED
    BY <2>2
<1>7. CASE ending = "rolled_back"
  <2>1. told' = [told EXCEPT ![r] = "undone"]
    BY <1>3, <1>7, ToldOf DEF Told
  <2>2. Promise!TellSettled(r, "undone")
    BY <1>1, <1>2, <1>4, <1>7, <2>1 DEF Promise!TellSettled, told
  <2>3. QED
    BY <2>2
<1>8. CASE ending = "recovery_required"
  <2>1. told' = [told EXCEPT ![r] = "person"]
    BY <1>3, <1>8, ToldOf DEF Told
  <2>2. QED
    BY <1>1, <1>8, <2>1 DEF Promise!TellPerson, End, told
<1>9. QED
  BY <1>5, <1>6, <1>7, <1>8

\* Where neither the rows, the locks nor the request changed, nothing was told.
LEMMA NothingTold ==
    ASSUME UNCHANGED <<state, result, call, lock>>
    PROVE  UNCHANGED Promise!vars
  BY DEF Promise!vars, Told

\* A step of a handler is a step of the promise.
LEMMA HandlerKeepsPromise ==
    ASSUME Inv, NEW q \in Requests, Handle(q)
    PROVE  [Promise!Next]_(Promise!vars)
<1> DEFINE r == job[q]
<1> USE DEF Inv, TypeInv, TypeOK
<1>0. TypeInv /\ AuthInv /\ WindowInv /\ EndInv
  BY DEF Inv
<1>1. CASE RowsStand
  BY <1>1, NothingTold DEF RowsStand
<1>2. CASE RunMoves(q)
  <2>1. PICK run \in Runs : run = job[q] /\ state[run] # "cancelled" /\ state[run] \notin Endings
    BY <1>0, <1>2, OpenRows DEF RunMoves, Applying, Acquired, Owner
  <2>2. PICK st \in {"awaiting_confirmation", "arming", "verifying", "rolling_back",
                     "rollback_verifying"} : state' = [state EXCEPT ![run] = st]
    BY <1>2, <2>1 DEF RunMoves
  <2>3. state'[run] = st /\ UNCHANGED result
        /\ \A s \in Runs : s # run => state'[s] = state[s] /\ result'[s] = result[s]
    BY <1>2, <2>2 DEF RunMoves
  <2>4. Told(run)' = Told(run)
    <3>1. CASE result[run] = "in_flight"
      BY <2>3, <3>1 DEF Told
    <3>2. CASE result[run] # "in_flight"
      <4>1. Told(run) = "open"
        BY <2>1, <3>2, ToldOpen
      <4>2. Told(run)' = "open"
        BY <2>3, <3>2 DEF Told
      <4>3. QED
        BY <4>1, <4>2
    <3>3. QED
      BY <3>1, <3>2
  <2>5. told' = [told EXCEPT ![run] = Told(run)]
    BY <2>3, <2>4, ToldOf
  <2>6. told' = told
    BY <2>5 DEF told
  <2>7. QED
    BY <1>2, <2>6 DEF RunMoves, Promise!vars, told
<1>3. CASE Crosses(q)
  <2>1. pc[q] \in Applying /\ pc[q] \notin Owner \ {"prepare", "cross"}
    BY <1>3 DEF Crosses, Applying, Owner
  <2>2. r \in Runs /\ lock[Target[r]] = r /\ Told(r) = "open"
    BY <1>3, <2>1, ToldApplying DEF Crosses
  <2>3. told' = [told EXCEPT ![r] = "in_flight"]
    BY <1>3, <2>2, ToldOf DEF Crosses, Told
  <2>4. Promise!Begin(r)
    BY <1>3, <2>2, <2>3 DEF Promise!Begin, Crosses, told
  <2>5. QED
    BY <2>2, <2>4 DEF Promise!Next
<1>4. CASE GivesUp(q)
  <2>1. pc[q] \in Applying /\ pc[q] \notin Owner \ {"prepare", "cross"}
    BY <1>4 DEF GivesUp, Applying, Acquired, Owner
  <2>2. r \in Runs /\ lock[Target[r]] = r /\ Told(r) \in {"open", "nothing"}
        /\ (state[r] # "cancelled" => Told(r) = "open")
    BY <2>1, ToldApplying
  <2>3. lock' = [lock EXCEPT ![Target[r]] = NoRun]
    BY <1>4, <2>2, ReleasedIsOwn DEF GivesUp
  <2>4. CASE UNCHANGED state
    <3>1. told' = told
      BY <1>4, <2>4 DEF GivesUp, told, Told
    <3>2. Promise!Return(r)
      BY <1>4, <2>2, <2>3, <3>1 DEF Promise!Return, GivesUp, told
    <3>3. QED
      BY <2>2, <3>2 DEF Promise!Next
  <2>5. CASE state[r] # "cancelled" /\ state' = [state EXCEPT ![r] = "failed"]
    <3>1. result[r] = "none"
      BY <2>1, <1>0, OpenRows
    <3>2. told' = [told EXCEPT ![r] = "nothing"]
      BY <1>4, <2>2, <2>5, <3>1, ToldOf DEF GivesUp, Told
    <3>3. call[r] = "idle"
      BY <2>2, <3>1 DEF AuthInv, Ledger, WindowInv, RowsAgree
    <3>4. lock' = [t \in Targets |-> IF lock[t] = r THEN NoRun ELSE lock[t]]
      BY <1>4 DEF GivesUp, Released
    <3>5. Promise!TellNothing(r)
      BY <1>4, <2>2, <2>5, <3>2, <3>3, <3>4 DEF Promise!TellNothing, GivesUp, told
    <3>6. QED
      BY <2>2, <3>5 DEF Promise!Next
  <2>6. QED
    BY <1>4, <2>4, <2>5 DEF GivesUp
<1>5. CASE Send(q)
  <2>1. r \in Runs /\ lock[Target[r]] = r /\ Told(r) = "in_flight"
    BY <1>5, ToldApplying DEF Send, Applying, Owner
  <2>2. call[r] = "idle"
    BY <1>5, <2>1 DEF Send, AuthInv, Stage, Ledger
  <2>3. UNCHANGED <<state, result, lock>>
    BY <1>5 DEF Send, rows
  <2>4. told' = told
    BY <2>3 DEF told, Told
  <2>5. Promise!Ask(r)
    BY <1>5, <2>1, <2>2, <2>3, <2>4 DEF Promise!Ask, Send, told
  <2>6. QED
    BY <2>1, <2>5 DEF Promise!Next
<1>6. CASE Finish(q)
  <2>1. pc[q] \in Applying /\ pc[q] \in Owner \ {"prepare", "cross"}
    BY <1>6 DEF Finish, Applying, Owner
  <2>2. r \in Runs /\ result[r] = "in_flight"
    BY <2>1, <1>0, OpenRows
  <2>3. /\ pc[q] = "failed" => mutation[r] = "not_written"
        /\ pc[q] = "succeeded" => mutation[r] = "written"
        /\ pc[q] = "rolled_back" => call[r] # "idle"
    BY DEF WindowInv, BoundaryKnown, EndInv, HandlerFits, FitsAt, Written, Unproven
  <2>4. End(r, pc[q]) /\ pc[q] \in Endings /\ UNCHANGED call
    BY <1>6 DEF Finish, world
  <2>5. QED
    BY <2>2, <2>3, <2>4, EndingTells DEF Promise!Next
<1>7. QED
  BY <1>0, <1>1, <1>2, <1>3, <1>4, <1>5, <1>6, HandlerSteps

\* So is every other step: of a client, the host, a crash, or startup.
LEMMA StepKeepsPromise ==
    ASSUME Inv, [Next]_vars
    PROVE  [Promise!Next]_(Promise!vars)
<1> USE DEF Inv, TypeInv, TypeOK
<1>1. CASE UNCHANGED <<state, result, call, lock>>
  BY <1>1, NothingTold
<1>2. ASSUME NEW q \in Requests, Handle(q)
      PROVE  [Promise!Next]_(Promise!vars)
  BY <1>2, HandlerKeepsPromise
<1>3. ASSUME NEW q \in Requests, NEW r \in Runs, Acquire(q, r)
      PROVE  [Promise!Next]_(Promise!vars)
  <2>1. Told(r) = "open"
    BY <1>3, ToldOpen DEF Acquire, Arrive, Appliable, WindowInv, RowsAgree
  <2>2. UNCHANGED <<state, result, call>> /\ lock' = [lock EXCEPT ![Target[r]] = r]
    BY <1>3 DEF Acquire, world
  <2>3. told' = told
    BY <2>2 DEF told, Told
  <2>4. CASE lock[Target[r]] = NoRun
    <3>1. Promise!Take(r)
      BY <2>1, <2>2, <2>3, <2>4 DEF Promise!Take, told
    <3>2. QED
      BY <3>1 DEF Promise!Next
  <2>5. CASE lock[Target[r]] = r
    <3>1. lock' = lock
      BY <2>2, <2>5, EngineAssumption
    <3>2. QED
      BY <2>2, <3>1, NothingTold
  <2>6. QED
    BY <1>3, <2>4, <2>5 DEF Acquire
<1>4. ASSUME NEW r \in Runs, Create(r)
      PROVE  [Promise!Next]_(Promise!vars)
  <2>1. Told(r) = "open"
    BY <1>4, ToldOpen DEF Create, WindowInv, RowsAgree
  <2>2. Told(r)' = "open" /\ UNCHANGED <<result, call, lock>>
    BY <1>4 DEF Create, world, Told, WindowInv, RowsAgree
  <2>3. told' = [told EXCEPT ![r] = "open"]
    BY <1>4, <2>2, ToldOf DEF Create
  <2>4. told' = told
    BY <2>1, <2>3 DEF told
  <2>5. QED
    BY <2>2, <2>4 DEF Promise!vars, told
<1>5. ASSUME NEW r \in Runs, Cancel(r)
      PROVE  [Promise!Next]_(Promise!vars)
  <2>1. result[r] = "none" /\ Told(r) = "open"
    BY <1>5, ToldOpen DEF Cancel, Appliable, WindowInv, RowsAgree
  <2>2. told' = [told EXCEPT ![r] = "nothing"]
    BY <1>5, <2>1, ToldOf DEF Cancel, Told
  <2>3. call[r] = "idle"
    BY <2>1 DEF AuthInv, Ledger, WindowInv, RowsAgree
  <2>4. Promise!TellNothing(r)
    BY <1>5, <2>1, <2>2, <2>3 DEF Promise!TellNothing, Cancel, world, told
  <2>5. QED
    BY <2>4 DEF Promise!Next
<1>6. ASSUME NEW r \in Runs, Land(r)
      PROVE  [Promise!Next]_(Promise!vars)
  <2>1. UNCHANGED <<state, result, lock>>
    BY <1>6 DEF Land, rows
  <2>2. told' = told
    BY <2>1 DEF told, Told
  <2>3. Promise!Reach(r)
    BY <1>6, <2>1, <2>2 DEF Promise!Reach, Land, told
  <2>4. QED
    BY <2>3 DEF Promise!Next
<1>7. ASSUME NEW r \in Runs, SettleFinish(r)
      PROVE  [Promise!Next]_(Promise!vars)
  <2>1. /\ SettledEnding(r) \in Endings /\ result[r] = "in_flight"
        /\ SettledEnding(r) = "failed" => mutation[r] = "not_written"
        /\ SettledEnding(r) = "succeeded" => mutation[r] = "written"
        /\ SettledEnding(r) # "rolled_back"
    BY <1>7 DEF SettleFinish, Interrupted, SettledEnding
  <2>2. QED
    BY <1>7, <2>1, EndingTells DEF SettleFinish, world, Promise!Next
<1>8. QED
  BY <1>1, <1>2, <1>3, <1>4, <1>5, <1>6, <1>7
  DEF Next, vars, SettleStep, ConfirmBegin, OverrideBegin, RollBackLand, SettleOutcome,
      SettleDone, Crash, Restart, HostMoves, Observe, rows, world

\* The engine implements the promise: for any number of Runs, targets, threads,
\* crashes and outside changes, what it tells of a Run, what it asks of the host and
\* who owns a target change only as ChangePromise allows (apply, cancel, _finish,
\* settle_interrupted).
THEOREM EngineKeepsPromise ==
    ASSUME ConcurrentApplies = FALSE
    PROVE  Spec => KeepsPromise
<1>1. Init => Promise!Init
  BY DEF Init, Promise!Init, Told
<1>2. Inv /\ [Next]_vars => [Promise!Next]_(Promise!vars)
  BY StepKeepsPromise
<1>3. QED
  BY <1>1, <1>2, InvHolds, PTL DEF Spec, KeepsPromise, Promise!Spec
=============================================================================
