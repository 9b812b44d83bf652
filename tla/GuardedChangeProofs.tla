------------------------- MODULE GuardedChangeProofs -------------------------
(***************************************************************************)
(* Proofs about the connection guard, for any number of guarded Runs,      *)
(* keepers, crashes, agent restarts and outside changes.                   *)
(*                                                                         *)
(* None of the properties is inductive: each rests on where the handlers   *)
(* stand and on what is still in the agent's mail. Three ideas carry the   *)
(* argument. A Run asks for its guard once, so a guard that was released   *)
(* or fired is never armed again (Registry). While a settler serves a Run, *)
(* its apply is over, so the two never write the same rows at once         *)
(* (Serves). And what a handler was told stays true until it is recorded   *)
(* (Heard).                                                                *)
(***************************************************************************)
EXTENDS GuardedChange, TLAPS

\* The places of an apply: before the boundary, abandoned before it, past it with
\* nothing restored yet, past it with a restoration under way or an ending due,
\* and releasing its guard.
Early      == {"arm", "armwait", "confirmed", "cross"}
Abandoning == {"abandon", "abandonwait", "abandonrow", "abandonfail"}
Changing   == {"dispatch", "mutate", "wait", "settle", "verify", "vread", "vresult",
               "hold", "rollback", "rbread", "rbmark", "rbmutate"}
Restoring  == {"rbverify", "rbvread", "rbvresult", "rolled_back", "recovery_required"}
Crossed    == Changing \cup Restoring \cup {"rbwait", "rbresult", "failed"}
Releasing  == {"release", "releasewait", "record"}

\* The places of a settler once its report has led to a conclusion.
Concluding == Restoring \cup {"keep", "succeeded", "rolling", "rolled", "lapsed"}

\* What a settlement may say: GuardPhase without "armed".
Final == {"disarmed", "fired", "lost", "unreachable"}

\* An arm request for r waits at the agent.
ArmMailed(r) == \E m \in mail : m.run = r /\ m.kind = "arm"

\* The guard of r was held and let go, and can neither fire nor be armed again.
Released(r) ==
    /\ rev[r] = "idle"
    /\ guard[r] \in {"disarmed", "absent"}
    /\ ~ArmMailed(r)
    /\ pc[r] # "arm"
    /\ state[r] # "awaiting_confirmation"

\* Nothing has happened yet in the name of a Run that waits for its confirmation.
Fresh ==
    \A r \in Runs : state[r] = "awaiting_confirmation" =>
        /\ pc[r] = "idle" /\ armed[r] = "none"
        /\ result[r] = "none" /\ mutation[r] = "undispatched"
        /\ call[r] = "idle" /\ undo[r] = "idle"
        /\ \A m \in mail : m.run # r

\* What an apply's place says of its Run.
Stages ==
    \A r \in Runs :
        /\ pc[r] \in {"idle"} \cup Early \cup Abandoning \cup Crossed \cup Releasing
        /\ pc[r] \in Early \cup Abandoning =>
              /\ armed[r] # "none" /\ result[r] = "none"
              /\ mutation[r] = "undispatched" /\ call[r] = "idle"
        /\ pc[r] \in Crossed \cup {"cross"} => armed[r] = "armed"
        /\ pc[r] \in Early \cup Abandoning \cup Changing => undo[r] = "idle"
        /\ pc[r] = "dispatch" => mutation[r] = "undispatched"
        /\ pc[r] \in {"mutate", "wait", "settle"} => mutation[r] = "dispatched"
        /\ pc[r] = "mutate" => call[r] = "idle"
        /\ pc[r] = "hold" => verification[r] = "verified"
        /\ pc[r] \in Releasing => result[r] # "in_flight" /\ armed[r] # "none"
        /\ mutation[r] = "undispatched" => call[r] = "idle"
        /\ result[r] # "none" \/ call[r] # "idle" => armed[r] = "armed"
        /\ state[r] \in {"guarded", "succeeded"} =>
              pc[r] = "idle" /\ armed[r] = "armed" /\ verification[r] = "verified"

\* The answer an apply holds is of the kind its place takes, and true.
Answers ==
    \A r \in Runs :
        /\ pc[r] = "settle" =>
              /\ got[r] \in MutationOutcomes
              /\ got[r] = "written" => call[r] = "written"
              /\ got[r] = "not_written" => call[r] \in {"idle", "not_written"}
        /\ pc[r] = "rbresult" =>
              got[r] \in MutationOutcomes /\ (got[r] = "written" => undo[r] = "written")
        /\ pc[r] = "vresult" => got[r] \in Judgements
        /\ pc[r] \in {"rbmark", "rbmutate"} => got[r] \in Values

\* What a settler's place says of the Run it serves: above all, that its apply
\* is over.
Serves ==
    \A s \in Settlers : pc[s] # "idle" =>
        /\ pc[s] \in Concluding \cup {"ask", "askwait", "answered", "record"}
        /\ job[s] \in Runs /\ pc[job[s]] = "idle" /\ armed[job[s]] # "none"
        /\ pc[s] \in Concluding => armed[job[s]] = "armed"
        /\ s \in Keepers =>
              armed[job[s]] = "armed" /\ verification[job[s]] = "verified"
        /\ s = Boot => pc[s] \notin {"keep", "succeeded"}
        /\ pc[s] \in {"rolling", "rolled"} => got[s] = "fired"
        /\ pc[s] = "keep" => got[s] = "disarmed"
        /\ pc[s] = "succeeded" =>
              job[s] \in kept /\ settled[job[s]] = "disarmed" /\ Released(job[s])

\* What a handler was told of a guard stays true.
Heard ==
    \A h \in Handlers :
        /\ pc[h] = "idle" => got[h] = "none" /\ told[h] = "none"
        /\ pc[h] = "answered" => got[h] \in Final \cup {"armed"}
        /\ pc[h] \in {"abandonrow", "record", "lapsed"} => got[h] \in Final
        /\ pc[h] = "rbvresult" => got[h] \in Judgements
        /\ told[h] = "written" => rev[RunOf(h)] = "written"
        /\ told[h] = "not_written" => rev[RunOf(h)] = "not_written"
        /\ got[h] = "disarmed" => Released(RunOf(h))
        /\ got[h] = "fired" => told[h] \in MutationOutcomes

\* The agent's account of a guard. Its reversal is sent at most once.
Registry ==
    \A r \in Runs :
        /\ pc[r] = "arm" => ~ArmMailed(r)
        /\ pc[r] = "arm" \/ ArmMailed(r) \/ state[r] = "awaiting_confirmation" =>
              guard[r] = "absent" /\ rev[r] = "idle" /\ verdict[r] = "none"
        /\ guard[r] \in {"armed", "disarmed"} => rev[r] = "idle"
        /\ guard[r] = "fired" => verdict[r] # "none"
        /\ verdict[r] = "written" => rev[r] = "written"
        /\ verdict[r] = "not_written" => rev[r] = "not_written"

\* The one arm request a Run sends.
ArmLetter(r) == [from |-> r, kind |-> "arm", run |-> r, proved |-> FALSE]

\* A guard is asked for in one form only, and a disarm that proves nothing was
\* sent before the boundary or after the ending.
Letters ==
    \A m \in mail :
        /\ m.kind = "arm" => m = ArmLetter(m.run)
        /\ m.kind = "disarm" /\ ~m.proved =>
              result[m.run] # "in_flight" /\ pc[m.run] \notin Early

\* The startup settlement runs alone, and never proves a connection.
Alone ==
    /\ ~proof[Boot]
    /\ phase # "up" => \A h \in Runs \cup Keepers : pc[h] = "idle"
    /\ pc[Boot] # "idle" => phase = "settling"

\* KeptStaysKept, and why it lasts.
KeptIsReleased ==
    \A r \in Runs : state[r] = "succeeded" =>
        r \in kept /\ settled[r] = "disarmed" /\ Released(r)

\* The steps of Next that are no handler's and answer no request.
RegistryStep == AgentRestart \/ \E r \in Runs : Fire(r) \/ FireDone(r) \/ Evict(r)
HostStep     == \/ HostMoves \/ Observe
                \/ \E r \in Runs : Land(r) \/ RollBackLand(r) \/ ReversalLand(r)
BackendStep  == \/ Crash \/ Restart \/ Startup
                \/ \E r \in Runs : Begin(r) \/ \E k \in Keepers : KeepBegin(k, r)

\* Everything but the types.
Discipline ==
    /\ Fresh /\ Stages /\ Answers /\ Serves /\ Heard /\ Registry /\ Letters
    /\ Alone /\ KeptIsReleased /\ RecordsAreTruthful

\* The inductive invariant.
IInv == TypeOK /\ Discipline

\* What a handler may hold as the last answer.
Answerable == Phases \cup MutationOutcomes \cup Judgements \cup Values \cup {"none"}

\* TypeOK, in parts.
RowTypes ==
    /\ state \in [Runs -> RunStates]
    /\ effect \in [Runs -> HostEffects]
    /\ result \in [Runs -> Results]
    /\ mutation \in [Runs -> MutationColumn]
    /\ verification \in [Runs -> Judgements \cup {"not_attempted"}]
    /\ rollback \in [Runs -> {"idle", "required", "dispatched"} \cup MutationOutcomes]
    /\ restored \in [Runs -> Judgements \cup {"not_attempted"}]
    /\ lock \in Runs \cup {NoRun}
    /\ armed \in [Runs -> {"none", "asked", "armed"}]
    /\ settled \in [Runs -> {"none", "disarmed", "fired", "lost", "unreachable"}]
    /\ kept \in SUBSET Runs
    /\ reversal \in [Runs -> MutationOutcomes \cup {"none"}]

WireTypes ==
    /\ host \in Values
    /\ observed \in Values
    /\ call \in [Runs -> Messages]
    /\ undo \in [Runs -> Messages]
    /\ undoFrom \in [Runs -> Values]
    /\ rev \in [Runs -> Messages]

AgentTypes ==
    /\ guard \in [Runs -> Held]
    /\ verdict \in [Runs -> MutationOutcomes \cup {"none"}]
    /\ mail \in SUBSET Requests

ThreadTypes ==
    /\ pc \in [Handlers -> Places]
    /\ job \in [Settlers -> Runs \cup {NoRun}]
    /\ got \in [Handlers -> Answerable]
    /\ told \in [Handlers -> MutationOutcomes \cup {"none"}]
    /\ proof \in [Settlers -> BOOLEAN]

ProcessTypes ==
    /\ phase \in {"up", "down", "settling"}
    /\ asked \in SUBSET Runs
    /\ crashes \in 0 .. MaxCrashes
    /\ restarts \in 0 .. MaxAgentRestarts
    /\ moves \in 0 .. MaxMoves

-----------------------------------------------------------------------------

\* A handler is a Run's apply or a settler, and serves one Run.
LEMMA Kinds ==
    /\ \A r \in Runs : r \in Handlers /\ r \notin Settlers /\ RunOf(r) = r
    /\ \A s \in Settlers : s \in Handlers /\ s \notin Runs /\ RunOf(s) = job[s]
    /\ Boot \in Settlers /\ Keepers \subseteq Settlers /\ Boot \notin Keepers
BY GuardAssumption DEF Handlers, Settlers, RunOf

LEMMA TypeParts ==
    /\ TypeOK <=> RowTypes /\ WireTypes /\ AgentTypes /\ ThreadTypes /\ ProcessTypes
    /\ TypeOK' <=> (RowTypes /\ WireTypes /\ AgentTypes /\ ThreadTypes /\ ProcessTypes)'
BY DEF TypeOK, RowTypes, WireTypes, AgentTypes, ThreadTypes, ProcessTypes, Answerable

\* A handler that is not idle serves a Run.
LEMMA BusyServes ==
    ASSUME Serves, NEW h \in Handlers, pc[h] # "idle" PROVE RunOf(h) \in Runs
BY Kinds DEF Serves, Handlers

\* Where a handler goes, what it holds and how it returns keep its registers typed.
LEMMA ThreadTyped ==
    ASSUME ThreadTypes, NEW h \in Handlers
    PROVE  /\ \A next \in Places : Goto(h, next) => ThreadTypes'
           /\ \A next \in Places, a \in Answerable : Hold(h, next, a) => ThreadTypes'
           /\ Return(h) => ThreadTypes'
<1>. USE GuardAssumption, Kinds DEF ThreadTypes
<1>1. ASSUME NEW next \in Places, Goto(h, next) PROVE ThreadTypes'
  BY <1>1 DEF Goto
<1>2. ASSUME NEW next \in Places, NEW a \in Answerable, Hold(h, next, a) PROVE ThreadTypes'
  BY <1>2 DEF Hold
<1>3. ASSUME Return(h) PROVE ThreadTypes'
  <2>1. "idle" \in Places /\ "none" \in Answerable BY DEF Places, Answerable
  <2>2. CASE h \in Settlers BY <1>3, <2>1, <2>2 DEF Return
  <2>3. CASE h \notin Settlers BY <1>3, <2>1, <2>3 DEF Return
  <2>. QED BY <2>2, <2>3
<1>. QED BY <1>1, <1>2, <1>3

\* ... and so does the agent's answer.
LEMMA ReplyTyped ==
    ASSUME ThreadTypes, NEW m, m.from \in Handlers, NEW at, NEW next \in Places,
           NEW a \in Answerable, NEW o \in MutationOutcomes \cup {"none"},
           Reply(m, at, next, a, o)
    PROVE  ThreadTypes'
<1>1. CASE UNCHANGED thread BY <1>1 DEF ThreadTypes, thread
<1>2. CASE ~UNCHANGED thread BY <1>2 DEF Reply, ThreadTypes
<1>. QED BY <1>1, <1>2

\* A request a handler sends is well formed.
LEMMA SendTyped ==
    ASSUME TypeOK, NEW h \in Handlers, RunOf(h) \in Runs,
           NEW kind \in {"arm", "disarm", "status"}, NEW next \in Places,
           SendTo(h, kind, next)
    PROVE  TypeOK'
<1>. USE DEF SendTo, rows, runRows, guardRows, wire, process, bounds
<1>1. PICK p \in BOOLEAN : p = (h \in Settlers /\ proof[h]) OBVIOUS
<1>2. [from |-> h, kind |-> kind, run |-> RunOf(h), proved |-> p] \in Requests
  BY DEF Requests
<1>3. mail' \subseteq Requests BY <1>1, <1>2 DEF TypeOK
<1>4. AgentTypes' BY <1>3, TypeParts DEF AgentTypes
<1>5. ThreadTypes' BY TypeParts, ThreadTyped
<1>6. (RowTypes /\ WireTypes /\ ProcessTypes)'
  BY TypeParts DEF RowTypes, WireTypes, ProcessTypes
<1>. QED BY <1>4, <1>5, <1>6, TypeParts

\* Types are kept by an apply.
LEMMA ApplyTyped == ASSUME IInv, NEW r \in Runs, Apply(r) PROVE TypeOK'
<1>. USE GuardAssumption, Kinds DEF rows, runRows, guardRows, wire, agent, process, bounds,
    thread, Answerable, Places, Endings, Phases, RunStates, Results, HostEffects,
    HostEffectFor, MutationColumn, MutationOutcomes, Judgements, Values, Messages, Held,
    Final
<1>. TypeOK /\ Answers /\ Serves /\ Heard BY DEF IInv, Discipline
<1>1. CASE ArmSend(r)
  BY <1>1, SendTyped DEF ArmSend
<1>2. CASE ArmUnheard(r)
  BY <1>2 DEF ArmUnheard, Goto, TypeOK
<1>3. CASE ArmConfirmed(r)
  BY <1>3 DEF ArmConfirmed, Goto, TypeOK
<1>4. CASE AbandonSend(r)
  BY <1>4, SendTyped DEF AbandonSend
<1>5. CASE AbandonRow(r)
  BY <1>5 DEF AbandonRow, Goto, TypeOK, Heard
<1>6. CASE AbandonFail(r)
  BY <1>6 DEF AbandonFail, Return, TypeOK
<1>7. CASE Cross(r)
  BY <1>7 DEF Cross, Goto, TypeOK
<1>8. CASE Dispatch(r)
  BY <1>8 DEF Dispatch, Goto, TypeOK
<1>9. CASE Send(r)
  <2>1. ThreadTypes' BY <1>9, TypeParts, ThreadTyped DEF Send
  <2>2. call' \in [Runs -> Messages] BY <1>9, TypeParts DEF Send, WireTypes
  <2>3. (RowTypes /\ WireTypes /\ AgentTypes /\ ProcessTypes)'
    BY <1>9, <2>2, TypeParts DEF Send, RowTypes, WireTypes, AgentTypes, ProcessTypes
  <2>. QED BY <2>1, <2>2, <2>3, TypeParts
<1>10. CASE Answer(r)
  BY <1>10 DEF Answer, AnswerTo, Hold, TypeOK
<1>11. CASE Settle(r)
  BY <1>11 DEF Settle, Goto, TypeOK, Answers
<1>12. CASE VerifyStart(r)
  BY <1>12 DEF VerifyStart, MoveState, Goto, TypeOK
<1>13. CASE VerifyRead(r)
  <2>1. ThreadTypes' BY <1>13, TypeParts, ThreadTyped DEF VerifyRead, ReadBack
  <2>2. (RowTypes /\ WireTypes /\ AgentTypes /\ ProcessTypes)'
    BY <1>13, TypeParts DEF VerifyRead, ReadBack, RowTypes, WireTypes, AgentTypes,
        ProcessTypes
  <2>. QED BY <2>1, <2>2, TypeParts
<1>14. CASE VerifyResult(r)
  BY <1>14 DEF VerifyResult, Goto, TypeOK, Answers
<1>15. CASE HoldStart(r)
  BY <1>15 DEF HoldStart, Return, TypeOK
<1>16. CASE RollBack(r)
  BY <1>16 DEF RollBack, MoveState, Goto, TypeOK
<1>17. CASE RollBackRead(r)
  <2>1. host \in Answerable BY TypeParts DEF WireTypes
  <2>2. ThreadTypes' BY <1>17, <2>1, TypeParts, ThreadTyped DEF RollBackRead
  <2>3. (RowTypes /\ WireTypes /\ AgentTypes /\ ProcessTypes)'
    BY <1>17, TypeParts DEF RollBackRead, RowTypes, WireTypes, AgentTypes, ProcessTypes
  <2>. QED BY <2>1, <2>2, <2>3, TypeParts
<1>18. CASE RollBackMark(r)
  BY <1>18 DEF RollBackMark, Goto, TypeOK
<1>19. CASE RollBackSend(r)
  <2>1. ThreadTypes' BY <1>19, TypeParts, ThreadTyped DEF RollBackSend
  <2>2. undo' \in [Runs -> Messages] /\ undoFrom' \in [Runs -> Values]
    BY <1>19, TypeParts DEF RollBackSend, WireTypes, Answers
  <2>3. (RowTypes /\ WireTypes /\ AgentTypes /\ ProcessTypes)'
    BY <1>19, <2>2, TypeParts DEF RollBackSend, RowTypes, WireTypes, AgentTypes,
        ProcessTypes
  <2>. QED BY <2>1, <2>2, <2>3, TypeParts
<1>20. CASE RollBackAnswer(r)
  BY <1>20 DEF RollBackAnswer, AnswerTo, Hold, TypeOK
<1>21. CASE RollBackResult(r)
  BY <1>21 DEF RollBackResult, Goto, TypeOK, Answers
<1>22. CASE ReleaseSend(r)
  BY <1>22, SendTyped DEF ReleaseSend
<1>. QED BY <1>1, <1>2, <1>3, <1>4, <1>5, <1>6, <1>7, <1>8, <1>9, <1>10, <1>11, <1>12,
    <1>13, <1>14, <1>15, <1>16, <1>17, <1>18, <1>19, <1>20, <1>21, <1>22 DEF Apply

\* Types are kept by a step shared by applies and settlers.
LEMMA EitherTyped == ASSUME IInv, NEW h \in Handlers, Either(h) PROVE TypeOK'
<1>. USE GuardAssumption, Kinds DEF rows, runRows, guardRows, wire, agent, process, bounds,
    thread, Answerable, Places, Endings, Phases, RunStates, Results, HostEffects,
    HostEffectFor, MutationColumn, MutationOutcomes, Judgements, Values, Messages, Held,
    Final
<1>. TypeOK /\ Answers /\ Serves /\ Heard BY DEF IInv, Discipline
<1>1. CASE RollBackVerifyStart(h)
  <2>1. ThreadTypes' BY <1>1, TypeParts, ThreadTyped DEF RollBackVerifyStart, MoveState
  <2>2. RunOf(h) \in Runs BY <1>1, BusyServes DEF RollBackVerifyStart
  <2>3. RowTypes' BY <1>1, <2>2, TypeParts DEF RollBackVerifyStart, MoveState, RowTypes
  <2>4. (WireTypes /\ AgentTypes /\ ProcessTypes)'
    BY <1>1, TypeParts DEF RollBackVerifyStart, MoveState, WireTypes, AgentTypes,
        ProcessTypes
  <2>. QED BY <2>1, <2>2, <2>3, <2>4, TypeParts
<1>2. CASE RollBackVerifyRead(h)
  <2>1. ThreadTypes' BY <1>2, TypeParts, ThreadTyped DEF RollBackVerifyRead, ReadBack
  <2>2. (RowTypes /\ WireTypes /\ AgentTypes /\ ProcessTypes)'
    BY <1>2, TypeParts DEF RollBackVerifyRead, ReadBack, RowTypes, WireTypes, AgentTypes,
        ProcessTypes
  <2>. QED BY <2>1, <2>2, TypeParts
<1>3. CASE RollBackVerifyResult(h)
  <2>1. ThreadTypes' BY <1>3, TypeParts, ThreadTyped DEF RollBackVerifyResult
  <2>2. RunOf(h) \in Runs /\ got[h] \in Judgements
    BY <1>3, BusyServes DEF RollBackVerifyResult, Heard
  <2>3. RowTypes' BY <1>3, <2>2, TypeParts DEF RollBackVerifyResult, RowTypes
  <2>4. (WireTypes /\ AgentTypes /\ ProcessTypes)'
    BY <1>3, TypeParts DEF RollBackVerifyResult, WireTypes, AgentTypes, ProcessTypes
  <2>. QED BY <2>1, <2>2, <2>3, <2>4, TypeParts
<1>4. CASE Finish(h)
  <2>1. ThreadTypes' BY <1>4, TypeParts, ThreadTyped DEF Finish
  <2>2. RunOf(h) \in Runs BY <1>4, BusyServes DEF Finish
  <2>3. RowTypes' BY <1>4, <2>2, TypeParts DEF Finish, End, RowTypes
  <2>4. (WireTypes /\ AgentTypes /\ ProcessTypes)'
    BY <1>4, TypeParts DEF Finish, WireTypes, AgentTypes, ProcessTypes
  <2>. QED BY <2>1, <2>2, <2>3, <2>4, TypeParts
<1>5. CASE Unheard(h)
  BY <1>5 DEF Unheard, Hold, TypeOK
<1>6. CASE Record(h)
  <2>1. ThreadTypes' BY <1>6, TypeParts, ThreadTyped DEF Record
  <2>2. RunOf(h) \in Runs /\ got[h] \in Final BY <1>6, BusyServes DEF Record, Heard
  <2>3. RowTypes' BY <1>6, <2>2, TypeParts DEF Record, RowTypes, ThreadTypes
  <2>4. (WireTypes /\ AgentTypes /\ ProcessTypes)'
    BY <1>6, TypeParts DEF Record, WireTypes, AgentTypes, ProcessTypes
  <2>. QED BY <2>1, <2>2, <2>3, <2>4, TypeParts
<1>7. CASE Raise(h)
  <2>1. ThreadTypes' BY <1>7, TypeParts, ThreadTyped DEF Raise
  <2>2. (RowTypes /\ WireTypes /\ AgentTypes /\ ProcessTypes)'
    BY <1>7, TypeParts DEF Raise, RowTypes, WireTypes, AgentTypes, ProcessTypes
  <2>. QED BY <2>1, <2>2, TypeParts
<1>. QED BY <1>1, <1>2, <1>3, <1>4, <1>5, <1>6, <1>7 DEF Either

\* Types are kept by a settler.
LEMMA CollectTyped == ASSUME IInv, NEW s \in Settlers, Collect(s) PROVE TypeOK'
<1>. USE GuardAssumption, Kinds DEF rows, runRows, guardRows, wire, agent, process, bounds,
    thread, Answerable, Places, Endings, Phases, RunStates, Results, HostEffects,
    HostEffectFor, MutationColumn, MutationOutcomes, Judgements, Values, Messages, Held,
    Final
<1>. TypeOK /\ Answers /\ Serves /\ Heard BY DEF IInv, Discipline
<1>1. CASE AskSend(s)
  BY <1>1, SendTyped, BusyServes DEF AskSend
<1>2. CASE Decide(s)
  <2>1. AfterReport(s) \in Places BY DEF AfterReport
  <2>2. ThreadTypes' BY <1>2, <2>1, TypeParts, ThreadTyped, Kinds DEF Decide
  <2>3. (RowTypes /\ WireTypes /\ AgentTypes /\ ProcessTypes)'
    BY <1>2, TypeParts DEF Decide, RowTypes, WireTypes, AgentTypes, ProcessTypes
  <2>. QED BY <2>1, <2>2, <2>3, TypeParts
<1>3. CASE Keep(s)
  BY <1>3 DEF Keep, GuardRowAllowed, Goto, TypeOK, Serves
<1>4. CASE Rolling(s)
  BY <1>4 DEF Rolling, MoveState, Goto, TypeOK, Serves
<1>5. CASE Rolled(s)
  BY <1>5 DEF Rolled, Goto, TypeOK, Heard, Serves
<1>6. CASE Lapsed(s)
  BY <1>6 DEF Lapsed, GuardRowAllowed, Goto, TypeOK, Heard, Serves
<1>. QED BY <1>1, <1>2, <1>3, <1>4, <1>5, <1>6 DEF Collect

\* Types are kept by the agent serving a request.
LEMMA ServeTyped == ASSUME IInv, Serve PROVE TypeOK'
<1>. USE GuardAssumption, Kinds DEF rows, runRows, guardRows, wire, agent, process, bounds,
    thread, Answerable, Places, Endings, Phases, RunStates, Results, HostEffects,
    HostEffectFor, MutationColumn, MutationOutcomes, Judgements, Values, Messages, Held,
    Final
<1>. TypeOK /\ Answers /\ Serves /\ Heard BY DEF IInv, Discipline
<1>1. ASSUME NEW m \in mail, ServeArm(m) PROVE TypeOK'
  <2>1. m.run \in Runs /\ m.from \in Handlers BY TypeParts DEF AgentTypes, Requests
  <2>2. guard[m.run] \in Held \ {"firing"} /\ verdict[m.run] \in MutationOutcomes \cup
          {"none"}
    BY <1>1, <2>1, TypeParts DEF ServeArm, RegistryFree, AgentTypes
  <2>3. ThreadTypes' BY <1>1, <2>1, <2>2, TypeParts, ReplyTyped DEF ServeArm, PhaseOf
  <2>4. (RowTypes /\ WireTypes /\ AgentTypes /\ ProcessTypes)'
    BY <1>1, <2>1, <2>2, TypeParts DEF ServeArm, RowTypes, WireTypes, AgentTypes,
        ProcessTypes
  <2>. QED BY <2>1, <2>2, <2>3, <2>4, TypeParts
<1>2. ASSUME NEW m \in mail, ServeDisarm(m) PROVE TypeOK'
  <2>1. m.run \in Runs /\ m.from \in Handlers BY TypeParts DEF AgentTypes, Requests
  <2>2. guard[m.run] \in Held \ {"firing"} /\ verdict[m.run] \in MutationOutcomes \cup
          {"none"}
    BY <1>2, <2>1, TypeParts DEF ServeDisarm, RegistryFree, AgentTypes
  <2>3. ThreadTypes' BY <1>2, <2>1, <2>2, TypeParts, ReplyTyped DEF ServeDisarm, PhaseOf
  <2>4. (RowTypes /\ WireTypes /\ AgentTypes /\ ProcessTypes)'
    BY <1>2, <2>1, <2>2, TypeParts DEF ServeDisarm, RowTypes, WireTypes, AgentTypes,
        ProcessTypes
  <2>. QED BY <2>1, <2>2, <2>3, <2>4, TypeParts
<1>3. ASSUME NEW m \in mail, ServeStatus(m) PROVE TypeOK'
  <2>1. m.run \in Runs /\ m.from \in Handlers BY TypeParts DEF AgentTypes, Requests
  <2>2. guard[m.run] \in Held \ {"firing"} /\ verdict[m.run] \in MutationOutcomes \cup
          {"none"}
    BY <1>3, <2>1, TypeParts DEF ServeStatus, RegistryFree, AgentTypes
  <2>3. ThreadTypes' BY <1>3, <2>1, <2>2, TypeParts, ReplyTyped DEF ServeStatus, PhaseOf
  <2>4. (RowTypes /\ WireTypes /\ AgentTypes /\ ProcessTypes)'
    BY <1>3, <2>1, <2>2, TypeParts DEF ServeStatus, RowTypes, WireTypes, AgentTypes,
        ProcessTypes
  <2>. QED BY <2>1, <2>2, <2>3, <2>4, TypeParts
<1>. QED BY <1>1, <1>2, <1>3 DEF Serve

\* Types are kept by the registry's own steps.
LEMMA RegistryTyped == ASSUME IInv, RegistryStep PROVE TypeOK'
<1>. USE GuardAssumption, Kinds DEF rows, runRows, guardRows, wire, agent, process, bounds,
    thread, Answerable, Places, Endings, Phases, RunStates, Results, HostEffects,
    HostEffectFor, MutationColumn, MutationOutcomes, Judgements, Values, Messages, Held,
    Final
<1>. TypeOK /\ Answers /\ Serves /\ Heard BY DEF IInv, Discipline
<1>1. ASSUME NEW r \in Runs, Fire(r) PROVE TypeOK'
  BY <1>1 DEF Fire, RegistryFree, TypeOK
<1>2. ASSUME NEW r \in Runs, FireDone(r) PROVE TypeOK'
  BY <1>2 DEF FireDone, AnswerTo, TypeOK
<1>3. ASSUME NEW r \in Runs, Evict(r) PROVE TypeOK'
  BY <1>3 DEF Evict, RegistryFree, TypeOK
<1>4. CASE AgentRestart
  BY <1>4 DEF AgentRestart, TypeOK
<1>. QED BY <1>1, <1>2, <1>3, <1>4 DEF RegistryStep

\* Types are kept by the helper and the host.
LEMMA HostTyped == ASSUME IInv, HostStep PROVE TypeOK'
<1>. USE GuardAssumption, Kinds DEF rows, runRows, guardRows, wire, agent, process, bounds,
    thread, Answerable, Places, Endings, Phases, RunStates, Results, HostEffects,
    HostEffectFor, MutationColumn, MutationOutcomes, Judgements, Values, Messages, Held,
    Final
<1>. TypeOK /\ Answers /\ Serves /\ Heard BY DEF IInv, Discipline
<1>1. ASSUME NEW r \in Runs, Land(r) PROVE TypeOK'
  <2>1. WireTypes' BY <1>1, TypeParts DEF Land, WireTypes
  <2>2. (RowTypes /\ AgentTypes /\ ThreadTypes /\ ProcessTypes)'
    BY <1>1, TypeParts DEF Land, RowTypes, AgentTypes, ThreadTypes, ProcessTypes
  <2>. QED BY <2>1, <2>2, TypeParts
<1>2. ASSUME NEW r \in Runs, RollBackLand(r) PROVE TypeOK'
  <2>1. WireTypes' BY <1>2, TypeParts DEF RollBackLand, WireTypes
  <2>2. (RowTypes /\ AgentTypes /\ ThreadTypes /\ ProcessTypes)'
    BY <1>2, TypeParts DEF RollBackLand, RowTypes, AgentTypes, ThreadTypes, ProcessTypes
  <2>. QED BY <2>1, <2>2, TypeParts
<1>3. ASSUME NEW r \in Runs, ReversalLand(r) PROVE TypeOK'
  <2>1. WireTypes' BY <1>3, TypeParts DEF ReversalLand, WireTypes
  <2>2. (RowTypes /\ AgentTypes /\ ThreadTypes /\ ProcessTypes)'
    BY <1>3, TypeParts DEF ReversalLand, RowTypes, AgentTypes, ThreadTypes, ProcessTypes
  <2>. QED BY <2>1, <2>2, TypeParts
<1>4. CASE HostMoves
  BY <1>4 DEF HostMoves, TypeOK
<1>5. CASE Observe
  BY <1>5 DEF Observe, TypeOK
<1>. QED BY <1>1, <1>2, <1>3, <1>4, <1>5 DEF HostStep

\* Types are kept by requests, death and startup.
LEMMA BackendTyped == ASSUME IInv, BackendStep PROVE TypeOK'
<1>. USE GuardAssumption, Kinds DEF rows, runRows, guardRows, wire, agent, process, bounds,
    thread, Answerable, Places, Endings, Phases, RunStates, Results, HostEffects,
    HostEffectFor, MutationColumn, MutationOutcomes, Judgements, Values, Messages, Held,
    Final
<1>. TypeOK /\ Answers /\ Serves /\ Heard BY DEF IInv, Discipline
<1>1. ASSUME NEW r \in Runs, Begin(r) PROVE TypeOK'
  BY <1>1 DEF Begin, Goto, TypeOK
<1>2. ASSUME NEW r \in Runs, NEW k \in Keepers, KeepBegin(k, r) PROVE TypeOK'
  BY <1>2 DEF KeepBegin, TypeOK
<1>3. CASE Crash
  BY <1>3 DEF Crash, TypeOK
<1>4. CASE Restart
  BY <1>4 DEF Restart, TypeOK
<1>5. CASE SettleDone
  BY <1>5 DEF SettleDone, GuardsAsked, TypeOK
<1>6. ASSUME NEW r \in Runs, BootAsk(r) PROVE TypeOK'
  BY <1>6 DEF BootAsk, TypeOK
<1>7. ASSUME NEW r \in Runs, SettleOutcome(r) PROVE TypeOK'
  BY <1>7 DEF SettleOutcome, OutcomeOnRecovery, Interrupted, GuardsAsked, MutationColumn,
      TypeOK
<1>8. ASSUME NEW r \in Runs, SettleFinish(r) PROVE TypeOK'
  BY <1>8 DEF SettleFinish, End, Interrupted, GuardsAsked, TypeOK
<1>. QED BY <1>1, <1>2, <1>3, <1>4, <1>5, <1>6, <1>7, <1>8 DEF BackendStep, Startup

-----------------------------------------------------------------------------
\* One step of an apply.
LEMMA ApplyKeeps == ASSUME IInv, NEW r \in Runs, Apply(r) PROVE Discipline'
<1>. USE GuardAssumption, Kinds
           DEF TypeOK, rows, runRows, guardRows, wire, agent, process, bounds, thread,
               Early, Abandoning, Crossed, Changing, Restoring, Releasing, Concluding,
               Final, Released, ArmMailed,
               Endings, MutationOutcomes, Judgements, Values, Requests,
               Handlers, Settlers, RunOf, HostEffectFor
<1>. TypeOK /\ Fresh /\ Stages /\ Answers /\ Serves /\ Heard
     /\ Registry /\ Letters /\ Alone /\ KeptIsReleased /\ RecordsAreTruthful
  BY DEF IInv, Discipline
<1>1. CASE ArmSend(r)
  <2>1. mail' = mail \cup {ArmLetter(r)}
    BY <1>1 DEF ArmSend, SendTo, ArmLetter
  <2>2. /\ pc[r] = "arm" /\ pc' = [pc EXCEPT ![r] = "armwait"]
        /\ UNCHANGED <<rows, wire, guard, verdict, process, job, got, told, proof>>
    BY <1>1 DEF ArmSend, SendTo, Goto
  <2>3. ArmLetter(r).kind = "arm" /\ ArmLetter(r).run = r BY DEF ArmLetter
  <2>4. Letters' BY <2>1, <2>2, <2>3 DEF Letters
  <2>5. Registry' BY <2>1, <2>2, <2>3 DEF Registry
  <2>6. (Fresh /\ Stages /\ Answers)' BY <2>1, <2>2, <2>3 DEF Fresh, Stages, Answers
  <2>7. \A q \in Runs : Released(q) => Released(q)' BY <2>1, <2>2, <2>3
  <2>8. (Serves /\ Alone)' BY <2>2, <2>7 DEF Serves, Alone
  <2>9. Heard' BY <1>1 DEF ArmSend, SendTo, Goto, Heard
  <2>10. (KeptIsReleased /\ RecordsAreTruthful)'
    BY <2>2, <2>7 DEF KeptIsReleased, RecordsAreTruthful
  <2>. QED BY <2>4, <2>5, <2>6, <2>8, <2>9, <2>10 DEF Discipline
<1>2. CASE ArmUnheard(r)
  <2>1. (Fresh /\ Stages /\ Answers)' BY <1>2 DEF ArmUnheard, Goto, Fresh, Stages, Answers
  <2>2. (Serves /\ Heard /\ Alone)' BY <1>2 DEF ArmUnheard, Goto, Serves, Heard, Alone
  <2>3. (Registry /\ Letters /\ KeptIsReleased /\ RecordsAreTruthful)'
    BY <1>2 DEF ArmUnheard, Goto, Registry, Letters, KeptIsReleased, RecordsAreTruthful
  <2>. QED BY <2>1, <2>2, <2>3 DEF Discipline
<1>3. CASE ArmConfirmed(r)
  <2>1. (Fresh /\ Stages /\ Answers)' BY <1>3 DEF ArmConfirmed, Goto, Fresh, Stages, Answers
  <2>2. (Serves /\ Heard /\ Alone)' BY <1>3 DEF ArmConfirmed, Goto, Serves, Heard, Alone
  <2>3. (Registry /\ Letters /\ KeptIsReleased /\ RecordsAreTruthful)'
    BY <1>3 DEF ArmConfirmed, Goto, Registry, Letters, KeptIsReleased, RecordsAreTruthful
  <2>. QED BY <2>1, <2>2, <2>3 DEF Discipline
<1>4. CASE AbandonSend(r)
  <2>1. Letters' BY <1>4 DEF AbandonSend, SendTo, Goto, Letters, Stages
  <2>2. (Fresh /\ Stages /\ Answers)'
    BY <1>4 DEF AbandonSend, SendTo, Goto, Fresh, Stages, Answers
  <2>3. (Serves /\ Heard /\ Alone)'
    BY <1>4 DEF AbandonSend, SendTo, Goto, Serves, Heard, Alone
  <2>4. (Registry /\ KeptIsReleased /\ RecordsAreTruthful)'
    BY <1>4 DEF AbandonSend, SendTo, Goto, Registry, KeptIsReleased, RecordsAreTruthful
  <2>. QED BY <2>1, <2>2, <2>3, <2>4 DEF Discipline
<1>5. CASE AbandonRow(r)
  <2>1. KeptIsReleased' BY <1>5 DEF AbandonRow, Goto, KeptIsReleased, Stages
  <2>2. RecordsAreTruthful' BY <1>5 DEF AbandonRow, Goto, RecordsAreTruthful, Heard
  <2>3. (Fresh /\ Stages /\ Answers)' BY <1>5 DEF AbandonRow, Goto, Fresh, Stages, Answers
  <2>4. (Serves /\ Heard /\ Alone)' BY <1>5 DEF AbandonRow, Goto, Serves, Heard, Alone
  <2>5. (Registry /\ Letters)' BY <1>5 DEF AbandonRow, Goto, Registry, Letters
  <2>. QED BY <2>1, <2>2, <2>3, <2>4, <2>5 DEF Discipline
<1>6. CASE AbandonFail(r)
  <2>1. Answers' BY <1>6 DEF AbandonFail, Return, Answers, Serves
  <2>2. (Fresh /\ Stages)' BY <1>6 DEF AbandonFail, Return, Fresh, Stages
  <2>3. (Serves /\ Heard /\ Alone)' BY <1>6 DEF AbandonFail, Return, Serves, Heard, Alone
  <2>4. (Registry /\ Letters /\ KeptIsReleased /\ RecordsAreTruthful)'
    BY <1>6 DEF AbandonFail, Return, Registry, Letters, KeptIsReleased, RecordsAreTruthful
  <2>. QED BY <2>1, <2>2, <2>3, <2>4 DEF Discipline
<1>7. CASE Cross(r)
  <2>1. (Fresh /\ Stages /\ Answers)' BY <1>7 DEF Cross, Goto, Fresh, Stages, Answers
  <2>2. (Serves /\ Heard /\ Alone)' BY <1>7 DEF Cross, Goto, Serves, Heard, Alone
  <2>3. (Registry /\ Letters /\ KeptIsReleased /\ RecordsAreTruthful)'
    BY <1>7 DEF Cross, Goto, Registry, Letters, KeptIsReleased, RecordsAreTruthful
  <2>. QED BY <2>1, <2>2, <2>3 DEF Discipline
<1>8. CASE Dispatch(r)
  <2>1. (Fresh /\ Stages /\ Answers)' BY <1>8 DEF Dispatch, Goto, Fresh, Stages, Answers
  <2>2. (Serves /\ Heard /\ Alone)' BY <1>8 DEF Dispatch, Goto, Serves, Heard, Alone
  <2>3. (Registry /\ Letters /\ KeptIsReleased /\ RecordsAreTruthful)'
    BY <1>8 DEF Dispatch, Goto, Registry, Letters, KeptIsReleased, RecordsAreTruthful
  <2>. QED BY <2>1, <2>2, <2>3 DEF Discipline
<1>9. CASE Send(r)
  <2>1. Answers' BY <1>9 DEF Send, Goto, Hold, Answers, Stages
  <2>2. Heard' BY <1>9 DEF Send, Goto, Hold, Heard, Serves
  <2>3. RecordsAreTruthful' BY <1>9 DEF Send, Goto, Hold, RecordsAreTruthful, Stages
  <2>4. Stages' BY <1>9 DEF Send, Goto, Hold, Stages
  <2>5. Serves' BY <1>9 DEF Send, Goto, Hold, Serves
  <2>6. Registry' BY <1>9 DEF Send, Goto, Hold, Registry
  <2>7. Letters' BY <1>9 DEF Send, Goto, Hold, Letters
  <2>8. (Fresh /\ Alone /\ KeptIsReleased)'
    BY <1>9 DEF Send, Goto, Hold, Fresh, Alone, KeptIsReleased
  <2>. QED BY <2>1, <2>2, <2>3, <2>4, <2>5, <2>6, <2>7, <2>8 DEF Discipline
<1>10. CASE Answer(r)
  <2>1. Answers' BY <1>10 DEF Answer, AnswerTo, Hold, Answers, Stages
  <2>2. (Fresh /\ Stages)' BY <1>10 DEF Answer, AnswerTo, Hold, Fresh, Stages
  <2>3. (Serves /\ Heard /\ Alone)'
    BY <1>10 DEF Answer, AnswerTo, Hold, Serves, Heard, Alone
  <2>4. (Registry /\ Letters /\ KeptIsReleased /\ RecordsAreTruthful)'
    BY <1>10 DEF Answer, AnswerTo, Hold, Registry, Letters, KeptIsReleased,
        RecordsAreTruthful
  <2>. QED BY <2>1, <2>2, <2>3, <2>4 DEF Discipline
<1>11. CASE Settle(r)
  <2>1. Stages' BY <1>11 DEF Settle, Goto, Stages, Answers
  <2>2. RecordsAreTruthful' BY <1>11 DEF Settle, Goto, RecordsAreTruthful, Answers
  <2>3. (Fresh /\ Answers)' BY <1>11 DEF Settle, Goto, Fresh, Answers
  <2>4. (Serves /\ Heard /\ Alone)' BY <1>11 DEF Settle, Goto, Serves, Heard, Alone
  <2>5. (Registry /\ Letters /\ KeptIsReleased)'
    BY <1>11 DEF Settle, Goto, Registry, Letters, KeptIsReleased
  <2>. QED BY <2>1, <2>2, <2>3, <2>4, <2>5 DEF Discipline
<1>12. CASE VerifyStart(r)
  <2>1. (Fresh /\ Stages /\ Answers)'
    BY <1>12 DEF VerifyStart, MoveState, Goto, Fresh, Stages, Answers
  <2>2. (Serves /\ Heard /\ Alone)'
    BY <1>12 DEF VerifyStart, MoveState, Goto, Serves, Heard, Alone
  <2>3. (Registry /\ Letters /\ KeptIsReleased /\ RecordsAreTruthful)'
    BY <1>12 DEF VerifyStart, MoveState, Goto, Registry, Letters, KeptIsReleased,
        RecordsAreTruthful
  <2>. QED BY <2>1, <2>2, <2>3 DEF Discipline
<1>13. CASE VerifyRead(r)
  <2>1. PICK a \in Judgements : Hold(r, "vresult", a)
    BY <1>13 DEF VerifyRead, ReadBack
  <2>2. pc[r] = "vread" /\ UNCHANGED <<rows, call, undo, rev, agent, process>>
    BY <1>13 DEF VerifyRead, ReadBack
  <2>3. Heard' BY <2>1, <2>2 DEF Hold, Heard, Serves
  <2>4. (Fresh /\ Stages /\ Answers /\ Serves)'
    BY <2>1, <2>2 DEF Hold, Fresh, Stages, Answers, Serves
  <2>5. (Registry /\ Letters /\ Alone /\ KeptIsReleased /\ RecordsAreTruthful)'
    BY <2>1, <2>2 DEF Hold, Registry, Letters, Alone, KeptIsReleased, RecordsAreTruthful
  <2>. QED BY <2>3, <2>4, <2>5 DEF Discipline
<1>14. CASE VerifyResult(r)
  <2>1. (Fresh /\ Stages /\ Answers)'
    BY <1>14 DEF VerifyResult, Goto, Fresh, Stages, Answers
  <2>2. (Serves /\ Heard /\ Alone)' BY <1>14 DEF VerifyResult, Goto, Serves, Heard, Alone
  <2>3. (Registry /\ Letters /\ KeptIsReleased /\ RecordsAreTruthful)'
    BY <1>14 DEF VerifyResult, Goto, Registry, Letters, KeptIsReleased, RecordsAreTruthful
  <2>. QED BY <2>1, <2>2, <2>3 DEF Discipline
<1>15. CASE HoldStart(r)
  <2>1. (Fresh /\ Stages /\ Answers)' BY <1>15 DEF HoldStart, Return, Fresh, Stages, Answers
  <2>2. (Serves /\ Heard /\ Alone)' BY <1>15 DEF HoldStart, Return, Serves, Heard, Alone
  <2>3. (Registry /\ Letters /\ KeptIsReleased /\ RecordsAreTruthful)'
    BY <1>15 DEF HoldStart, Return, Registry, Letters, KeptIsReleased, RecordsAreTruthful
  <2>. QED BY <2>1, <2>2, <2>3 DEF Discipline
<1>16. CASE RollBack(r)
  <2>1. (Fresh /\ Stages /\ Answers)'
    BY <1>16 DEF RollBack, MoveState, Goto, Fresh, Stages, Answers
  <2>2. (Serves /\ Heard /\ Alone)'
    BY <1>16 DEF RollBack, MoveState, Goto, Serves, Heard, Alone
  <2>3. (Registry /\ Letters /\ KeptIsReleased /\ RecordsAreTruthful)'
    BY <1>16 DEF RollBack, MoveState, Goto, Registry, Letters, KeptIsReleased,
        RecordsAreTruthful
  <2>. QED BY <2>1, <2>2, <2>3 DEF Discipline
<1>17. CASE RollBackRead(r)
  <2>1. Heard' BY <1>17 DEF RollBackRead, Hold, Goto, Heard, Serves
  <2>2. (Fresh /\ Stages /\ Answers)'
    BY <1>17 DEF RollBackRead, Hold, Goto, Fresh, Stages, Answers
  <2>3. (Serves /\ Alone)' BY <1>17 DEF RollBackRead, Hold, Goto, Serves, Alone
  <2>4. (Registry /\ Letters /\ KeptIsReleased /\ RecordsAreTruthful)'
    BY <1>17 DEF RollBackRead, Hold, Goto, Registry, Letters, KeptIsReleased,
        RecordsAreTruthful
  <2>. QED BY <2>1, <2>2, <2>3, <2>4 DEF Discipline
<1>18. CASE RollBackMark(r)
  <2>1. (Fresh /\ Stages /\ Answers)'
    BY <1>18 DEF RollBackMark, Goto, Fresh, Stages, Answers
  <2>2. (Serves /\ Heard /\ Alone)' BY <1>18 DEF RollBackMark, Goto, Serves, Heard, Alone
  <2>3. (Registry /\ Letters /\ KeptIsReleased /\ RecordsAreTruthful)'
    BY <1>18 DEF RollBackMark, Goto, Registry, Letters, KeptIsReleased, RecordsAreTruthful
  <2>. QED BY <2>1, <2>2, <2>3 DEF Discipline
<1>19. CASE RollBackSend(r)
  <2>1. Heard' BY <1>19 DEF RollBackSend, Goto, Hold, Heard, Serves
  <2>2. RecordsAreTruthful'
    BY <1>19 DEF RollBackSend, Goto, Hold, RecordsAreTruthful, Stages
  <2>3. (Fresh /\ Stages /\ Answers)'
    BY <1>19 DEF RollBackSend, Goto, Hold, Fresh, Stages, Answers
  <2>4. (Serves /\ Alone)' BY <1>19 DEF RollBackSend, Goto, Hold, Serves, Alone
  <2>5. (Registry /\ Letters /\ KeptIsReleased)'
    BY <1>19 DEF RollBackSend, Goto, Hold, Registry, Letters, KeptIsReleased
  <2>. QED BY <2>1, <2>2, <2>3, <2>4, <2>5 DEF Discipline
<1>20. CASE RollBackAnswer(r)
  <2>1. (Fresh /\ Stages /\ Answers)'
    BY <1>20 DEF RollBackAnswer, AnswerTo, Hold, Fresh, Stages, Answers
  <2>2. (Serves /\ Heard /\ Alone)'
    BY <1>20 DEF RollBackAnswer, AnswerTo, Hold, Serves, Heard, Alone
  <2>3. (Registry /\ Letters /\ KeptIsReleased /\ RecordsAreTruthful)'
    BY <1>20 DEF RollBackAnswer, AnswerTo, Hold, Registry, Letters, KeptIsReleased,
        RecordsAreTruthful
  <2>. QED BY <2>1, <2>2, <2>3 DEF Discipline
<1>21. CASE RollBackResult(r)
  <2>1. RecordsAreTruthful' BY <1>21 DEF RollBackResult, Goto, RecordsAreTruthful, Answers
  <2>2. (Fresh /\ Stages /\ Answers)'
    BY <1>21 DEF RollBackResult, Goto, Fresh, Stages, Answers
  <2>3. (Serves /\ Heard /\ Alone)' BY <1>21 DEF RollBackResult, Goto, Serves, Heard, Alone
  <2>4. (Registry /\ Letters /\ KeptIsReleased)'
    BY <1>21 DEF RollBackResult, Goto, Registry, Letters, KeptIsReleased
  <2>. QED BY <2>1, <2>2, <2>3, <2>4 DEF Discipline
<1>22. CASE ReleaseSend(r)
  <2>1. Letters' BY <1>22 DEF ReleaseSend, SendTo, Goto, Letters, Stages
  <2>2. (Fresh /\ Stages /\ Answers)'
    BY <1>22 DEF ReleaseSend, SendTo, Goto, Fresh, Stages, Answers
  <2>3. (Serves /\ Heard /\ Alone)'
    BY <1>22 DEF ReleaseSend, SendTo, Goto, Serves, Heard, Alone
  <2>4. (Registry /\ KeptIsReleased /\ RecordsAreTruthful)'
    BY <1>22 DEF ReleaseSend, SendTo, Goto, Registry, KeptIsReleased, RecordsAreTruthful
  <2>. QED BY <2>1, <2>2, <2>3, <2>4 DEF Discipline
<1>. QED BY <1>1, <1>2, <1>3, <1>4, <1>5, <1>6, <1>7, <1>8, <1>9, <1>10, <1>11, <1>12,
    <1>13, <1>14, <1>15, <1>16, <1>17, <1>18, <1>19, <1>20, <1>21, <1>22 DEF Apply

\* One step that applies and settlers share.
LEMMA EitherKeeps == ASSUME IInv, NEW h \in Handlers, Either(h) PROVE Discipline'
<1>. USE GuardAssumption, Kinds
           DEF TypeOK, rows, runRows, guardRows, wire, agent, process, bounds, thread,
               Early, Abandoning, Crossed, Changing, Restoring, Releasing, Concluding,
               Final, Released, ArmMailed,
               Endings, MutationOutcomes, Judgements, Values, Requests,
               Handlers, Settlers, RunOf, HostEffectFor
<1>. TypeOK /\ Fresh /\ Stages /\ Answers /\ Serves /\ Heard
     /\ Registry /\ Letters /\ Alone /\ KeptIsReleased /\ RecordsAreTruthful
  BY DEF IInv, Discipline
<1>1. CASE RollBackVerifyStart(h)
  <2>1. (Fresh /\ Stages /\ Answers)'
    BY <1>1 DEF RollBackVerifyStart, MoveState, Goto, Fresh, Stages, Answers
  <2>2. (Serves /\ Heard /\ Alone)'
    BY <1>1 DEF RollBackVerifyStart, MoveState, Goto, Serves, Heard, Alone
  <2>3. (Registry /\ Letters /\ KeptIsReleased /\ RecordsAreTruthful)'
    BY <1>1 DEF RollBackVerifyStart, MoveState, Goto, Registry, Letters, KeptIsReleased,
        RecordsAreTruthful
  <2>. QED BY <2>1, <2>2, <2>3 DEF Discipline
<1>2. CASE RollBackVerifyRead(h)
  <2>1. Heard' BY <1>2 DEF RollBackVerifyRead, ReadBack, Hold, Heard, Serves
  <2>2. (Fresh /\ Stages /\ Answers)'
    BY <1>2 DEF RollBackVerifyRead, ReadBack, Hold, Fresh, Stages, Answers
  <2>3. (Serves /\ Alone)' BY <1>2 DEF RollBackVerifyRead, ReadBack, Hold, Serves, Alone
  <2>4. (Registry /\ Letters /\ KeptIsReleased /\ RecordsAreTruthful)'
    BY <1>2 DEF RollBackVerifyRead, ReadBack, Hold, Registry, Letters, KeptIsReleased,
        RecordsAreTruthful
  <2>. QED BY <2>1, <2>2, <2>3, <2>4 DEF Discipline
<1>3. CASE RollBackVerifyResult(h)
  <2>1. (Fresh /\ Stages /\ Answers)'
    BY <1>3 DEF RollBackVerifyResult, Goto, Fresh, Stages, Answers
  <2>2. (Serves /\ Heard /\ Alone)'
    BY <1>3 DEF RollBackVerifyResult, Goto, Serves, Heard, Alone
  <2>3. (Registry /\ Letters /\ KeptIsReleased /\ RecordsAreTruthful)'
    BY <1>3 DEF RollBackVerifyResult, Goto, Registry, Letters, KeptIsReleased,
        RecordsAreTruthful
  <2>. QED BY <2>1, <2>2, <2>3 DEF Discipline
<1>4. CASE Finish(h)
  <2>1. CASE h \in Runs
    <3>1. Stages' BY <1>4, <2>1 DEF Finish, End, Goto, Stages
    <3>2. (Fresh /\ Answers)' BY <1>4, <2>1 DEF Finish, End, Goto, Fresh, Answers
    <3>3. Serves' BY <1>4, <2>1 DEF Finish, End, Goto, Serves
    <3>4. \A q \in Runs : Released(q) => Released(q)'
      BY <1>4, <2>1 DEF Finish, End, Goto
    <3>5. Heard' BY <1>4, <2>1, <3>4 DEF Finish, End, Goto, Heard, Serves
    <3>6. KeptIsReleased' BY <1>4, <2>1 DEF Finish, End, Goto, KeptIsReleased, Stages
    <3>7. (Registry /\ Letters /\ Alone /\ RecordsAreTruthful)'
      BY <1>4, <2>1 DEF Finish, End, Goto, Registry, Letters, Alone, RecordsAreTruthful
    <3>. QED BY <3>1, <3>2, <3>6, <3>7, <3>3, <3>5 DEF Discipline
  <2>2. CASE h \in Settlers
    <3>1. /\ job[h] \in Runs /\ pc[job[h]] = "idle" /\ armed[job[h]] = "armed"
          /\ pc[h] = "succeeded" => verification[job[h]] = "verified"
      BY <1>4, <2>2 DEF Finish, Serves
    <3>2. Stages' BY <1>4, <2>2, <3>1 DEF Finish, End, Return, Stages
    <3>3. Serves' BY <1>4, <2>2, <3>1 DEF Finish, End, Return, Serves
    <3>4. \A q \in Runs : Released(q) => Released(q)'
      BY <1>4, <2>2, <3>1 DEF Finish, End, Return
    <3>5. Heard' BY <1>4, <2>2, <3>1, <3>4 DEF Finish, End, Return, Heard, Serves
    <3>6. KeptIsReleased'
      BY <1>4, <2>2, <3>1 DEF Finish, End, Return, KeptIsReleased, Serves
    <3>7. (Fresh /\ Answers /\ Registry)'
      BY <1>4, <2>2, <3>1 DEF Finish, End, Return, Fresh, Answers, Registry
    <3>8. (Letters /\ Alone /\ RecordsAreTruthful)'
      BY <1>4, <2>2, <3>1 DEF Finish, End, Return, Letters, Alone, RecordsAreTruthful
    <3>. QED BY <3>2, <3>3, <3>4, <3>6, <3>7, <3>8, <3>5 DEF Discipline
  <2>. QED BY <2>1, <2>2
<1>5. CASE Unheard(h)
  <2>1. Stages' BY <1>5 DEF Unheard, Hold, Stages
  <2>2. Serves' BY <1>5 DEF Unheard, Hold, Serves
  <2>3. Heard' BY <1>5 DEF Unheard, Hold, Heard
  <2>4. Registry' BY <1>5 DEF Unheard, Hold, Registry
  <2>5. Letters' BY <1>5 DEF Unheard, Hold, Letters
  <2>6. (Fresh /\ Answers /\ Alone /\ KeptIsReleased /\ RecordsAreTruthful)'
    BY <1>5 DEF Unheard, Hold, Fresh, Answers, Alone, KeptIsReleased, RecordsAreTruthful
  <2>. QED BY <2>1, <2>2, <2>3, <2>4, <2>5, <2>6 DEF Discipline
<1>6. CASE Record(h)
  <2>1. RecordsAreTruthful'
    BY <1>6 DEF Record, GuardRowAllowed, Return, RecordsAreTruthful, Heard
  <2>2. (Fresh /\ Stages /\ Answers)'
    BY <1>6 DEF Record, GuardRowAllowed, Return, Fresh, Stages, Answers
  <2>3. (Serves /\ Heard /\ Alone)'
    BY <1>6 DEF Record, GuardRowAllowed, Return, Serves, Heard, Alone
  <2>4. (Registry /\ Letters /\ KeptIsReleased)'
    BY <1>6 DEF Record, GuardRowAllowed, Return, Registry, Letters, KeptIsReleased
  <2>. QED BY <2>1, <2>2, <2>3, <2>4 DEF Discipline
<1>7. CASE Raise(h)
  <2>1. (Fresh /\ Stages /\ Answers)'
    BY <1>7 DEF Raise, GuardRowAllowed, Return, Fresh, Stages, Answers
  <2>2. (Serves /\ Heard /\ Alone)'
    BY <1>7 DEF Raise, GuardRowAllowed, Return, Serves, Heard, Alone
  <2>3. (Registry /\ Letters /\ KeptIsReleased /\ RecordsAreTruthful)'
    BY <1>7 DEF Raise, GuardRowAllowed, Return, Registry, Letters, KeptIsReleased,
        RecordsAreTruthful
  <2>. QED BY <2>1, <2>2, <2>3 DEF Discipline
<1>. QED BY <1>1, <1>2, <1>3, <1>4, <1>5, <1>6, <1>7 DEF Either

\* One step of a settler.
LEMMA CollectKeeps == ASSUME IInv, NEW s \in Settlers, Collect(s) PROVE Discipline'
<1>. USE GuardAssumption, Kinds
           DEF TypeOK, rows, runRows, guardRows, wire, agent, process, bounds, thread,
               Early, Abandoning, Crossed, Changing, Restoring, Releasing, Concluding,
               Final, Released, ArmMailed,
               Endings, MutationOutcomes, Judgements, Values, Requests,
               Handlers, Settlers, RunOf, HostEffectFor
<1>. TypeOK /\ Fresh /\ Stages /\ Answers /\ Serves /\ Heard
     /\ Registry /\ Letters /\ Alone /\ KeptIsReleased /\ RecordsAreTruthful
  BY DEF IInv, Discipline
<1>1. CASE AskSend(s)
  <2>1. Fresh' BY <1>1 DEF AskSend, SendTo, Goto, Fresh, Serves
  <2>2. (Stages /\ Answers)' BY <1>1 DEF AskSend, SendTo, Goto, Stages, Answers
  <2>3. (Serves /\ Heard /\ Alone)' BY <1>1 DEF AskSend, SendTo, Goto, Serves, Heard, Alone
  <2>4. (Registry /\ Letters /\ KeptIsReleased /\ RecordsAreTruthful)'
    BY <1>1 DEF AskSend, SendTo, Goto, Registry, Letters, KeptIsReleased, RecordsAreTruthful
  <2>. QED BY <2>1, <2>2, <2>3, <2>4 DEF Discipline
<1>2. CASE Decide(s)
  <2>1. job[s] \in Runs /\ pc[s] = "answered" /\ got[s] \in Final \cup {"armed"}
    BY <1>2 DEF Decide, Serves, Heard
  <2>2. CASE Return(s)
    <3>1. (Serves /\ Heard /\ Alone)'
      BY <1>2, <2>1, <2>2 DEF Decide, Return, Serves, Heard, Alone
    <3>2. (Fresh /\ Stages /\ Answers /\ Registry /\ Letters)'
      BY <1>2, <2>1, <2>2 DEF Decide, Return, Fresh, Stages, Answers, Registry, Letters
    <3>3. (KeptIsReleased /\ RecordsAreTruthful)'
      BY <1>2, <2>1, <2>2 DEF Decide, Return, KeptIsReleased, RecordsAreTruthful
    <3>. QED BY <3>1, <3>2, <3>3 DEF Discipline
  <2>3. CASE AfterReport(s) # "idle" /\ Goto(s, AfterReport(s))
    <3>1. PICK next : next = AfterReport(s) OBVIOUS
    <3>2. /\ next \in {"keep", "record", "rolling", "lapsed"}
          /\ next = "keep" => s \in Keepers /\ got[s] = "disarmed"
          /\ next = "rolling" => got[s] = "fired"
          /\ next \in {"rolling", "lapsed"} => s \in Keepers \/ state[job[s]] = "guarded"
          /\ got[s] \in Final
      BY <2>1, <2>3, <3>1 DEF AfterReport
    <3>3. armed[job[s]] = "armed" \/ next = "record"
      BY <2>1, <3>2 DEF Serves, Stages
    <3>4. Goto(s, next) /\ UNCHANGED <<rows, wire, agent, process>>
      BY <1>2, <2>3, <3>1 DEF Decide
    <3>5. Serves' BY <2>1, <3>2, <3>3, <3>4 DEF Goto, Serves
    <3>6. (Heard /\ Alone)' BY <2>1, <3>2, <3>4 DEF Goto, Heard, Serves, Alone
    <3>7. (Fresh /\ Stages /\ Answers /\ Registry /\ Letters)'
      BY <2>1, <3>2, <3>4 DEF Goto, Fresh, Stages, Answers, Registry, Letters
    <3>8. (KeptIsReleased /\ RecordsAreTruthful)'
      BY <2>1, <3>2, <3>4 DEF Goto, KeptIsReleased, RecordsAreTruthful
    <3>. QED BY <3>5, <3>6, <3>7, <3>8 DEF Discipline
  <2>. QED BY <1>2, <2>2, <2>3 DEF Decide
<1>3. CASE Keep(s)
  <2>1. Serves' BY <1>3 DEF Keep, GuardRowAllowed, Goto, Serves, Heard
  <2>2. (Fresh /\ Stages /\ Answers)'
    BY <1>3 DEF Keep, GuardRowAllowed, Goto, Fresh, Stages, Answers
  <2>3. (Heard /\ Alone)' BY <1>3 DEF Keep, GuardRowAllowed, Goto, Heard, Alone
  <2>4. (Registry /\ Letters /\ KeptIsReleased /\ RecordsAreTruthful)'
    BY <1>3 DEF Keep, GuardRowAllowed, Goto, Registry, Letters, KeptIsReleased,
        RecordsAreTruthful
  <2>. QED BY <2>1, <2>2, <2>3, <2>4 DEF Discipline
<1>4. CASE Rolling(s)
  <2>1. (Fresh /\ Stages /\ Answers)'
    BY <1>4 DEF Rolling, MoveState, Goto, Fresh, Stages, Answers
  <2>2. (Serves /\ Heard /\ Alone)'
    BY <1>4 DEF Rolling, MoveState, Goto, Serves, Heard, Alone
  <2>3. (Registry /\ Letters /\ KeptIsReleased /\ RecordsAreTruthful)'
    BY <1>4 DEF Rolling, MoveState, Goto, Registry, Letters, KeptIsReleased,
        RecordsAreTruthful
  <2>. QED BY <2>1, <2>2, <2>3 DEF Discipline
<1>5. CASE Rolled(s)
  <2>1. Heard' BY <1>5 DEF Rolled, Goto, Heard, Serves
  <2>2. RecordsAreTruthful' BY <1>5 DEF Rolled, Goto, RecordsAreTruthful, Heard
  <2>3. (Fresh /\ Stages /\ Answers)' BY <1>5 DEF Rolled, Goto, Fresh, Stages, Answers
  <2>4. (Serves /\ Alone)' BY <1>5 DEF Rolled, Goto, Serves, Alone
  <2>5. (Registry /\ Letters /\ KeptIsReleased)'
    BY <1>5 DEF Rolled, Goto, Registry, Letters, KeptIsReleased
  <2>. QED BY <2>1, <2>2, <2>3, <2>4, <2>5 DEF Discipline
<1>6. CASE Lapsed(s)
  <2>1. RecordsAreTruthful'
    BY <1>6 DEF Lapsed, GuardRowAllowed, Goto, RecordsAreTruthful, Heard
  <2>2. (Fresh /\ Stages /\ Answers)'
    BY <1>6 DEF Lapsed, GuardRowAllowed, Goto, Fresh, Stages, Answers
  <2>3. (Serves /\ Heard /\ Alone)'
    BY <1>6 DEF Lapsed, GuardRowAllowed, Goto, Serves, Heard, Alone
  <2>4. (Registry /\ Letters /\ KeptIsReleased)'
    BY <1>6 DEF Lapsed, GuardRowAllowed, Goto, Registry, Letters, KeptIsReleased
  <2>. QED BY <2>1, <2>2, <2>3, <2>4 DEF Discipline
<1>. QED BY <1>1, <1>2, <1>3, <1>4, <1>5, <1>6 DEF Collect

\* The agent serves a request.
LEMMA ServeKeeps == ASSUME IInv, Serve PROVE Discipline'
<1>. USE GuardAssumption, Kinds
           DEF TypeOK, rows, runRows, guardRows, wire, agent, process, bounds, thread,
               Early, Abandoning, Crossed, Changing, Restoring, Releasing, Concluding,
               Final, Released, ArmMailed,
               Endings, MutationOutcomes, Judgements, Values, Requests,
               Handlers, Settlers, RunOf, HostEffectFor
<1>. TypeOK /\ Fresh /\ Stages /\ Answers /\ Serves /\ Heard
     /\ Registry /\ Letters /\ Alone /\ KeptIsReleased /\ RecordsAreTruthful
  BY DEF IInv, Discipline
<1>1. ASSUME NEW m \in mail, ServeArm(m) PROVE Discipline'
  <2>1. m.run \in Runs /\ m.from \in Handlers /\ m = ArmLetter(m.run)
    BY <1>1 DEF ServeArm, Letters
  <2>2. m.from = m.run /\ \A n \in mail : n.kind = "arm" /\ n.run = m.run => n = m
    BY <2>1 DEF ArmLetter, Letters
  <2>3. /\ mail' = mail \ {m} /\ UNCHANGED <<rows, wire, verdict, process, job, proof>>
        /\ \/ UNCHANGED guard
           \/ guard[m.run] = "absent" /\ guard' = [guard EXCEPT ![m.run] = "armed"]
    BY <1>1 DEF ServeArm, Reply
  <2>4. \/ UNCHANGED <<pc, got, told>>
        \/ \E next \in {"confirmed", "abandon"}, a \in {"armed", "none"} :
              /\ pc[m.run] = "armwait" /\ pc' = [pc EXCEPT ![m.run] = next]
              /\ got' = [got EXCEPT ![m.run] = a]
              /\ told' = [told EXCEPT ![m.run] = "none"]
    BY <1>1, <2>2 DEF ServeArm, Reply
  <2>5. \A r \in Runs : /\ pc'[r] = "arm" => pc[r] = "arm"
                        /\ ArmMailed(r)' => ArmMailed(r) /\ r # m.run
    BY <2>1, <2>2, <2>3, <2>4
  <2>6. rev[m.run] = "idle" /\ verdict[m.run] = "none"
    BY <1>1, <2>1 DEF ServeArm, Registry
  <2>7. Registry'
    <3>1. CASE UNCHANGED guard BY <2>1, <2>3, <2>5, <3>1 DEF Registry
    <3>2. CASE guard' = [guard EXCEPT ![m.run] = "armed"]
      <4>1. /\ pc'[m.run] # "arm" /\ ~ArmMailed(m.run)'
            /\ state[m.run] # "awaiting_confirmation"
        BY <1>1, <2>1, <2>5 DEF ServeArm, Registry, Fresh
      <4>. QED BY <2>1, <2>3, <2>5, <2>6, <3>2, <4>1 DEF Registry
    <3>. QED BY <2>3, <3>1, <3>2
  <2>8. \A r \in Runs : Released(r) => Released(r)'
    BY <1>1, <2>1, <2>2, <2>3, <2>4 DEF ServeArm
  <2>9. Heard' BY <2>1, <2>3, <2>4, <2>8, SMTT(30) DEF Heard, Serves
  <2>10. Serves' BY <2>1, <2>3, <2>4, <2>8 DEF Serves
  <2>11. Fresh' /\ Answers' BY <2>1, <2>3, <2>4 DEF Fresh, Answers
  <2>12. Stages' BY <2>1, <2>3, <2>4 DEF Stages
  <2>13. (Letters /\ Alone)' BY <2>1, <2>3, <2>4 DEF Letters, Alone
  <2>14. (KeptIsReleased /\ RecordsAreTruthful)'
    BY <2>3, <2>8 DEF KeptIsReleased, RecordsAreTruthful
  <2>. QED BY <2>7, <2>9, <2>10, <2>11, <2>13, <2>14, <2>12 DEF Discipline
<1>2. ASSUME NEW m \in mail, ServeDisarm(m) PROVE Discipline'
  <2>1. m.run \in Runs /\ m.from \in Handlers /\ guard[m.run] # "firing"
    BY <1>2 DEF ServeDisarm, RegistryFree
  <2>2. PICK now : now = IF guard[m.run] = "armed" THEN "disarmed" ELSE guard[m.run]
    OBVIOUS
  <2>3. now \in {"absent", "fired", "disarmed"} /\ guard' = [guard EXCEPT ![m.run] = now]
    <3>1. now \in {"absent", "fired", "disarmed"} BY <2>1, <2>2 DEF Held
    <3>2. guard' = [guard EXCEPT ![m.run] = now] BY <1>2, <2>2 DEF ServeDisarm
    <3>. QED BY <3>1, <3>2
  <2>4. mail' = mail \ {m} /\ UNCHANGED <<rows, wire, verdict, process, job, proof>>
    BY <1>2 DEF ServeDisarm, Reply
  <2>5. \/ UNCHANGED <<pc, got, told>>
        \/ /\ RunOf(m.from) = m.run
           /\ \/ pc[m.from] = "askwait" /\ pc' = [pc EXCEPT ![m.from] = "answered"]
              \/ pc[m.from] = "abandonwait" /\ pc' = [pc EXCEPT ![m.from] = "abandonrow"]
              \/ pc[m.from] = "releasewait" /\ pc' = [pc EXCEPT ![m.from] = "record"]
           /\ got' = [got EXCEPT ![m.from] = PhaseOf(now)]
           /\ told' = [told EXCEPT ![m.from] = verdict[m.run]]
    BY <1>2, <2>2 DEF ServeDisarm, Reply
  <2>6. Registry' BY <2>1, <2>2, <2>3, <2>4, <2>5 DEF Registry
  <2>7. /\ \A r \in Runs : Released(r) => Released(r)'
        /\ now = "disarmed" => Released(m.run)'
    BY <2>1, <2>2, <2>3, <2>4, <2>5 DEF Registry
  <2>8. Heard'
    <3>1. CASE UNCHANGED <<pc, got, told>> BY <2>4, <2>7, <3>1, SMTT(30) DEF Heard, Serves
    <3>2. CASE ~UNCHANGED <<pc, got, told>>
      <4>1. /\ RunOf(m.from) = m.run /\ pc[m.from] # "idle"
            /\ got' = [got EXCEPT ![m.from] = PhaseOf(now)]
            /\ told' = [told EXCEPT ![m.from] = verdict[m.run]]
            /\ \E next \in {"answered", "abandonrow", "record"} :
                  pc' = [pc EXCEPT ![m.from] = next]
        BY <2>5, <3>2
      <4>2. PhaseOf(now) \in Final /\ (PhaseOf(now) = "disarmed" => now = "disarmed")
            /\ (PhaseOf(now) = "fired" => verdict[m.run] # "none")
        BY <2>1, <2>2, <2>3 DEF PhaseOf, Registry
      <4>3. /\ verdict[m.run] = "written" => rev[m.run] = "written"
            /\ verdict[m.run] = "not_written" => rev[m.run] = "not_written"
        BY <2>1 DEF Registry
      <4>. QED BY <2>1, <2>4, <2>7, <4>1, <4>2, <4>3, SMTT(30) DEF Heard, Serves
    <3>. QED BY <3>1, <3>2
  <2>9. Serves' BY <2>1, <2>4, <2>5, <2>7 DEF Serves
  <2>10. (Fresh /\ Stages /\ Answers)' BY <2>1, <2>4, <2>5 DEF Fresh, Stages, Answers
  <2>11. (Letters /\ Alone)' BY <2>1, <2>4, <2>5 DEF Letters, Alone
  <2>12. (KeptIsReleased /\ RecordsAreTruthful)'
    BY <2>4, <2>7 DEF KeptIsReleased, RecordsAreTruthful
  <2>. QED BY <2>6, <2>8, <2>9, <2>10, <2>11, <2>12 DEF Discipline
<1>3. ASSUME NEW m \in mail, ServeStatus(m) PROVE Discipline'
  <2>1. m.run \in Runs /\ m.from \in Handlers /\ guard[m.run] # "firing"
    BY <1>3 DEF ServeStatus, RegistryFree
  <2>2. mail' = mail \ {m} /\ UNCHANGED <<rows, wire, guard, verdict, process, job, proof>>
    BY <1>3 DEF ServeStatus, Reply
  <2>3. \/ UNCHANGED <<pc, got, told>>
        \/ /\ RunOf(m.from) = m.run
           /\ pc[m.from] = "askwait" /\ pc' = [pc EXCEPT ![m.from] = "answered"]
           /\ got' = [got EXCEPT ![m.from] = PhaseOf(guard[m.run])]
           /\ told' = [told EXCEPT ![m.from] = verdict[m.run]]
    BY <1>3 DEF ServeStatus, Reply
  <2>4. \A r \in Runs : Released(r) => Released(r)'
    BY <2>1, <2>2, <2>3
  <2>5. Heard'
    <3>1. /\ PhaseOf(guard[m.run]) \in Final \cup {"armed"}
          /\ PhaseOf(guard[m.run]) = "disarmed" => Released(m.run)
          /\ PhaseOf(guard[m.run]) = "fired" => verdict[m.run] # "none"
          /\ verdict[m.run] = "written" => rev[m.run] = "written"
          /\ verdict[m.run] = "not_written" => rev[m.run] = "not_written"
      BY <2>1 DEF PhaseOf, Registry, Held
    <3>. QED BY <2>1, <2>2, <2>3, <2>4, <3>1, SMTT(30) DEF Heard, Serves
  <2>6. (Registry /\ Serves)' BY <2>1, <2>2, <2>3, <2>4 DEF Registry, Serves
  <2>7. (Fresh /\ Stages /\ Answers)' BY <2>1, <2>2, <2>3 DEF Fresh, Stages, Answers
  <2>8. (Letters /\ Alone)' BY <2>1, <2>2, <2>3 DEF Letters, Alone
  <2>9. (KeptIsReleased /\ RecordsAreTruthful)'
    BY <2>2, <2>4 DEF KeptIsReleased, RecordsAreTruthful
  <2>. QED BY <2>5, <2>6, <2>7, <2>8, <2>9 DEF Discipline
<1>. QED BY <1>1, <1>2, <1>3 DEF Serve

\* A guard fires, is evicted, or is lost with the agent.
LEMMA RegistryKeeps == ASSUME IInv, RegistryStep PROVE Discipline'
<1>. USE GuardAssumption, Kinds
           DEF TypeOK, rows, runRows, guardRows, wire, agent, process, bounds, thread,
               Early, Abandoning, Crossed, Changing, Restoring, Releasing, Concluding,
               Final, Released, ArmMailed,
               Endings, MutationOutcomes, Judgements, Values, Requests,
               Handlers, Settlers, RunOf, HostEffectFor
<1>. TypeOK /\ Fresh /\ Stages /\ Answers /\ Serves /\ Heard
     /\ Registry /\ Letters /\ Alone /\ KeptIsReleased /\ RecordsAreTruthful
  BY DEF IInv, Discipline
<1>1. ASSUME NEW r \in Runs, Fire(r) PROVE Discipline'
  <2>1. Heard' BY <1>1 DEF Fire, RegistryFree, Heard, Registry
  <2>2. RecordsAreTruthful' BY <1>1 DEF Fire, RegistryFree, RecordsAreTruthful, Registry
  <2>3. (Fresh /\ Stages /\ Answers)' BY <1>1 DEF Fire, RegistryFree, Fresh, Stages, Answers
  <2>4. (Serves /\ Alone)' BY <1>1 DEF Fire, RegistryFree, Serves, Alone
  <2>5. (Registry /\ Letters /\ KeptIsReleased)'
    BY <1>1 DEF Fire, RegistryFree, Registry, Letters, KeptIsReleased
  <2>. QED BY <2>1, <2>2, <2>3, <2>4, <2>5 DEF Discipline
<1>2. ASSUME NEW r \in Runs, FireDone(r) PROVE Discipline'
  <2>1. (Fresh /\ Stages /\ Answers)' BY <1>2 DEF FireDone, AnswerTo, Fresh, Stages, Answers
  <2>2. (Serves /\ Heard /\ Alone)' BY <1>2 DEF FireDone, AnswerTo, Serves, Heard, Alone
  <2>3. (Registry /\ Letters /\ KeptIsReleased /\ RecordsAreTruthful)'
    BY <1>2 DEF FireDone, AnswerTo, Registry, Letters, KeptIsReleased, RecordsAreTruthful
  <2>. QED BY <2>1, <2>2, <2>3 DEF Discipline
<1>3. ASSUME NEW r \in Runs, Evict(r) PROVE Discipline'
  <2>1. (Fresh /\ Stages /\ Answers)'
    BY <1>3 DEF Evict, RegistryFree, Fresh, Stages, Answers
  <2>2. (Serves /\ Heard /\ Alone)' BY <1>3 DEF Evict, RegistryFree, Serves, Heard, Alone
  <2>3. (Registry /\ Letters /\ KeptIsReleased /\ RecordsAreTruthful)'
    BY <1>3 DEF Evict, RegistryFree, Registry, Letters, KeptIsReleased, RecordsAreTruthful
  <2>. QED BY <2>1, <2>2, <2>3 DEF Discipline
<1>4. CASE AgentRestart
  <2>1. Heard' BY <1>4 DEF AgentRestart, Heard, Serves
  <2>2. (Fresh /\ Stages /\ Answers)' BY <1>4 DEF AgentRestart, Fresh, Stages, Answers
  <2>3. (Serves /\ Alone)' BY <1>4 DEF AgentRestart, Serves, Alone
  <2>4. (Registry /\ Letters /\ KeptIsReleased /\ RecordsAreTruthful)'
    BY <1>4 DEF AgentRestart, Registry, Letters, KeptIsReleased, RecordsAreTruthful
  <2>. QED BY <2>1, <2>2, <2>3, <2>4 DEF Discipline
<1>. QED BY <1>1, <1>2, <1>3, <1>4 DEF RegistryStep

\* The helper carries a write out, or the interface moves or is observed.
LEMMA HostKeeps == ASSUME IInv, HostStep PROVE Discipline'
<1>. USE GuardAssumption, Kinds
           DEF TypeOK, rows, runRows, guardRows, wire, agent, process, bounds, thread,
               Early, Abandoning, Crossed, Changing, Restoring, Releasing, Concluding,
               Final, Released, ArmMailed,
               Endings, MutationOutcomes, Judgements, Values, Requests,
               Handlers, Settlers, RunOf, HostEffectFor
<1>. TypeOK /\ Fresh /\ Stages /\ Answers /\ Serves /\ Heard
     /\ Registry /\ Letters /\ Alone /\ KeptIsReleased /\ RecordsAreTruthful
  BY DEF IInv, Discipline
<1>1. ASSUME NEW r \in Runs, Land(r) PROVE Discipline'
  <2>1. \E to \in {"written", "not_written"} :
          call[r] = "sent" /\ call' = [call EXCEPT ![r] = to]
    BY <1>1 DEF Land
  <2>2. UNCHANGED <<rows, undo, rev, agent, thread, process>> BY <1>1 DEF Land
  <2>3. Fresh' BY <2>1, <2>2 DEF Fresh
  <2>4. Stages' BY <2>1, <2>2 DEF Stages
  <2>5. Answers' BY <2>1, <2>2 DEF Answers
  <2>6. RecordsAreTruthful' BY <2>1, <2>2 DEF RecordsAreTruthful
  <2>7. (Serves /\ Heard)' BY <2>2 DEF Serves, Heard
  <2>8. (Registry /\ Letters /\ Alone /\ KeptIsReleased)'
    BY <2>2 DEF Registry, Letters, Alone, KeptIsReleased
  <2>. QED BY <2>3, <2>4, <2>5, <2>6, <2>7, <2>8 DEF Discipline
<1>2. ASSUME NEW r \in Runs, RollBackLand(r) PROVE Discipline'
  <2>1. (Fresh /\ Stages /\ Answers)' BY <1>2 DEF RollBackLand, Fresh, Stages, Answers
  <2>2. (Serves /\ Heard /\ Alone)' BY <1>2 DEF RollBackLand, Serves, Heard, Alone
  <2>3. (Registry /\ Letters /\ KeptIsReleased /\ RecordsAreTruthful)'
    BY <1>2 DEF RollBackLand, Registry, Letters, KeptIsReleased, RecordsAreTruthful
  <2>. QED BY <2>1, <2>2, <2>3 DEF Discipline
<1>3. ASSUME NEW r \in Runs, ReversalLand(r) PROVE Discipline'
  <2>1. Heard' BY <1>3 DEF ReversalLand, Heard, Serves
  <2>2. (Fresh /\ Stages /\ Answers)' BY <1>3 DEF ReversalLand, Fresh, Stages, Answers
  <2>3. (Serves /\ Alone)' BY <1>3 DEF ReversalLand, Serves, Alone
  <2>4. (Registry /\ Letters /\ KeptIsReleased /\ RecordsAreTruthful)'
    BY <1>3 DEF ReversalLand, Registry, Letters, KeptIsReleased, RecordsAreTruthful
  <2>. QED BY <2>1, <2>2, <2>3, <2>4 DEF Discipline
<1>4. CASE HostMoves
  <2>1. (Fresh /\ Stages /\ Answers)' BY <1>4 DEF HostMoves, Fresh, Stages, Answers
  <2>2. (Serves /\ Heard /\ Alone)' BY <1>4 DEF HostMoves, Serves, Heard, Alone
  <2>3. (Registry /\ Letters /\ KeptIsReleased /\ RecordsAreTruthful)'
    BY <1>4 DEF HostMoves, Registry, Letters, KeptIsReleased, RecordsAreTruthful
  <2>. QED BY <2>1, <2>2, <2>3 DEF Discipline
<1>5. CASE Observe
  <2>1. (Fresh /\ Stages /\ Answers)' BY <1>5 DEF Observe, Fresh, Stages, Answers
  <2>2. (Serves /\ Heard /\ Alone)' BY <1>5 DEF Observe, Serves, Heard, Alone
  <2>3. (Registry /\ Letters /\ KeptIsReleased /\ RecordsAreTruthful)'
    BY <1>5 DEF Observe, Registry, Letters, KeptIsReleased, RecordsAreTruthful
  <2>. QED BY <2>1, <2>2, <2>3 DEF Discipline
<1>. QED BY <1>1, <1>2, <1>3, <1>4, <1>5 DEF HostStep

\* Requests begin, the backend dies, restarts and settles.
LEMMA BackendKeeps == ASSUME IInv, BackendStep PROVE Discipline'
<1>. USE GuardAssumption, Kinds
           DEF TypeOK, rows, runRows, guardRows, wire, agent, process, bounds, thread,
               Early, Abandoning, Crossed, Changing, Restoring, Releasing, Concluding,
               Final, Released, ArmMailed,
               Endings, MutationOutcomes, Judgements, Values, Requests,
               Handlers, Settlers, RunOf, HostEffectFor
<1>. TypeOK /\ Fresh /\ Stages /\ Answers /\ Serves /\ Heard
     /\ Registry /\ Letters /\ Alone /\ KeptIsReleased /\ RecordsAreTruthful
  BY DEF IInv, Discipline
<1>1. ASSUME NEW r \in Runs, Begin(r) PROVE Discipline'
  <2>1. Stages' BY <1>1 DEF Begin, Goto, Stages, Fresh
  <2>2. Serves' BY <1>1 DEF Begin, Goto, Serves, Fresh
  <2>3. Registry' BY <1>1 DEF Begin, Goto, Registry, Fresh
  <2>4. Letters' BY <1>1 DEF Begin, Goto, Letters, Fresh
  <2>5. (Fresh /\ Answers)' BY <1>1 DEF Begin, Goto, Fresh, Answers
  <2>6. (Heard /\ Alone)' BY <1>1 DEF Begin, Goto, Heard, Alone
  <2>7. (KeptIsReleased /\ RecordsAreTruthful)'
    BY <1>1 DEF Begin, Goto, KeptIsReleased, RecordsAreTruthful
  <2>. QED BY <2>1, <2>2, <2>3, <2>4, <2>5, <2>6, <2>7 DEF Discipline
<1>2. ASSUME NEW r \in Runs, NEW k \in Keepers, KeepBegin(k, r) PROVE Discipline'
  <2>1. Serves' BY <1>2 DEF KeepBegin, Serves, Stages
  <2>2. (Fresh /\ Stages /\ Answers)' BY <1>2 DEF KeepBegin, Fresh, Stages, Answers
  <2>3. (Heard /\ Alone)' BY <1>2 DEF KeepBegin, Heard, Alone
  <2>4. (Registry /\ Letters /\ KeptIsReleased /\ RecordsAreTruthful)'
    BY <1>2 DEF KeepBegin, Registry, Letters, KeptIsReleased, RecordsAreTruthful
  <2>. QED BY <2>1, <2>2, <2>3, <2>4 DEF Discipline
<1>3. CASE Crash
  <2>1. (Fresh /\ Stages /\ Answers)' BY <1>3 DEF Crash, Fresh, Stages, Answers
  <2>2. (Serves /\ Heard /\ Alone)' BY <1>3 DEF Crash, Serves, Heard, Alone
  <2>3. (Registry /\ Letters /\ KeptIsReleased /\ RecordsAreTruthful)'
    BY <1>3 DEF Crash, Registry, Letters, KeptIsReleased, RecordsAreTruthful
  <2>. QED BY <2>1, <2>2, <2>3 DEF Discipline
<1>4. CASE Restart
  <2>1. (Fresh /\ Stages /\ Answers)' BY <1>4 DEF Restart, Fresh, Stages, Answers
  <2>2. (Serves /\ Heard /\ Alone)' BY <1>4 DEF Restart, Serves, Heard, Alone
  <2>3. (Registry /\ Letters /\ KeptIsReleased /\ RecordsAreTruthful)'
    BY <1>4 DEF Restart, Registry, Letters, KeptIsReleased, RecordsAreTruthful
  <2>. QED BY <2>1, <2>2, <2>3 DEF Discipline
<1>5. CASE SettleDone
  <2>1. (Fresh /\ Stages /\ Answers)'
    BY <1>5 DEF SettleDone, GuardsAsked, Fresh, Stages, Answers
  <2>2. (Serves /\ Heard /\ Alone)'
    BY <1>5 DEF SettleDone, GuardsAsked, Serves, Heard, Alone
  <2>3. (Registry /\ Letters /\ KeptIsReleased /\ RecordsAreTruthful)'
    BY <1>5 DEF SettleDone, GuardsAsked, Registry, Letters, KeptIsReleased,
        RecordsAreTruthful
  <2>. QED BY <2>1, <2>2, <2>3 DEF Discipline
<1>6. ASSUME NEW r \in Runs, BootAsk(r) PROVE Discipline'
  <2>1. Serves' BY <1>6 DEF BootAsk, Serves, Alone, Stages
  <2>2. (Fresh /\ Stages /\ Answers)' BY <1>6 DEF BootAsk, Fresh, Stages, Answers
  <2>3. (Heard /\ Alone)' BY <1>6 DEF BootAsk, Heard, Alone
  <2>4. (Registry /\ Letters /\ KeptIsReleased /\ RecordsAreTruthful)'
    BY <1>6 DEF BootAsk, Registry, Letters, KeptIsReleased, RecordsAreTruthful
  <2>. QED BY <2>1, <2>2, <2>3, <2>4 DEF Discipline
<1>7. ASSUME NEW r \in Runs, SettleOutcome(r) PROVE Discipline'
  <2>1. Stages'
    BY <1>7 DEF SettleOutcome, OutcomeOnRecovery, Interrupted, GuardsAsked, MutationColumn,
        Stages, Alone
  <2>2. RecordsAreTruthful'
    BY <1>7 DEF SettleOutcome, OutcomeOnRecovery, Interrupted, GuardsAsked, MutationColumn,
        RecordsAreTruthful, Stages
  <2>3. (Fresh /\ Answers)'
    BY <1>7 DEF SettleOutcome, OutcomeOnRecovery, Interrupted, GuardsAsked, MutationColumn,
        Fresh, Answers
  <2>4. (Serves /\ Heard /\ Alone)'
    BY <1>7 DEF SettleOutcome, OutcomeOnRecovery, Interrupted, GuardsAsked, MutationColumn,
        Serves, Heard, Alone
  <2>5. (Registry /\ Letters /\ KeptIsReleased)'
    BY <1>7 DEF SettleOutcome, OutcomeOnRecovery, Interrupted, GuardsAsked, MutationColumn,
        Registry, Letters, KeptIsReleased
  <2>. QED BY <2>1, <2>2, <2>3, <2>4, <2>5 DEF Discipline
<1>8. ASSUME NEW r \in Runs, SettleFinish(r) PROVE Discipline'
  <2>1. (Fresh /\ Stages /\ Answers)'
    BY <1>8 DEF SettleFinish, End, Interrupted, GuardsAsked, Fresh, Stages, Answers
  <2>2. (Serves /\ Heard /\ Alone)'
    BY <1>8 DEF SettleFinish, End, Interrupted, GuardsAsked, Serves, Heard, Alone
  <2>3. (Registry /\ Letters /\ KeptIsReleased /\ RecordsAreTruthful)'
    BY <1>8 DEF SettleFinish, End, Interrupted, GuardsAsked, Registry, Letters,
        KeptIsReleased, RecordsAreTruthful
  <2>. QED BY <2>1, <2>2, <2>3 DEF Discipline
<1>. QED BY <1>1, <1>2, <1>3, <1>4, <1>5, <1>6, <1>7, <1>8 DEF BackendStep, Startup
-----------------------------------------------------------------------------

\* The initial state.
LEMMA Start == Init => IInv
<1>. SUFFICES ASSUME Init PROVE IInv OBVIOUS
<1>. USE GuardAssumption, Kinds DEF Init
<1>1. TypeOK
  BY DEF TypeOK, Handlers, Places, RunStates, HostEffects, Results, MutationColumn,
      Judgements, Values, Messages, Held
<1>2. Fresh /\ Stages /\ Answers /\ Serves /\ Heard
  BY DEF Fresh, Stages, Answers, Serves, Heard, Releasing, Crossed, Early, Abandoning,
      Changing, Restoring
<1>3. Registry /\ Letters /\ Alone /\ KeptIsReleased /\ RecordsAreTruthful
  BY DEF Registry, Letters, Alone, KeptIsReleased, RecordsAreTruthful, ArmMailed
<1>. QED BY <1>1, <1>2, <1>3 DEF IInv, Discipline

\* Every step keeps the invariant.
LEMMA Steps == IInv /\ [Next]_vars => IInv'
<1>. SUFFICES ASSUME IInv, [Next]_vars PROVE IInv' OBVIOUS
<1>1. CASE \E h \in Handlers : Handle(h)
  <2>1. PICK h \in Handlers : Handle(h) BY <1>1
  <2>2. CASE Either(h) BY <2>2, EitherTyped, EitherKeeps DEF IInv
  <2>3. CASE h \in Runs /\ Apply(h) BY <2>3, ApplyTyped, ApplyKeeps DEF IInv
  <2>4. CASE h \in Settlers /\ Collect(h) BY <2>4, CollectTyped, CollectKeeps DEF IInv
  <2>. QED BY <2>1, <2>2, <2>3, <2>4 DEF Handle
<1>2. CASE Serve BY <1>2, ServeTyped, ServeKeeps DEF IInv
<1>3. CASE RegistryStep BY <1>3, RegistryTyped, RegistryKeeps DEF IInv
<1>4. CASE HostStep BY <1>4, HostTyped, HostKeeps DEF IInv
<1>5. CASE BackendStep BY <1>5, BackendTyped, BackendKeeps DEF IInv
<1>6. CASE UNCHANGED vars
  <2>. USE <1>6 DEF IInv, Discipline, vars, rows, runRows, guardRows, wire, agent, thread,
                    process, bounds
  <2>1. TypeOK' BY DEF TypeOK
  <2>2. (Fresh /\ Stages /\ Answers)' BY DEF Fresh, Stages, Answers
  <2>3. (Serves /\ Heard)' BY DEF Serves, Heard, Released, ArmMailed, RunOf
  <2>4. (Registry /\ Letters /\ Alone)' BY DEF Registry, ArmMailed, Letters, Alone
  <2>5. (KeptIsReleased /\ RecordsAreTruthful)'
    BY DEF KeptIsReleased, Released, ArmMailed, RecordsAreTruthful
  <2>. QED BY <2>1, <2>2, <2>3, <2>4, <2>5
<1>. QED BY <1>1, <1>2, <1>3, <1>4, <1>5, <1>6
     DEF Next, RegistryStep, HostStep, BackendStep

\* Nobody but the agent touches its registry.
LEMMA OnlyTheAgent ==
    ASSUME [Next]_vars
    PROVE  UNCHANGED guard \/ Serve \/ RegistryStep
<1>. USE DEF agent
<1>1. ASSUME NEW r \in Runs, Apply(r) PROVE UNCHANGED guard
  BY <1>1 DEF Apply, SendTo, MoveState, ReadBack, ArmSend, ArmUnheard, ArmConfirmed,
      AbandonSend, AbandonRow, AbandonFail, Cross, Dispatch, Send, Answer, Settle,
      VerifyStart, VerifyRead, VerifyResult, HoldStart, RollBack, RollBackRead,
      RollBackMark, RollBackSend, RollBackAnswer, RollBackResult, ReleaseSend
<1>2. ASSUME NEW h \in Handlers, Either(h) PROVE UNCHANGED guard
  BY <1>2 DEF Either, MoveState, ReadBack, RollBackVerifyStart, RollBackVerifyRead,
      RollBackVerifyResult, Finish, Unheard, Record, Raise
<1>3. ASSUME NEW s \in Settlers, Collect(s) PROVE UNCHANGED guard
  BY <1>3 DEF Collect, SendTo, MoveState, AskSend, Decide, Keep, Rolling, Rolled, Lapsed
<1>4. ASSUME BackendStep \/ HostStep PROVE UNCHANGED guard
  BY <1>4 DEF BackendStep, HostStep, Crash, Restart, Startup, SettleDone, BootAsk,
      SettleOutcome, SettleFinish, HostMoves, Observe, Begin, KeepBegin, Land,
      RollBackLand, ReversalLand
<1>. QED
  BY <1>1, <1>2, <1>3, <1>4
  DEF Next, Handle, RegistryStep, HostStep, BackendStep, vars, agent

LEMMA Invariant == Spec => []IInv
BY Start, Steps, PTL DEF Spec

-----------------------------------------------------------------------------
(* The theorems *)

\* Every reachable state is well typed: in particular every settlement the backend
\* writes to run_guards is one of the phases its column admits.
THEOREM TypesHold == Spec => []TypeOK
<1>1. IInv => TypeOK BY DEF IInv
<1>. QED BY <1>1, Invariant, PTL

\* A guarded change that ended `succeeded` was kept on both proofs, and its guard
\* never takes it back (_keep, GuardRegistry.disarm and _fire): the disarm and the
\* timer exclude each other under the registry's lock, and no guard is armed twice.
THEOREM KeptIsNeverTakenBack == Spec => []KeptStaysKept
<1>1. IInv => KeptStaysKept
  BY DEF IInv, Discipline, KeptIsReleased, Stages, Released, KeptStaysKept
<1>. QED BY <1>1, Invariant, PTL

\* What the store says of the write, of the restoration and of the guard's own
\* reversal is what became of the messages (_settle, _roll_back, _settle_lapsed,
\* _record_guard_settlement, settle_interrupted).
THEOREM GuardRecordsAreTruthful == Spec => []RecordsAreTruthful
<1>1. IInv => RecordsAreTruthful BY DEF IInv, Discipline
<1>. QED BY <1>1, Invariant, PTL

\* No Change row and no write without a guard whose holder confirmed it (_cross and
\* the trigger on changes).
THEOREM EveryWriteIsGuarded == Spec => []WriteNeedsConfirmedGuard
<1>1. IInv => WriteNeedsConfirmedGuard
  BY DEF IInv, Discipline, Stages, WriteNeedsConfirmedGuard
<1>. QED BY <1>1, Invariant, PTL

\* While the change is in flight its armed guard is disarmed only by a request that
\* proved the connection (guard_keep, _release_guard, settle_interrupted_guards).
THEOREM OnlyProofReleasesGuard == Spec => OnlyProofReleases
<1>1. ASSUME IInv, [Next]_vars, NEW r \in Runs,
             guard[r] = "armed", guard'[r] = "disarmed", result[r] = "in_flight"
      PROVE  \E m \in mail : m.run = r /\ m.kind = "disarm" /\ m.proved
  <2>1. CASE UNCHANGED guard BY <1>1, <2>1
  <2>2. CASE Serve
    <3>. TypeOK /\ Letters BY <1>1 DEF IInv, Discipline
    <3>1. PICK m \in mail : ServeArm(m) \/ ServeDisarm(m) \/ ServeStatus(m)
      BY <2>2 DEF Serve
    <3>2. m.run \in Runs BY DEF TypeOK, Requests
    <3>3. ServeDisarm(m) /\ m.run = r
      BY <1>1, <3>1, <3>2 DEF ServeArm, ServeDisarm, ServeStatus, TypeOK
    <3>. QED BY <1>1, <3>3 DEF ServeDisarm, Letters
  <2>3. CASE RegistryStep
    BY <1>1, <2>3 DEF IInv, TypeOK, RegistryStep, AgentRestart, Fire, FireDone, Evict
  <2>. QED BY <1>1, <2>1, <2>2, <2>3, OnlyTheAgent
<1>2. IInv /\ [Next]_vars =>
        [\A r \in Runs :
            guard[r] = "armed" /\ guard'[r] = "disarmed" /\ result[r] = "in_flight"
            => \E m \in mail : m.run = r /\ m.kind = "disarm" /\ m.proved]_vars
  BY <1>1
<1>. QED BY <1>2, Invariant, PTL DEF Spec, OnlyProofReleases
=============================================================================
