-------------------------- MODULE ServiceJobProofs --------------------------
(***************************************************************************)
(* What the executor and the agent say of a service job, for any size of   *)
(* the signal buffer and any number of jobs, managers and executions.      *)
(***************************************************************************)
EXTENDS ServiceJob, SequenceTheorems, TLAPS

-----------------------------------------------------------------------------
(* The inductive invariant.                                                *)

Kinds  == {"start", "stop", "restart"}
Signal == [id : Nat, unit : {"target", "other"}, result : {"done", "failed"}]

\* Where a dispatch stands: not asked of systemd yet, or with the call made.
BeforeCall == {"idle", "asked", "watching", "read", "checked"}
AgentPlace == BeforeCall \cup {"called", "waiting", "answered"}
Outcome    == {"none", "written", "not_written", "write_unknown"}

SvcType     == [state : {"running", "settling", "inactive", "failed"}, inv : Nat]
ManagerType == [gen : Nat, next : Nat, job : [id : Nat, kind : Kinds \cup {"none"}]]
CallType    == [is : {"none", "sent", "queued", "error", "job"}, id : Nat]
AgentType   == [pc : AgentPlace, owner : Nat, changed : BOOLEAN, inv : Nat, path : Nat,
                outcome : Outcome, torn : BOOLEAN]
BackendType == [pc : {"idle", "correlated", "asked", "reported", "judged"}, baseline : Nat,
                report : Outcome, verdict : {"none", "verified", "mismatch"}, seen : Nat]
TruthType   == [accepted : BOOLEAN, lost : BOOLEAN, gen : Nat, id : Nat, done : BOOLEAN, inv : Nat]

Typed ==
    /\ verb \in Kinds /\ svc \in SvcType /\ manager \in ManagerType /\ call \in CallType
    /\ signals \in Seq(Signal)
    /\ agent \in AgentType /\ backend \in BackendType /\ truth \in TruthType

\* A manager numbers its jobs upwards, and the one queued has a number it gave out.
Numbered ==
    /\ manager.next >= 1
    /\ manager.job # NoJob => manager.job.id >= 1 /\ manager.job.id < manager.next

\* How far the dispatch, the call and the report can be apart.
Order ==
    /\ backend.pc \in {"idle", "correlated"} => agent.pc = "idle"
    /\ agent.pc \in BeforeCall => call.is = "none"
    /\ agent.pc \in {"idle", "asked"} => signals = <<>>
    /\ agent.pc = "waiting" => call.is = "job" /\ agent.path = call.id
    /\ agent.pc # "answered" => agent.outcome = "none"
    /\ agent.outcome = "not_written" => call.is \in {"none", "error"} \/ agent.torn
    /\ backend.pc \in {"idle", "correlated", "asked"} => backend.report = "none"
    /\ backend.report = "written" => agent.outcome = "written"
    /\ backend.report = "not_written" => agent.outcome = "not_written" \/ agent.pc = "idle"
    /\ backend.pc # "judged" => backend.verdict = "none"

\* The call was accepted exactly if its answer is a job, or was to be one: by the manager
\* that was watched or a later one, under a number no later job of that manager has.
Accepted ==
    /\ truth.accepted <=> call.is \in {"queued", "job"} \/ truth.lost
    /\ truth.lost => call.is = "error"
    /\ truth.done => truth.accepted
    /\ truth.accepted =>
          /\ call.is # "error" => call.id = truth.id
          /\ agent.owner <= truth.gen /\ truth.gen <= manager.gen
          /\ truth.inv <= svc.inv
          /\ truth.gen = manager.gen =>
                /\ truth.id < manager.next
                /\ manager.job # NoJob /\ manager.job.id = truth.id => manager.job.kind = verb
    /\ agent.owner <= manager.gen

\* What the watch holds came from the watched manager, while that one is still there:
\* ended jobs, and the end of our own only if it did end.
Held == {signals[i] : i \in 1 .. Len(signals)}

WatchFits ==
    Watching /\ manager.gen = agent.owner =>
        \A s \in Held :
            /\ s.id >= 1 /\ s.id < manager.next
            /\ manager.job # NoJob => s.id # manager.job.id
            /\ truth.accepted /\ s.id = truth.id /\ s.unit = "target" /\ s.result = "done" =>
                  truth.done

\* A restart that was carried out began a new execution.
Restarted == verb = "restart" /\ truth.done => svc.inv > truth.inv

IInv ==
    /\ Typed /\ Numbered /\ Order /\ Accepted /\ WatchFits /\ Restarted
    /\ WrittenWasDone /\ VerifiedRestartIsOurs

-----------------------------------------------------------------------------
(* The watch.                                                              *)

\* A signal is held only while its manager is watched; others may be evicted for it.
LEMMA SignalledHolds ==
    ASSUME Typed, NEW s \in Signal
    PROVE  /\ Signalled(s) \in Seq(Signal)
           /\ ~(Watching /\ manager.gen = agent.owner) => Signalled(s) = signals
           /\ \A i \in 1 .. Len(Signalled(s)) :
                 Signalled(s)[i] = s \/ \E j \in 1 .. Len(signals) : Signalled(s)[i] = signals[j]
<1>0. signals \in Seq(Signal) /\ Len(signals) \in Nat /\ Buffer \in Nat \ {0}
  BY ServiceJobAssumption DEF Typed
<1>1. CASE ~(Watching /\ manager.gen = agent.owner)
  BY <1>0, <1>1 DEF Signalled
<1>2. CASE Watching /\ manager.gen = agent.owner /\ Len(signals) < Buffer
  <2>1. Signalled(s) = Append(signals, s)
    BY <1>2 DEF Signalled
  <2>2. /\ Append(signals, s) \in Seq(Signal) /\ Len(Append(signals, s)) = Len(signals) + 1
        /\ \A i \in 1 .. Len(signals) : Append(signals, s)[i] = signals[i]
        /\ Append(signals, s)[Len(signals) + 1] = s
    BY <1>0, AppendProperties
  <2>3. QED
    BY <1>0, <1>2, <2>1, <2>2
<1>3. CASE Watching /\ manager.gen = agent.owner /\ ~(Len(signals) < Buffer)
  <2> DEFINE t == Tail(signals)
  <2>1. Signalled(s) = Append(t, s)
    BY <1>3 DEF Signalled
  <2>2. signals # <<>>
    BY <1>0, <1>3
  <2>3. /\ t \in Seq(Signal) /\ Len(t) = Len(signals) - 1
        /\ \A i \in 1 .. Len(t) : t[i] = signals[i + 1]
    BY <1>0, <2>2, HeadTailProperties
  <2> HIDE DEF t
  <2>4. /\ Append(t, s) \in Seq(Signal) /\ Len(Append(t, s)) = Len(t) + 1
        /\ \A i \in 1 .. Len(t) : Append(t, s)[i] = t[i]
        /\ Append(t, s)[Len(t) + 1] = s
    BY <2>3, AppendProperties
  <2>5. \A i \in 1 .. Len(t) : i + 1 \in 1 .. Len(signals)
    BY <1>0, <2>3
  <2>6. \A i \in 1 .. Len(Append(t, s)) : i = Len(t) + 1 \/ i \in 1 .. Len(t)
    BY <1>0, <2>3, <2>4
  <2>7. QED
    BY <1>3, <2>1, <2>3, <2>4, <2>5, <2>6
<1>4. QED
  BY <1>1, <1>2, <1>3

LEMMA HeldIds ==
    ASSUME Typed
    PROVE  \A s \in Held : s.id \in Nat
<1>1. \A i \in 1 .. Len(signals) : signals[i] \in Signal
  BY DEF Typed
<1>2. \A s \in Held : s \in Signal
  BY <1>1 DEF Held
<1>3. QED
  BY <1>2 DEF Signal

LEMMA HeldAfter ==
    ASSUME Typed, NEW s \in Signal, signals' = Signalled(s)
    PROVE  /\ signals' \in Seq(Signal)
           /\ Held' \subseteq Held \cup {s}
           /\ agent.pc \in {"idle", "asked"} => signals' = signals
<1>1. agent.pc \in {"idle", "asked"} => ~Watching
  BY DEF Watching
<1>2. QED
  BY <1>1, SignalledHolds, SMTT(30) DEF Held

\* Hearing the oldest signal leaves the others.
LEMMA HeldHeard ==
    ASSUME Typed, signals # <<>>, signals' = Tail(signals)
    PROVE  /\ signals' \in Seq(Signal)
           /\ Held' \subseteq Held
           /\ Head(signals) \in Held
<1>1. signals \in Seq(Signal) /\ Len(signals) \in Nat /\ Len(signals) > 0
  BY DEF Typed
<1>2. /\ Tail(signals) \in Seq(Signal) /\ Len(Tail(signals)) = Len(signals) - 1
      /\ \A i \in 1 .. Len(Tail(signals)) : Tail(signals)[i] = signals[i + 1]
      /\ Head(signals) = signals[1]
  BY <1>1, HeadTailProperties
<1>3. \A i \in 1 .. Len(Tail(signals)) : i + 1 \in 1 .. Len(signals)
  BY <1>1, <1>2
<1>4. QED
  BY <1>1, <1>2, <1>3 DEF Held

-----------------------------------------------------------------------------
(* The invariant is inductive.                                             *)

LEMMA InitIInv == Init => IInv
<1> SUFFICES ASSUME Init PROVE IInv
  OBVIOUS
<1>1. Typed
  BY ServiceJobAssumption
  DEF Init, Typed, Kinds, Signal, BeforeCall, AgentPlace, Outcome, Call, NoJob, SvcType,
      ManagerType, CallType, AgentType, BackendType, TruthType
<1>2. QED
  BY <1>1 DEF Init, IInv, Numbered, Order, Accepted, WatchFits, Restarted, WrittenWasDone,
              VerifiedRestartIsOurs, Call, NoJob, BeforeCall, Watching

\* The job a request is given: the one of its kind that is queued, or a new number.
LEMMA QueuedFits ==
    ASSUME Typed, NEW k \in Kinds
    PROVE  /\ Queued(k) \in ManagerType
           /\ Queued(k).gen = manager.gen
           /\ manager.job # NoJob => Queued(k) = manager
           /\ manager.job = NoJob => /\ Queued(k).next = manager.next + 1
                                     /\ Queued(k).job = [id |-> manager.next, kind |-> k]
<1>1. manager \in ManagerType /\ manager.next \in Nat /\ manager.next + 1 \in Nat
  BY DEF Typed, ManagerType
<1>2. [id |-> manager.next, kind |-> k] \in [id : Nat, kind : Kinds \cup {"none"}]
  BY <1>1
<1>3. CASE manager.job = NoJob
  <2>1. Queued(k) = [manager EXCEPT !.next = manager.next + 1,
                                    !.job = [id |-> manager.next, kind |-> k]]
    BY <1>3 DEF Queued
  <2>2. QED
    BY <1>1, <1>2, <1>3, <2>1 DEF ManagerType
<1>4. CASE manager.job # NoJob
  BY <1>1, <1>4 DEF Queued
<1>5. QED
  BY <1>3, <1>4

LEMMA TypedStep ==
    ASSUME IInv, [Next]_vars
    PROVE  Typed'
<1>0. Typed
  BY DEF IInv
<1> USE <1>0 DEF hostvars, Typed
<1>1. CASE UNCHANGED vars
  BY <1>1 DEF vars
<1>2. ASSUME NEW k \in Kinds, OthersQueue(k)
      PROVE  Typed'
  <2>1. manager' \in ManagerType
    BY <1>2, QueuedFits DEF OthersQueue
  <2>2. QED
    BY <1>2, <2>1 DEF OthersQueue
<1>3. ASSUME NEW r \in {"done", "failed"}, NEW st \in {"running", "settling", "inactive", "failed"},
             NEW i \in 1 .. MaxInvocation, JobEnds(r, [state |-> st, inv |-> i])
      PROVE  Typed'
  <2>1. [id |-> manager.job.id, unit |-> "target", result |-> r] \in Signal
    BY DEF ManagerType, Signal
  <2>2. signals' \in Seq(Signal)
    BY <1>3, <2>1, HeldAfter DEF JobEnds
  <2>3. svc' \in SvcType
    BY <1>3, ServiceJobAssumption DEF JobEnds, SvcType
  <2>4. truth' \in TruthType
    BY <1>3 DEF JobEnds, TruthType
  <2>5. manager' \in ManagerType
    BY <1>3 DEF JobEnds, ManagerType, NoJob
  <2>6. QED
    BY <1>3, <2>2, <2>3, <2>4, <2>5 DEF JobEnds
<1>4. CASE ElsewhereEnds
  <2>1. [id |-> manager.next, unit |-> "other", result |-> "done"] \in Signal
    BY DEF ManagerType, Signal
  <2>2. signals' \in Seq(Signal)
    BY <1>4, <2>1, HeldAfter DEF ElsewhereEnds
  <2>3. manager' \in ManagerType
    BY <1>4 DEF ElsewhereEnds, ManagerType
  <2>4. QED
    BY <1>4, <2>2, <2>3 DEF ElsewhereEnds
<1>5. CASE RestartsItself \/ Settles
  <2>1. svc' \in SvcType
    BY <1>5 DEF RestartsItself, Settles, SvcType
  <2>2. QED
    BY <1>5, <2>1 DEF RestartsItself, Settles
<1>6. CASE ManagerReplaced
  <2>1. manager' \in ManagerType
    BY <1>6 DEF ManagerReplaced, ManagerType, NoJob
  <2>2. call' \in CallType
    BY <1>6 DEF ManagerReplaced, CallType, Call
  <2>3. agent' \in AgentType
    <3>1. (agent.changed \/ Watching) \in BOOLEAN
      BY Zenon
    <3>2. QED
      BY <1>6, <3>1 DEF ManagerReplaced, AgentType
  <2>4. truth' \in TruthType
    <3>1. (truth.lost \/ call.is = "queued") \in BOOLEAN
      BY Zenon
    <3>2. QED
      BY <1>6, <3>1 DEF ManagerReplaced, TruthType
  <2>5. QED
    BY <1>6, <2>1, <2>2, <2>3, <2>4 DEF ManagerReplaced
<1>7. CASE Accept
  <2>1. manager' \in ManagerType
    BY <1>7, QueuedFits DEF Accept
  <2>2. manager'.job.id \in Nat /\ manager.gen \in Nat /\ svc.inv \in Nat
    BY <2>1 DEF ManagerType, SvcType
  <2>3. call' \in CallType
    BY <1>7, <2>2 DEF Accept, CallType, Call
  <2>4. truth' \in TruthType
    BY <1>7, <2>2 DEF Accept, TruthType
  <2>5. QED
    BY <1>7, <2>1, <2>3, <2>4 DEF Accept
<1>8. CASE AnswerCall \/ Decline
  <2>1. call' \in CallType
    BY <1>8 DEF AnswerCall, Decline, CallType, Call
  <2>2. QED
    BY <1>8, <2>1 DEF AnswerCall, Decline
<1>9. CASE Watch \/ ReadUnit \/ CheckOwner \/ Send \/ Reply \/ Interrupted
  <2>1. manager.gen \in Nat /\ svc.inv \in Nat /\ call.id \in Nat
    BY DEF ManagerType, SvcType, CallType
  <2>2. agent' \in AgentType
    <3>1. \A o \in Outcome : Result(o) => agent' \in AgentType
      BY DEF Result, Unclosed, AgentType, AgentPlace, Outcome
    <3>2. CASE Watch \/ Send
      BY <2>1, <3>2 DEF Watch, Send, AgentType, AgentPlace, BeforeCall
    <3>3. CASE ReadUnit
      BY <2>1, <3>1, <3>3 DEF ReadUnit, AgentType, AgentPlace, BeforeCall, Outcome
    <3>4. CASE CheckOwner
      BY <2>1, <3>1, <3>4 DEF CheckOwner, AgentType, AgentPlace, BeforeCall, Outcome
    <3>5. CASE Reply
      BY <2>1, <3>1, <3>5 DEF Reply, AgentType, AgentPlace, Outcome
    <3>6. CASE Interrupted
      BY <3>1, <3>6 DEF Interrupted, Outcome
    <3>7. QED
      BY <1>9, <3>2, <3>3, <3>4, <3>5, <3>6
  <2>3. call' \in CallType
    BY <1>9 DEF Watch, ReadUnit, CheckOwner, Send, Reply, Interrupted, CallType, Call
  <2>4. QED
    BY <1>9, <2>2, <2>3 DEF Watch, ReadUnit, CheckOwner, Send, Reply, Interrupted, AgentOnly
<1>10. CASE Hear
  <2>1. signals' \in Seq(Signal)
    BY <1>10, HeldHeard DEF Hear
  <2>2. agent' \in AgentType
    BY <1>10 DEF Hear, Result, Unclosed, AgentType, AgentPlace, Outcome
  <2>3. QED
    BY <1>10, <2>1, <2>2 DEF Hear
<1>11. CASE Correlate \/ Look
  <2>1. svc.inv \in Nat
    BY DEF SvcType
  <2>2. backend' \in BackendType
    BY <1>11, <2>1 DEF Correlate, Look, BackendType
  <2>3. QED
    BY <1>11, <2>2 DEF Correlate, Look, BackendOnly
<1>12. CASE Ask
  <2>1. backend' \in BackendType
    BY <1>12 DEF Ask, BackendType, Outcome
  <2>2. agent' \in AgentType
    BY <1>12 DEF Ask, AgentType, AgentPlace, BeforeCall
  <2>3. QED
    BY <1>12, <2>1, <2>2 DEF Ask, BackendOnly
<1>13. CASE Report
  <2>1. agent.outcome \in Outcome
    BY DEF AgentType
  <2>2. backend' \in BackendType
    BY <1>13, <2>1 DEF Report, BackendType, Outcome
  <2>3. QED
    BY <1>13, <2>2 DEF Report, BackendOnly
<1>14. QED
  BY <1>1, <1>2, <1>3, <1>4, <1>5, <1>6, <1>7, <1>8, <1>9, <1>10, <1>11, <1>12, <1>13
  DEF Next, Systemd, Agent, Backend, Kinds

Rest == Numbered /\ Order /\ Accepted /\ WatchFits /\ Restarted /\ WrittenWasDone /\ VerifiedRestartIsOurs

\* systemd and its other clients, with the call still where it was.
LEMMA QueueKeeps ==
    ASSUME IInv, NEW k \in Kinds, OthersQueue(k)
    PROVE  Rest'
<1>0. Typed
  BY DEF IInv
<1>1. /\ manager.next \in Nat /\ manager.gen \in Nat /\ manager'.gen = manager.gen
      /\ manager.job = NoJob /\ manager'.next = manager.next + 1
      /\ manager'.job = [id |-> manager.next, kind |-> k]
  BY <1>0, QueuedFits DEF OthersQueue, Typed, ManagerType
<1>2. UNCHANGED <<verb, svc, call, signals, agent, backend, truth>>
  BY DEF OthersQueue
<1>3. truth.id \in Nat /\ truth.gen \in Nat /\ \A s \in Held : s.id \in Nat
  BY <1>0, HeldIds DEF Typed, TruthType
<1>4. Numbered'
  BY <1>1 DEF IInv, Numbered
<1>5. Accepted'
  BY <1>1, <1>2, <1>3 DEF IInv, Accepted
<1>6. WatchFits'
  BY <1>1, <1>2, <1>3 DEF IInv, WatchFits, Watching, Held
<1>7. QED
  BY <1>2, <1>4, <1>5, <1>6 DEF IInv, Rest, Order, Restarted, WrittenWasDone, VerifiedRestartIsOurs

LEMMA JobEndKeeps ==
    ASSUME IInv, NEW r \in {"done", "failed"},
           NEW st \in {"running", "settling", "inactive", "failed"},
           NEW i \in 1 .. MaxInvocation, JobEnds(r, [state |-> st, inv |-> i])
    PROVE  Rest'
<1>0. Typed
  BY DEF IInv
<1> DEFINE sig == [id |-> manager.job.id, unit |-> "target", result |-> r]
<1>1. /\ manager.next \in Nat /\ manager.gen \in Nat /\ manager.job.id \in Nat
      /\ truth.id \in Nat /\ truth.gen \in Nat /\ truth.inv \in Nat /\ svc.inv \in Nat
      /\ agent.owner \in Nat
      /\ \A s \in Held : s.id \in Nat
  BY <1>0, HeldIds DEF Typed, ManagerType, TruthType, SvcType, AgentType
<1>2. /\ manager.job # NoJob /\ manager'.job = NoJob
      /\ manager'.gen = manager.gen /\ manager'.next = manager.next
  BY <1>0 DEF JobEnds, Typed, ManagerType
<1>3. /\ svc'.inv \in {svc.inv, svc.inv + 1}
      /\ r = "done" /\ manager.job.kind = "restart" => svc'.inv = svc.inv + 1
  BY DEF JobEnds
<1>4. UNCHANGED <<verb, call, agent, backend>>
  BY DEF JobEnds
<1>5. /\ truth'.accepted = truth.accepted /\ truth'.id = truth.id /\ truth'.gen = truth.gen
      /\ truth'.inv = truth.inv /\ truth'.lost = truth.lost
      /\ truth'.done <=> \/ truth.done
                        \/ /\ r = "done" /\ truth.accepted
                           /\ truth.gen = manager.gen /\ truth.id = manager.job.id
  BY <1>0 DEF JobEnds, Typed, TruthType
<1>6. sig \in Signal /\ sig.id = manager.job.id /\ sig.result = r
  BY <1>1 DEF Signal
<1>7. signals' = Signalled(sig)
  BY DEF JobEnds
<1> HIDE DEF sig
<1>8. Held' \subseteq Held \cup {sig} /\ (agent.pc \in {"idle", "asked"} => signals' = signals)
  BY <1>0, <1>6, <1>7, HeldAfter
<1>9. Numbered'
  BY <1>2 DEF IInv, Numbered
<1>10. Order'
  BY <1>4, <1>8 DEF IInv, Order
<1>11. Accepted'
  BY <1>1, <1>2, <1>3, <1>4, <1>5 DEF IInv, Accepted
<1>12. WatchFits'
  <2> SUFFICES ASSUME Watching, manager.gen = agent.owner, NEW s \in Held \cup {sig}
               PROVE  /\ s.id >= 1 /\ s.id < manager.next
                      /\ truth.accepted /\ s.id = truth.id /\ s.unit = "target" /\ s.result = "done" =>
                            truth'.done
    BY <1>2, <1>4, <1>5, <1>8 DEF WatchFits, Watching
  <2>1. CASE s \in Held
    BY <1>5, <2>1 DEF IInv, WatchFits
  <2>2. CASE s = sig
    <3>1. s.id >= 1 /\ s.id < manager.next
      BY <1>2, <1>6, <2>2 DEF IInv, Numbered
    <3>2. truth.accepted => truth.gen = manager.gen
      BY <1>1 DEF IInv, Accepted
    <3>3. QED
      BY <1>5, <1>6, <2>2, <3>1, <3>2
  <2>3. QED
    BY <2>1, <2>2
<1>13. Restarted'
  <2> SUFFICES ASSUME verb = "restart", truth'.done
               PROVE  svc'.inv > truth.inv
    BY <1>4, <1>5 DEF Restarted
  <2>1. CASE truth.done
    BY <1>1, <1>3, <2>1 DEF IInv, Restarted
  <2>2. CASE ~truth.done
    <3>1. r = "done" /\ manager.job.kind = "restart" /\ truth.inv <= svc.inv
      BY <1>2, <1>5, <2>2 DEF IInv, Accepted
    <3>2. QED
      BY <1>1, <1>3, <3>1
  <2>3. QED
    BY <2>1, <2>2
<1>14. WrittenWasDone' /\ VerifiedRestartIsOurs'
  BY <1>4, <1>5 DEF IInv, WrittenWasDone, VerifiedRestartIsOurs
<1>15. QED
  BY <1>9, <1>10, <1>11, <1>12, <1>13, <1>14 DEF Rest

LEMMA ElsewhereKeeps ==
    ASSUME IInv, ElsewhereEnds
    PROVE  Rest'
<1>0. Typed
  BY DEF IInv
<1> DEFINE sig == [id |-> manager.next, unit |-> "other", result |-> "done"]
<1>1. /\ manager.next \in Nat /\ manager.gen \in Nat /\ manager.job.id \in Nat
      /\ truth.id \in Nat /\ \A s \in Held : s.id \in Nat
  BY <1>0, HeldIds DEF Typed, ManagerType, TruthType
<1>2. manager'.job = manager.job /\ manager'.gen = manager.gen /\ manager'.next = manager.next + 1
  BY <1>0 DEF ElsewhereEnds, Typed, ManagerType
<1>3. UNCHANGED <<verb, svc, call, agent, backend, truth>>
  BY DEF ElsewhereEnds
<1>4. sig \in Signal /\ sig.id = manager.next /\ sig.unit = "other"
  BY <1>1 DEF Signal
<1>5. signals' = Signalled(sig)
  BY DEF ElsewhereEnds
<1> HIDE DEF sig
<1>6. Held' \subseteq Held \cup {sig} /\ (agent.pc \in {"idle", "asked"} => signals' = signals)
  BY <1>0, <1>4, <1>5, HeldAfter
<1>7. Numbered'
  BY <1>1, <1>2 DEF IInv, Numbered
<1>8. Order' /\ Accepted'
  BY <1>1, <1>2, <1>3, <1>6 DEF IInv, Order, Accepted
<1>9. WatchFits'
  <2> SUFFICES ASSUME Watching, manager.gen = agent.owner, NEW s \in Held \cup {sig}
               PROVE  /\ s.id >= 1 /\ s.id < manager.next + 1
                      /\ manager.job # NoJob => s.id # manager.job.id
                      /\ truth.accepted /\ s.id = truth.id /\ s.unit = "target" /\ s.result = "done" =>
                            truth.done
    BY <1>2, <1>3, <1>6 DEF WatchFits, Watching
  <2>1. CASE s \in Held
    BY <1>1, <2>1 DEF IInv, WatchFits
  <2>2. CASE s = sig
    BY <1>1, <1>4, <2>2 DEF IInv, Numbered
  <2>3. QED
    BY <2>1, <2>2
<1>10. QED
  BY <1>3, <1>7, <1>8, <1>9 DEF IInv, Rest, Restarted, WrittenWasDone, VerifiedRestartIsOurs

LEMMA ReplacedKeeps ==
    ASSUME IInv, ManagerReplaced
    PROVE  Rest'
<1>0. Typed
  BY DEF IInv
<1>1. /\ manager.gen \in Nat /\ agent.owner \in Nat /\ truth.gen \in Nat
      /\ manager'.gen = manager.gen + 1 /\ manager'.next = 1 /\ manager'.job = NoJob
  BY <1>0 DEF ManagerReplaced, Typed, ManagerType, AgentType, TruthType
<1>2. /\ agent'.pc = agent.pc /\ agent'.owner = agent.owner /\ agent'.path = agent.path
      /\ agent'.outcome = agent.outcome /\ agent'.torn = agent.torn
  BY <1>0 DEF ManagerReplaced, Typed, AgentType
<1>3. \/ call' = call /\ call.is \notin {"sent", "queued"} /\ truth'.lost = truth.lost
      \/ call.is = "sent" /\ call'.is = "error" /\ truth'.lost = truth.lost
      \/ call.is = "queued" /\ call'.is = "error" /\ truth'.lost
  <2>1. truth'.lost = (truth.lost \/ call.is = "queued")
    BY <1>0 DEF ManagerReplaced, Typed, TruthType
  <2>2. call.is \in {"sent", "queued"} => call'.is = "error"
    BY DEF ManagerReplaced, Call
  <2>3. call.is \notin {"sent", "queued"} => call' = call
    BY DEF ManagerReplaced
  <2>4. QED
    BY <1>0, <2>1, <2>2, <2>3 DEF Typed, TruthType
<1>4. UNCHANGED <<verb, svc, signals, backend>>
  BY DEF ManagerReplaced
<1>4a. /\ truth'.accepted = truth.accepted /\ truth'.done = truth.done /\ truth'.id = truth.id
       /\ truth'.gen = truth.gen /\ truth'.inv = truth.inv
  BY <1>0 DEF ManagerReplaced, Typed, TruthType
<1>5. Numbered'
  BY <1>1 DEF Numbered
<1>6. Order'
  BY <1>2, <1>3, <1>4 DEF IInv, Order
<1>7. Accepted' /\ WatchFits'
  BY <1>1, <1>2, <1>3, <1>4, <1>4a DEF IInv, Accepted, WatchFits
<1>8. QED
  BY <1>2, <1>4, <1>4a, <1>5, <1>6, <1>7
  DEF IInv, Rest, Restarted, WrittenWasDone, VerifiedRestartIsOurs

LEMMA AcceptKeeps ==
    ASSUME IInv, Accept
    PROVE  Rest'
<1>0. Typed /\ verb \in Kinds
  BY DEF IInv, Typed
<1>1. /\ manager.next \in Nat /\ manager.gen \in Nat /\ manager.job.id \in Nat
      /\ svc.inv \in Nat /\ agent.owner \in Nat /\ manager.job \in [id : Nat, kind : Kinds \cup {"none"}]
      /\ \A s \in Held : s.id \in Nat
  BY <1>0, HeldIds DEF Typed, ManagerType, SvcType, AgentType
<1>2. UNCHANGED <<verb, svc, signals, agent, backend>> /\ Held' = Held
  BY DEF Accept, Held
<1>3. /\ manager'.gen = manager.gen /\ manager'.job # NoJob /\ manager'.job.kind = verb
      /\ manager'.job.id \in Nat /\ manager'.job.id >= 1 /\ manager'.job.id < manager'.next
      /\ manager.next <= manager'.next
      /\ \/ manager.job # NoJob /\ manager' = manager
         \/ manager'.job.id = manager.next
  <2>1. CASE manager.job = NoJob
    <3>1. manager'.next = manager.next + 1 /\ manager'.job = [id |-> manager.next, kind |-> verb]
          /\ manager'.gen = manager.gen
      BY <1>0, <2>1, QueuedFits DEF Accept
    <3>2. manager.next >= 1
      BY DEF IInv, Numbered
    <3>3. QED
      BY <1>0, <1>1, <3>1, <3>2 DEF NoJob, Kinds
  <2>2. CASE manager.job # NoJob
    <3>1. manager' = manager /\ manager.job.kind = verb
      BY <1>0, <2>2, QueuedFits DEF Accept, Admits
    <3>2. QED
      BY <1>1, <2>2, <3>1 DEF IInv, Numbered
  <2>3. QED
    BY <2>1, <2>2
<1>4. /\ call.is = "sent" /\ call'.is = "queued" /\ call'.id = manager'.job.id
      /\ truth'.accepted /\ truth'.lost = truth.lost /\ truth'.gen = manager.gen /\ truth'.id = manager'.job.id
      /\ truth'.inv = svc.inv /\ truth'.done = truth.done
  BY <1>0 DEF Accept, Call, Typed, TruthType
<1>5. ~truth.accepted /\ ~truth.done
  BY <1>4 DEF IInv, Accepted
<1>6. Numbered'
  <2>1. manager'.next \in Nat
    BY <1>0, QueuedFits DEF Accept, ManagerType
  <2>2. QED
    BY <1>1, <1>3, <2>1 DEF IInv, Numbered
<1>7. Order'
  BY <1>2, <1>4 DEF IInv, Order
<1>8. Accepted'
  BY <1>1, <1>2, <1>3, <1>4, <1>5 DEF IInv, Accepted
<1>9. WatchFits'
  <2> SUFFICES ASSUME Watching, manager.gen = agent.owner, NEW s \in Held
               PROVE  s.id >= 1 /\ s.id < manager'.next /\ s.id # manager'.job.id
    BY <1>2, <1>3, <1>4 DEF WatchFits, Watching
  <2>1. /\ s.id >= 1 /\ s.id < manager.next
        /\ manager.job # NoJob => s.id # manager.job.id
    BY DEF IInv, WatchFits
  <2>2. manager'.next \in Nat
    BY <1>0, QueuedFits DEF Accept, ManagerType
  <2>3. QED
    BY <1>1, <1>3, <2>1, <2>2
<1>10. Restarted' /\ WrittenWasDone' /\ VerifiedRestartIsOurs'
  BY <1>2, <1>4, <1>5 DEF IInv, Restarted, WrittenWasDone, VerifiedRestartIsOurs
<1>11. QED
  BY <1>6, <1>7, <1>8, <1>9, <1>10 DEF Rest

\* The service on its own, and the answer to the call.
LEMMA ServiceKeeps ==
    ASSUME IInv, RestartsItself \/ Settles \/ AnswerCall \/ Decline
    PROVE  Rest'
<1>0. Typed
  BY DEF IInv
<1>1. UNCHANGED <<verb, manager, signals, agent, backend, truth>>
  BY DEF RestartsItself, Settles, AnswerCall, Decline, hostvars
<1>2. svc.inv \in Nat /\ svc'.inv \in {svc.inv, svc.inv + 1} /\ truth.inv \in Nat
  BY <1>0 DEF RestartsItself, Settles, AnswerCall, Decline, hostvars, Typed, SvcType, TruthType
<1>3. \/ call' = call
      \/ call.is = "sent" /\ call'.is = "error"
      \/ call.is = "queued" /\ call'.is = "job" /\ call'.id = call.id
  BY DEF RestartsItself, Settles, AnswerCall, Decline, Call
<1>4. Numbered' /\ Order' /\ WatchFits'
  BY <1>1, <1>3 DEF IInv, Numbered, Order, WatchFits, Watching, Held
<1>5. Accepted' /\ Restarted'
  BY <1>1, <1>2, <1>3 DEF IInv, Accepted, Restarted
<1>6. QED
  BY <1>1, <1>4, <1>5 DEF IInv, Rest, WrittenWasDone, VerifiedRestartIsOurs

\* The agent before its call, and an interruption at any time.
LEMMA AgentKeeps ==
    ASSUME IInv, Watch \/ ReadUnit \/ CheckOwner \/ Send \/ Reply \/ Interrupted
    PROVE  Rest'
<1>0. Typed /\ manager.gen \in Nat
  BY DEF IInv, Typed, ManagerType
<1>1. UNCHANGED <<verb, svc, manager, signals, backend, truth>>
  BY DEF Watch, ReadUnit, CheckOwner, Send, Reply, Interrupted, AgentOnly, hostvars
<1>2. agent.outcome = "none" /\ agent.pc \notin {"idle", "answered"} /\ agent.pc \in AgentPlace
  BY <1>0 DEF Watch, ReadUnit, CheckOwner, Send, Reply, Interrupted, At, Watching, IInv, Order,
              Typed, AgentType
<1>3. CASE Watch
  <2>1. /\ agent.pc = "asked" /\ agent'.pc = "watching" /\ agent'.owner = manager.gen
        /\ agent'.outcome = agent.outcome /\ call' = call
    BY <1>0, <1>3 DEF Watch, At, Typed, AgentType
  <2>2. call.is = "none" /\ signals = <<>> /\ ~truth.accepted
    BY <2>1 DEF IInv, Order, Accepted, BeforeCall
  <2>3. Order'
    BY <1>1, <2>1, <2>2 DEF IInv, Order, BeforeCall
  <2>4. WatchFits'
    <3>1. Held' = {}
      BY <1>1, <2>2 DEF Held
    <3>2. QED
      BY <3>1 DEF WatchFits
  <2>5. Accepted'
    BY <1>0, <1>1, <2>1, <2>2 DEF IInv, Accepted
  <2>6. QED
    BY <1>1, <2>1, <2>3, <2>4, <2>5
    DEF IInv, Rest, Numbered, Restarted, WrittenWasDone, VerifiedRestartIsOurs
<1>4. CASE ~Watch
  <2>1. agent'.owner = agent.owner
    BY <1>0, <1>4 DEF ReadUnit, CheckOwner, Send, Reply, Interrupted, Result, Typed, AgentType
  <2>2. call' = call \/ (agent.pc = "checked" /\ agent'.pc = "called" /\ call'.is = "sent")
    BY <1>0, <1>4 DEF ReadUnit, CheckOwner, Send, Reply, Interrupted, At, Call, Typed, AgentType
  <2>3. /\ agent'.outcome \in {"none", "not_written", "write_unknown"}
        /\ agent'.pc # "answered" => agent'.outcome = "none"
        /\ agent'.outcome = "not_written" =>
              call' = call /\ (call.is \in {"none", "error"} \/ agent'.torn)
    <3>1. CASE ReadUnit \/ CheckOwner \/ Send
      BY <1>0, <1>2, <3>1 DEF ReadUnit, CheckOwner, Send, At, Result, Unclosed, IInv, Order, BeforeCall, Typed,
                              AgentType
    <3>2. CASE Reply
      BY <1>0, <1>2, <3>2 DEF Reply, At, Result, Unclosed, Typed, AgentType
    <3>3. CASE Interrupted
      BY <1>0, <1>2, <3>3 DEF Interrupted, At, Watching, Result, Unclosed, IInv, Order, BeforeCall, Typed, AgentType
    <3>4. QED
      BY <1>4, <3>1, <3>2, <3>3
  <2>4. /\ agent.pc \in {"asked", "watching", "read", "checked", "called", "waiting"}
        /\ agent'.pc \in {"read", "checked", "called", "waiting", "answered"}
        /\ agent.pc = "asked" => agent'.pc = "answered"
        /\ agent'.pc \in BeforeCall => agent.pc \in BeforeCall /\ call' = call
        /\ agent'.pc = "waiting" => call' = call /\ call.is = "job" /\ agent'.path = call.id
    BY <1>0, <1>4 DEF ReadUnit, CheckOwner, Send, Reply, Interrupted, At, Watching, Result, Unclosed, BeforeCall,
                      Typed, AgentType
  <2>5. ~truth.accepted \/ call' = call
    BY <2>2 DEF IInv, Order, Accepted, BeforeCall
  <2>6. Order'
    BY <1>1, <1>2, <2>2, <2>3, <2>4 DEF IInv, Order
  <2>7. Accepted'
    BY <1>1, <2>1, <2>2, <2>5 DEF IInv, Order, Accepted, BeforeCall
  <2>8. WatchFits'
    BY <1>1, <2>1, <2>4 DEF IInv, WatchFits, Watching, Held
  <2>9. WrittenWasDone' /\ VerifiedRestartIsOurs'
    BY <1>1, <1>2, <2>3 DEF IInv, WrittenWasDone, VerifiedRestartIsOurs
  <2>10. QED
    BY <1>1, <2>6, <2>7, <2>8, <2>9 DEF IInv, Rest, Numbered, Restarted
<1>5. QED
  BY <1>3, <1>4

\* result_for: a signal that says done, of the manager called, says it of our job.
LEMMA HearKeeps ==
    ASSUME IInv, Hear
    PROVE  Rest'
<1>0. Typed
  BY DEF IInv
<1>1. UNCHANGED <<verb, svc, manager, call, backend, truth>> /\ agent.pc = "waiting"
  BY DEF Hear, hostvars, At
<1>2. Held' \subseteq Held /\ Head(signals) \in Held
  BY <1>0, HeldHeard DEF Hear
<1>3. agent'.owner = agent.owner /\ agent'.path = agent.path
  BY <1>0 DEF Hear, Result, Typed, AgentType
<1>4. \/ agent' = agent
      \/ /\ agent'.pc = "answered"
         /\ agent'.outcome \in {"written", "write_unknown"} \/ (agent'.outcome = "not_written" /\ agent'.torn)
  BY <1>0 DEF Hear, Result, Unclosed, Typed, AgentType
<1>5. agent'.outcome = "written" => truth.done
  <2> SUFFICES ASSUME agent'.outcome = "written"
               PROVE  truth.done
    OBVIOUS
  <2>1. agent.outcome = "none" /\ call.is = "job" /\ agent.path = call.id
    BY <1>1 DEF IInv, Order
  <2>2. truth.accepted /\ call.id = truth.id
    BY <2>1 DEF IInv, Accepted
  <2>3. /\ SameOwner /\ Head(signals).id = agent.path /\ Head(signals).unit = "target"
        /\ Head(signals).result = "done"
    BY <1>0, <2>1 DEF Hear, Result, Unclosed, Typed, AgentType
  <2>4. Watching /\ manager.gen = agent.owner
    BY <1>1, <2>3 DEF SameOwner, Watching
  <2>5. QED
    BY <1>2, <2>1, <2>2, <2>3, <2>4 DEF IInv, WatchFits
<1>6. Order'
  BY <1>1, <1>3, <1>4 DEF IInv, Order, BeforeCall
<1>7. Accepted' /\ WatchFits'
  BY <1>1, <1>2, <1>3 DEF IInv, Accepted, WatchFits, Watching
<1>8. WrittenWasDone'
  BY <1>1, <1>5 DEF IInv, WrittenWasDone
<1>9. QED
  BY <1>1, <1>6, <1>7, <1>8 DEF IInv, Rest, Numbered, Restarted, VerifiedRestartIsOurs

LEMMA BackendKeeps ==
    ASSUME IInv, Backend
    PROVE  Rest'
<1>0. Typed
  BY DEF IInv
<1>1. UNCHANGED <<verb, svc, manager, call, signals, truth>>
  BY DEF Backend, Correlate, Ask, Report, Look, BackendOnly, hostvars
<1>2. /\ agent'.owner = agent.owner /\ agent'.outcome = agent.outcome /\ agent'.path = agent.path
      /\ agent'.torn = agent.torn
      /\ \/ agent'.pc = agent.pc
         \/ agent.pc = "idle" /\ agent'.pc = "asked" /\ backend'.pc = "asked"
  BY <1>0 DEF Backend, Correlate, Ask, Report, Look, Typed, AgentType, BackendType, IInv, Order
<1>3. Numbered' /\ Accepted' /\ Restarted'
  BY <1>1, <1>2 DEF IInv, Numbered, Accepted, Restarted
<1>4. WatchFits'
  BY <1>1, <1>2 DEF IInv, WatchFits, Watching, Held
<1>5. CASE Correlate \/ Ask
  <2>1. /\ backend.pc \in {"idle", "correlated"} /\ agent.pc = "idle" /\ agent.outcome = "none"
        /\ backend.report = "none" /\ backend'.verdict = "none"
        /\ \/ backend'.pc \in {"correlated", "asked"} /\ backend'.report = "none"
           \/ backend'.pc = "reported" /\ backend'.report = "not_written" /\ agent' = agent
        /\ backend'.pc = "correlated" => agent' = agent
    BY <1>0, <1>5 DEF Correlate, Ask, Typed, BackendType, IInv, Order
  <2>2. Order'
    BY <1>1, <1>2, <2>1 DEF IInv, Order, BeforeCall
  <2>3. QED
    BY <1>2, <1>3, <1>4, <2>1, <2>2 DEF Rest, WrittenWasDone, VerifiedRestartIsOurs
<1>6. CASE Report
  <2>1. /\ agent' = agent /\ backend.pc = "asked" /\ backend'.pc = "reported" /\ backend'.verdict = "none"
        /\ backend'.report \in {"write_unknown", agent.outcome}
    BY <1>0, <1>6 DEF Report, Typed, BackendType, IInv, Order
  <2>2. Order'
    BY <1>1, <2>1 DEF IInv, Order
  <2>3. QED
    BY <1>1, <1>3, <1>4, <2>1, <2>2 DEF IInv, Rest, WrittenWasDone, VerifiedRestartIsOurs
<1>7. CASE Look
  <2>1. /\ agent' = agent /\ backend.pc = "reported" /\ backend'.pc = "judged"
        /\ backend'.report = backend.report /\ backend'.seen = svc.inv
    BY <1>0, <1>7 DEF Look, Typed, BackendType
  <2>2. Order'
    BY <1>1, <2>1 DEF IInv, Order
  <2>3. backend.report = "written" => truth.done
    BY DEF IInv, WrittenWasDone
  <2>4. QED
    BY <1>1, <1>3, <1>4, <2>1, <2>2, <2>3
    DEF IInv, Rest, WrittenWasDone, VerifiedRestartIsOurs, Restarted
<1>8. QED
  BY <1>5, <1>6, <1>7 DEF Backend

LEMMA IInvHolds == Spec => []IInv
<1>1. ASSUME IInv, [Next]_vars
      PROVE  IInv'
  <2>1. CASE UNCHANGED vars
    BY <1>1, <2>1
    DEF vars, IInv, Typed, Numbered, Order, Accepted, WatchFits, Watching, Held, Restarted,
        WrittenWasDone, VerifiedRestartIsOurs
  <2>2. Next => Rest'
    BY <1>1, QueueKeeps, JobEndKeeps, ElsewhereKeeps, ReplacedKeeps, AcceptKeeps, ServiceKeeps,
       AgentKeeps, HearKeeps, BackendKeeps
    DEF Next, Systemd, Agent, Kinds
  <2>3. QED
    BY <1>1, <2>1, <2>2, TypedStep DEF IInv, Rest
<1>2. QED
  BY <1>1, InitIInv, PTL DEF Spec

-----------------------------------------------------------------------------
(* The theorems.                                                           *)

\* "written" is said only of a job this call was given and systemd carried out,
\* however signals, owners and numbers mix (result_for, check_owner).
THEOREM WrittenWasAlwaysDone == Spec => []WrittenWasDone
<1>1. IInv => WrittenWasDone
  BY DEF IInv
<1>2. QED
  BY <1>1, IInvHolds, PTL

\* A job is enqueued behind a "not_written", then or later, only if its manager was
\* replaced before it answered or a close failed (dispatch_service_lifecycle, mutate).
THEOREM NotWrittenErrsOnlyThere == Spec => []NotWrittenErrsOnlyUnanswered
<1>1. IInv => NotWrittenErrsOnlyUnanswered
  BY DEF IInv, Order, Accepted, NotWrittenErrsOnlyUnanswered, BeforeCall
<1>2. QED
  BY <1>1, IInvHolds, PTL

\* A restart verified after a write began after systemd accepted the call, although
\* prove compares with an older reading (SystemdLifecycleExecutor.prove).
THEOREM VerifiedRestartIsAlwaysOurs == Spec => []VerifiedRestartIsOurs
<1>1. IInv => VerifiedRestartIsOurs
  BY DEF IInv
<1>2. QED
  BY <1>1, IInvHolds, PTL
=============================================================================
