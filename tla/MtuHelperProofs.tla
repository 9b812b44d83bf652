-------------------------- MODULE MtuHelperProofs --------------------------
(***************************************************************************)
(* The helper's two promises, for any number of calls, attempts, values    *)
(* and outside changes and any size of its memory: what a caller is told   *)
(* is true, and a call that overlaps no other of its attempt does not      *)
(* dispatch one that wrote while the memory may still know of it.          *)
(***************************************************************************)
EXTENDS MtuHelper, SequenceTheorems, TLAPS

-----------------------------------------------------------------------------
(* The inductive invariant.                                                *)

\* Before the mutating frame, and from the lookup that found nothing on.
Before == {"idle", "lookup", "load", "store", "query", "interpret", "reload", "restore",
           "mutate"}
Fresh  == (Before \ {"idle", "lookup"}) \cup {"ack", "remember"}

\* An attempt some call carried out.
CarriedOut(a) == \E d \in wrote : Attempt[d] = a

\* A call's result is true of the attempt, wherever the thread stands with it.
ThreadIsTruthful ==
    \A c \in Calls :
        /\ pc[c] \in Before => c \notin wrote
        /\ pc[c] = "ack" => c \in wrote
        /\ pc[c] \in {"remember", "reply", "done"} =>
              /\ outcome[c] \in Outcomes
              /\ outcome[c] = "written" => CarriedOut(Attempt[c])
              /\ outcome[c] = "not_written" => c \notin wrote

\* What the memory says was written was.
MemoryIsTruthful ==
    \A i \in 1 .. Len(memory) :
        memory[i].outcome = "written" => CarriedOut(memory[i].attempt)

Truth == TypeOK /\ ThreadIsTruthful /\ MemoryIsTruthful /\ AnswersAreTruthful

\* A call that was over when another began still is.
EarlierIsOver == \A d \in Calls : \A c \in earlier[d] : pc[c] = "done"

\* The memory does not hold the attempt of a thread that is past the lookup and
\* overlaps no other of that attempt.
FreshIsUnknown ==
    \A d \in Calls : pc[d] \in Fresh /\ Alone(d) =>
        \A i \in 1 .. Len(memory) : memory[i].attempt # Attempt[d]

\* It holds a carried out attempt whose thread has answered, or is full.
CarriedOutIsKnown ==
    \A c \in wrote : pc[c] \in {"reply", "done"} =>
        \/ Len(memory) = Memory
        \/ \E i \in 1 .. Len(memory) : memory[i].attempt = Attempt[c]

Once == EarlierIsOver /\ FreshIsUnknown /\ CarriedOutIsKnown

-----------------------------------------------------------------------------
(* The memory.                                                             *)

\* Kept drops the oldest results only, and only as many as exceed the bound.
LEMMA KeptIsNewest ==
    ASSUME NEW m \in Seq(Results), Len(m) <= Memory + 1
    PROVE  /\ Kept(m) \in Seq(Results)
           /\ Len(Kept(m)) <= Memory
           /\ Len(m) > Memory => Len(Kept(m)) = Memory
           /\ Len(m) <= Memory => Kept(m) = m
           /\ \A i \in 1 .. Len(Kept(m)) : \E j \in 1 .. Len(m) : Kept(m)[i] = m[j]
           /\ Len(Kept(m)) = Memory \/ Len(m) <= Memory
<1> USE HelperAssumption
<1>1. Len(m) \in Nat
  BY LenProperties
<1>2. CASE Len(m) <= Memory
  BY <1>1, <1>2 DEF Kept
<1>3. CASE Len(m) > Memory
  <2>1. Len(m) = Memory + 1 /\ Kept(m) = SubSeq(m, 2, Len(m))
    BY <1>1, <1>3 DEF Kept
  <2>2. /\ SubSeq(m, 2, Len(m)) \in Seq(Results)
        /\ Len(SubSeq(m, 2, Len(m))) = Memory
        /\ \A i \in 1 .. Memory : SubSeq(m, 2, Len(m))[i] = m[i + 1]
    BY <1>1, <2>1
  <2>3. \A i \in 1 .. Memory : i + 1 \in 1 .. Len(m) /\ Kept(m)[i] = m[i + 1]
    BY <1>1, <2>1, <2>2
  <2>4. Len(Kept(m)) = Memory /\ Kept(m) \in Seq(Results)
    BY <2>1, <2>2
  <2>5. \A i \in 1 .. Len(Kept(m)) : \E j \in 1 .. Len(m) : Kept(m)[i] = m[j]
    BY <2>3, <2>4
  <2>6. QED
    BY <1>1, <1>3, <2>4, <2>5
<1>4. QED
  BY <1>1, <1>2, <1>3

\* What _remember leaves: the results that were there, but for the attempt's own,
\* which is there unless the memory is full.
LEMMA RememberedWell ==
    ASSUME TypeOK, NEW c \in Calls, outcome[c] \in Outcomes, Remember(c)
    PROVE  /\ memory' \in Seq(Results) /\ Len(memory') <= Memory
           /\ \A i \in 1 .. Len(memory') :
                 \/ memory'[i] = [attempt |-> Attempt[c], outcome |-> outcome[c]]
                 \/ \E j \in 1 .. Len(memory) : memory'[i] = memory[j]
           /\ Len(memory) <= Len(memory')
           /\ \/ Len(memory') = Memory
              \/ /\ \E i \in 1 .. Len(memory') : memory'[i].attempt = Attempt[c]
                 /\ \A j \in 1 .. Len(memory) :
                       \E i \in 1 .. Len(memory') : memory'[i].attempt = memory[j].attempt
<1> USE HelperAssumption
<1> DEFINE new == [attempt |-> Attempt[c], outcome |-> outcome[c]]
<1>1. new \in Results /\ new.attempt = Attempt[c]
  BY DEF Results
<1>2. memory \in Seq(Results) /\ Len(memory) \in Nat /\ Len(memory) <= Memory
  BY DEF TypeOK
<1>3. CASE Remembered(c) = {}
  <2> DEFINE placed == Append(memory, new)
  <2>1. memory' = Kept(placed)
    BY <1>3 DEF Remember
  <2>2. /\ placed \in Seq(Results) /\ Len(placed) = Len(memory) + 1
        /\ placed[Len(placed)] = new
        /\ \A j \in 1 .. Len(memory) : placed[j] = memory[j]
    BY <1>1, <1>2
  <2> HIDE DEF new, placed
  <2>3. \A i \in 1 .. Len(placed) :
           placed[i] = new \/ \E j \in 1 .. Len(memory) : placed[i] = memory[j]
    BY <1>2, <2>2
  <2>4. Len(memory') = Memory \/ memory' = placed
    BY <1>2, <2>1, <2>2, KeptIsNewest
  <2>5. /\ memory' \in Seq(Results) /\ Len(memory') <= Memory
        /\ \A i \in 1 .. Len(memory') : \E j \in 1 .. Len(placed) : memory'[i] = placed[j]
    <3>1. Len(placed) <= Memory + 1
      BY <1>2, <2>2
    <3>2. /\ Kept(placed) \in Seq(Results) /\ Len(Kept(placed)) <= Memory
          /\ \A i \in 1 .. Len(Kept(placed)) :
                \E j \in 1 .. Len(placed) : Kept(placed)[i] = placed[j]
      BY <2>2, <3>1, KeptIsNewest
    <3>3. QED
      BY <2>1, <3>2
  <2>6. \A i \in 1 .. Len(memory') :
           memory'[i] = new \/ \E j \in 1 .. Len(memory) : memory'[i] = memory[j]
    BY <2>3, <2>5
  <2>7. CASE memory' = placed
    <3>1. Len(placed) \in 1 .. Len(memory') /\ memory'[Len(placed)].attempt = Attempt[c]
      BY <1>1, <1>2, <2>2, <2>7
    <3>2. \A j \in 1 .. Len(memory) : j \in 1 .. Len(memory') /\ memory'[j] = memory[j]
      BY <1>2, <2>2, <2>7
    <3>3. Len(memory) <= Len(memory')
      BY <1>2, <2>2, <2>7
    <3>4. QED
      BY <2>5, <2>6, <3>1, <3>2, <3>3 DEF new
  <2>8. CASE Len(memory') = Memory
    BY <1>2, <2>5, <2>6, <2>8 DEF new
  <2>9. QED
    BY <2>4, <2>7, <2>8
<1>4. CASE Remembered(c) # {}
  <2> DEFINE placed == [i \in DOMAIN memory |->
                          IF memory[i].attempt = Attempt[c] THEN new ELSE memory[i]]
  <2>1. memory' = Kept(placed)
    BY <1>4 DEF Remember
  <2>2. DOMAIN memory = 1 .. Len(memory) /\ \A i \in 1 .. Len(memory) : memory[i] \in Results
    BY <1>2
  <2>3. placed \in Seq(Results) /\ Len(placed) = Len(memory)
    <3>1. placed \in [1 .. Len(memory) -> Results]
      BY <1>1, <2>2
    <3>2. QED
      BY <1>2, <3>1, SeqDef, LenProperties
  <2>4. \A i \in 1 .. Len(memory) :
           /\ placed[i] = new \/ placed[i] = memory[i]
           /\ placed[i].attempt = memory[i].attempt
    BY <1>1, <2>2
  <2> HIDE DEF placed
  <2>5. memory' = placed
    BY <1>2, <2>1, <2>3, KeptIsNewest
  <2>6. \E i \in 1 .. Len(memory) : memory[i].attempt = Attempt[c]
    BY <1>4 DEF Remembered
  <2>7. QED
    BY <1>2, <2>3, <2>4, <2>5, <2>6
<1>5. QED
  BY <1>3, <1>4

-----------------------------------------------------------------------------
(* What callers are told is true.                                          *)

LEMMA InitTruth == Init => Truth
<1> SUFFICES ASSUME Init PROVE Truth
  OBVIOUS
<1>1. memory = << >> /\ memory \in Seq(Results) /\ Len(memory) = 0
  BY DEF Init
<1>2. TypeOK
  BY <1>1, HelperAssumption DEF Init, TypeOK, Places, Outcomes
<1>3. QED
  BY <1>1, <1>2 DEF Init, Truth, ThreadIsTruthful, MemoryIsTruthful, AnswersAreTruthful, Before

\* A thread's step moves that thread alone, and remembers nothing unless it is _remember.
LEMMA ThreadMovesOne ==
    ASSUME TypeOK, NEW c \in Calls, Thread(c)
    PROVE  /\ pc[c] # "idle" /\ pc[c] # "done" /\ pc'[c] # "idle"
           /\ pc'[c] \in Places /\ earlier' = earlier
           /\ pc[c] # "remember" => memory' = memory
           /\ \/ wrote' = wrote
              \/ wrote' = wrote \cup {c} /\ pc[c] = "mutate" /\ pc'[c] = "ack"
           /\ \A d \in Calls : d # c =>
                 pc'[d] = pc[d] /\ outcome'[d] = outcome[d] /\ told'[d] = told[d]
<1>0. /\ pc \in [Calls -> Places] /\ outcome \in [Calls -> Outcomes \cup {"none"}]
      /\ told \in [Calls -> Outcomes \cup {"none"}] /\ wrote \in SUBSET Calls
  BY DEF TypeOK
<1> USE <1>0 DEF Goto, Conclude, kernel, shared, Places
<1>1. CASE Replay(c) \/ Lookup(c)
  BY <1>1 DEF Replay, Lookup
<1>2. CASE Load(c) \/ Store(c)
  BY <1>2 DEF Load, Store
<1>3. CASE Query(c) \/ Interpret(c)
  BY <1>3 DEF Query, Interpret
<1>4. CASE Mutate(c) \/ Acknowledge(c)
  BY <1>4 DEF Mutate, Acknowledge
<1>5. CASE Remember(c) \/ Reply(c)
  BY <1>5 DEF Remember, Reply
<1>6. QED
  BY <1>1, <1>2, <1>3, <1>4, <1>5 DEF Thread

LEMMA TypeStep ==
    ASSUME TypeOK, ThreadIsTruthful, [Next]_vars
    PROVE  TypeOK'
<1> USE HelperAssumption DEF TypeOK, Goto, Conclude, kernel, shared, Places, Outcomes
<1>1. CASE UNCHANGED vars
  BY <1>1 DEF vars
<1>2. CASE HostMoves
  <2>1. own' \in BOOLEAN
    BY <1>2, Zenon DEF HostMoves
  <2>2. mtu' \in Values /\ moves' \in 0 .. MaxMoves
    BY <1>2 DEF HostMoves
  <2>3. QED
    BY <1>2, <2>1, <2>2 DEF HostMoves
<1>3. ASSUME NEW c \in Calls, Call(c) \/ CallFails(c) \/ GiveUp(c)
      PROVE  TypeOK'
  <2>1. pc' \in [Calls -> Places]
    BY <1>3 DEF Call, CallFails, GiveUp
  <2>2. told' \in [Calls -> Outcomes \cup {"none"}]
    BY <1>3 DEF Call, CallFails, GiveUp
  <2>3. earlier' \in [Calls -> SUBSET Calls]
    <3>1. {d \in Calls : pc[d] = "done"} \in SUBSET Calls
      OBVIOUS
    <3>2. QED
      BY <1>3, <3>1 DEF Call, CallFails, GiveUp
  <2>4. QED
    BY <1>3, <2>1, <2>2, <2>3 DEF Call, CallFails, GiveUp
<1>4. ASSUME NEW c \in Calls, Remember(c)
      PROVE  TypeOK'
  <2>1. outcome[c] \in Outcomes
    BY <1>4 DEF ThreadIsTruthful, Remember
  <2>2. memory' \in Seq(Results) /\ Len(memory') <= Memory
    BY <1>4, <2>1, RememberedWell
  <2>3. QED
    BY <1>4, <2>2 DEF Remember
<1>5. ASSUME NEW c \in Calls, Replay(c)
      PROVE  TypeOK'
  <2>1. \A i \in 1 .. Len(memory) : memory[i].outcome \in Outcomes
    <3>1. \A i \in 1 .. Len(memory) : memory[i] \in Results
      OBVIOUS
    <3>2. QED
      BY <3>1 DEF Results
  <2>2. outcome' \in [Calls -> Outcomes \cup {"none"}]
    BY <1>5, <2>1 DEF Replay, Remembered
  <2>3. QED
    BY <1>5, <2>2 DEF Replay
<1>6. ASSUME NEW c \in Calls, Load(c) \/ Store(c)
      PROVE  TypeOK'
  <2>1. pc' \in [Calls -> Places]
    BY <1>6 DEF Load, Store
  <2>2. loaded' \in [Calls -> Nat]
    <3>1. loaded' = [loaded EXCEPT ![c] = sequence] \/ loaded' = [loaded EXCEPT ![c] = 0]
      BY <1>6 DEF Load, Store
    <3>2. QED
      BY <3>1
  <2>3. sequence' \in Nat
    <3>1. loaded[c] \in Nat
      OBVIOUS
    <3>2. QED
      BY <1>6, <3>1 DEF Load, Store
  <2>4. QED
    BY <1>6, <2>1, <2>2, <2>3 DEF Load, Store
<1>7. ASSUME NEW c \in Calls, Lookup(c) \/ Interpret(c)
      PROVE  TypeOK'
  <2>1. sent' = sent \/ sent' = [sent EXCEPT ![c] = 0]
    BY <1>7 DEF Lookup, Interpret
  <2>2. link' = link \/ link' = [link EXCEPT ![c] = "other"]
    BY <1>7 DEF Lookup, Interpret
  <2>3. sent' \in [Calls -> Nat] /\ link' \in [Calls -> Values \cup {"other"}]
    <3>1. sent \in [Calls -> Nat] /\ link \in [Calls -> Values \cup {"other"}] /\ 0 \in Nat
      OBVIOUS
    <3>2. sent' \in [Calls -> Nat]
      BY <2>1, <3>1
    <3>3. link' \in [Calls -> Values \cup {"other"}]
      BY <2>2, <3>1
    <3>4. QED
      BY <3>2, <3>3
  <2>4. pc' \in [Calls -> Places] /\ outcome' \in [Calls -> Outcomes \cup {"none"}]
    <3>1. PICK next \in {"load", "reload", "remember"} : pc' = [pc EXCEPT ![c] = next]
      BY <1>7 DEF Lookup, Interpret
    <3>2. outcome' = outcome \/ outcome' = [outcome EXCEPT ![c] = "not_written"]
      BY <1>7 DEF Lookup, Interpret
    <3>3. next \in Places
      BY <3>1
    <3>4. QED
      BY <3>1, <3>2, <3>3
  <2>5. QED
    BY <1>7, <2>3, <2>4 DEF Lookup, Interpret
<1>8. ASSUME NEW c \in Calls, Query(c)
      PROVE  TypeOK'
  <2>1. pc' \in [Calls -> Places] /\ outcome' \in [Calls -> Outcomes \cup {"none"}]
    <3>1. PICK next \in {"interpret", "remember"} : pc' = [pc EXCEPT ![c] = next]
      BY <1>8 DEF Query
    <3>2. outcome' = outcome \/ outcome' = [outcome EXCEPT ![c] = "not_written"]
      BY <1>8 DEF Query
    <3>3. next \in Places
      BY <3>1
    <3>4. QED
      BY <3>1, <3>2, <3>3
  <2>2. sent' \in [Calls -> Nat]
    BY <1>8 DEF Query
  <2>3. link' \in [Calls -> Values \cup {"other"}]
    BY <1>8 DEF Query
  <2>4. QED
    BY <1>8, <2>1, <2>2, <2>3 DEF Query
<1>9. ASSUME NEW c \in Calls, Mutate(c)
      PROVE  TypeOK'
  <2>1. pc' \in [Calls -> Places]
    <3>1. PICK next \in {"ack", "remember"} : pc' = [pc EXCEPT ![c] = next]
      BY <1>9 DEF Mutate
    <3>2. next \in Places
      BY <3>1
    <3>3. QED
      BY <3>1, <3>2
  <2>2. outcome' \in [Calls -> Outcomes \cup {"none"}]
    BY <1>9 DEF Mutate
  <2>3. sent' \in [Calls -> Nat] /\ mtu' \in Values /\ wrote' \in SUBSET Calls
    BY <1>9 DEF Mutate
  <2>4. QED
    BY <1>9, <2>1, <2>2, <2>3 DEF Mutate
<1>10. ASSUME NEW c \in Calls, Acknowledge(c) \/ Reply(c)
      PROVE  TypeOK'
  <2>1. pc' \in [Calls -> Places]
    <3>1. PICK next \in {"remember", "done"} : pc' = [pc EXCEPT ![c] = next]
      BY <1>10 DEF Acknowledge, Reply
    <3>2. next \in Places
      BY <3>1
    <3>3. QED
      BY <3>1, <3>2
  <2>2. outcome' \in [Calls -> Outcomes \cup {"none"}]
    BY <1>10 DEF Acknowledge, Reply
  <2>3. told' \in [Calls -> Outcomes \cup {"none"}]
    BY <1>10 DEF Acknowledge, Reply
  <2>4. QED
    BY <1>10, <2>1, <2>2, <2>3 DEF Acknowledge, Reply
<1>11. QED
  BY <1>1, <1>2, <1>3, <1>4, <1>5, <1>6, <1>7, <1>8, <1>9, <1>10 DEF Next, Thread

\* What one call's thread does to its own result.
LEMMA ThreadStep ==
    ASSUME Truth, NEW c \in Calls, Thread(c)
    PROVE  /\ pc'[c] \in Before => c \notin wrote'
           /\ pc'[c] = "ack" => c \in wrote'
           /\ pc'[c] \in {"remember", "reply", "done"} =>
                 /\ outcome'[c] \in Outcomes
                 /\ outcome'[c] = "written" => CarriedOut(Attempt[c])'
                 /\ outcome'[c] = "not_written" => c \notin wrote'
<1> USE DEF Truth, TypeOK, ThreadIsTruthful, Goto, Conclude, kernel, shared, Before, Outcomes,
            CarriedOut
<1>1. CASE Replay(c)
  <2>1. PICK i \in 1 .. Len(memory) :
           memory[i].attempt = Attempt[c] /\ outcome' = [outcome EXCEPT ![c] = memory[i].outcome]
    <3>1. PICK m \in Remembered(c) : outcome' = [outcome EXCEPT ![c] = m.outcome]
      BY <1>1 DEF Replay
    <3>2. PICK i \in 1 .. Len(memory) : m = memory[i] /\ m.attempt = Attempt[c]
      BY <3>1 DEF Remembered
    <3>3. QED
      BY <3>1, <3>2
  <2>2. memory[i] \in Results
    OBVIOUS
  <2>3. memory[i].outcome \in Outcomes
    BY <2>2 DEF Results
  <2>4. memory[i].outcome = "written" => \E d \in wrote : Attempt[d] = Attempt[c]
    BY <2>1 DEF MemoryIsTruthful
  <2>5. QED
    BY <1>1, <2>1, <2>3, <2>4 DEF Replay
<1>2. CASE Lookup(c) \/ Load(c) \/ Store(c) \/ Query(c) \/ Interpret(c)
  BY <1>2 DEF Lookup, Load, Store, Query, Interpret
<1>3. CASE Mutate(c) \/ Acknowledge(c)
  BY <1>3 DEF Mutate, Acknowledge
<1>4. CASE Remember(c) \/ Reply(c)
  BY <1>4 DEF Remember, Reply
<1>5. QED
  BY <1>1, <1>2, <1>3, <1>4 DEF Thread

LEMMA TruthStep ==
    ASSUME Truth, [Next]_vars
    PROVE  Truth'
<1>0. TypeOK /\ TypeOK'
  BY TypeStep DEF Truth
<1> USE DEF Truth, CarriedOut
<1>1. CASE UNCHANGED vars \/ HostMoves
  BY <1>0, <1>1 DEF vars, kernel, shared, HostMoves, ThreadIsTruthful, MemoryIsTruthful,
                    AnswersAreTruthful
<1>2. ASSUME NEW c \in Calls, Call(c) \/ CallFails(c) \/ GiveUp(c)
      PROVE  Truth'
  <2>1. UNCHANGED <<wrote, memory, outcome>>
    BY <1>2 DEF Call, CallFails, GiveUp, kernel, shared
  <2>2. \/ pc' = pc
        \/ /\ pc[c] = "idle" /\ told[c] = "none" /\ told' = told
           /\ pc' = [pc EXCEPT ![c] = "lookup"]
    BY <1>2 DEF Call, CallFails, GiveUp, Goto
  <2>3. \/ told' = told
        \/ pc[c] = "idle" /\ told' = [told EXCEPT ![c] = "not_written"]
        \/ told' = [told EXCEPT ![c] = "write_unknown"]
    BY <1>2 DEF Call, CallFails, GiveUp
  <2>4. pc \in [Calls -> Places] /\ told \in [Calls -> Outcomes \cup {"none"}]
    BY <1>0 DEF TypeOK
  <2>5. ThreadIsTruthful' /\ MemoryIsTruthful'
    BY <2>1, <2>2, <2>4 DEF ThreadIsTruthful, MemoryIsTruthful, Before
  <2>6. AnswersAreTruthful'
    BY <2>1, <2>2, <2>3, <2>4 DEF AnswersAreTruthful, ThreadIsTruthful, Before
  <2>7. QED
    BY <1>0, <2>5, <2>6
<1>3. ASSUME NEW c \in Calls, Thread(c)
      PROVE  Truth'
  <2>1. ThreadIsTruthful'
    BY <1>0, <1>3, ThreadMovesOne, ThreadStep DEF ThreadIsTruthful
  <2>2. MemoryIsTruthful'
    <3>1. CASE pc[c] # "remember"
      BY <1>0, <1>3, <3>1, ThreadMovesOne DEF MemoryIsTruthful
    <3>2. CASE pc[c] = "remember"
      <4>1. Remember(c) /\ wrote' = wrote
        BY <1>3, <3>2 DEF Thread, Replay, Lookup, Load, Store, Query, Interpret, Mutate,
                          Acknowledge, Remember, Reply, kernel
      <4>2. /\ outcome[c] \in Outcomes
            /\ outcome[c] = "written" => CarriedOut(Attempt[c])
        BY <3>2 DEF ThreadIsTruthful
      <4>3. \A i \in 1 .. Len(memory') :
               \/ memory'[i] = [attempt |-> Attempt[c], outcome |-> outcome[c]]
               \/ \E j \in 1 .. Len(memory) : memory'[i] = memory[j]
        BY <1>0, <4>1, <4>2, RememberedWell
      <4>4. QED
        BY <4>1, <4>2, <4>3 DEF MemoryIsTruthful
    <3>3. QED
      BY <3>1, <3>2
  <2>3. AnswersAreTruthful'
    <3>1. ASSUME NEW d \in Calls, d # c
          PROVE  /\ told'[d] = "written" => CarriedOut(Attempt[d])'
                 /\ told'[d] = "not_written" => d \notin wrote' /\ pc'[d] \in {"idle", "done"}
      BY <1>0, <1>3, <3>1, ThreadMovesOne DEF AnswersAreTruthful
    <3>2. CASE pc[c] # "reply"
      <4>1. told' = told
        BY <1>3, <3>2 DEF Thread, Replay, Lookup, Load, Store, Query, Interpret, Mutate,
                          Acknowledge, Remember, Reply
      <4>2. told[c] # "not_written"
        BY <1>0, <1>3, ThreadMovesOne DEF AnswersAreTruthful
      <4>3. QED
        BY <1>0, <1>3, <3>1, <4>1, <4>2, ThreadMovesOne DEF AnswersAreTruthful
    <3>3. CASE pc[c] = "reply"
      <4>1. Reply(c) /\ wrote' = wrote
        BY <1>3, <3>3 DEF Thread, Replay, Lookup, Load, Store, Query, Interpret, Mutate,
                          Acknowledge, Remember, Reply, kernel
      <4>2. pc'[c] = "done" /\ told[c] # "not_written"
            /\ told'[c] = IF told[c] = "none" THEN outcome[c] ELSE told[c]
        <5>1. pc \in [Calls -> Places] /\ told \in [Calls -> Outcomes \cup {"none"}]
          BY <1>0 DEF TypeOK
        <5>2. QED
          BY <3>3, <4>1, <5>1 DEF Reply, Goto, AnswersAreTruthful
      <4>3. QED
        BY <3>1, <3>3, <4>1, <4>2 DEF AnswersAreTruthful, ThreadIsTruthful
    <3>4. QED
      BY <3>2, <3>3
  <2>4. QED
    BY <1>0, <2>1, <2>2, <2>3
<1>4. QED
  BY <1>1, <1>2, <1>3 DEF Next

LEMMA TruthHolds == Spec => []Truth
  BY InitTruth, TruthStep, PTL DEF Spec

\* Whatever the threads of one helper interleave to, a caller that is told `written`
\* or `not_written` is told the truth (set_mtu, _set_interface_mtu, ipc.call).
THEOREM AnswersAreAlwaysTruthful == Spec => []AnswersAreTruthful
<1>1. Truth => AnswersAreTruthful
  BY DEF Truth
<1>2. QED
  BY <1>1, TruthHolds, PTL

-----------------------------------------------------------------------------
(* An attempt is dispatched once while the memory may know of it.          *)

LEMMA InitOnce == Init => Once
  BY DEF Init, Once, EarlierIsOver, FreshIsUnknown, CarriedOutIsKnown, Fresh, Before

\* Where a thread may go from where it stands.
LEMMA ThreadPath ==
    ASSUME TypeOK, NEW c \in Calls, Thread(c)
    PROVE  /\ pc'[c] \in Fresh => pc[c] \in Fresh \/ (pc[c] = "lookup" /\ Remembered(c) = {})
           /\ pc'[c] \in {"reply", "done"} => pc[c] \in {"lookup", "remember", "reply"}
           /\ pc'[c] = "reply" /\ pc[c] = "remember" => Remember(c)
           /\ pc[c] = "remember" => pc'[c] = "reply" /\ Remember(c)
<1>0. pc \in [Calls -> Places]
  BY DEF TypeOK
<1> USE <1>0 DEF Goto, Conclude, Places, Fresh, Before
<1>1. CASE Replay(c) \/ Lookup(c)
  BY <1>1 DEF Replay, Lookup
<1>2. CASE Load(c) \/ Store(c) \/ Query(c) \/ Interpret(c)
  BY <1>2 DEF Load, Store, Query, Interpret
<1>3. CASE Mutate(c) \/ Acknowledge(c)
  BY <1>3 DEF Mutate, Acknowledge
<1>4. CASE Remember(c)
  BY <1>4 DEF Remember
<1>5. CASE Reply(c)
  BY <1>5 DEF Reply
<1>6. QED
  BY <1>1, <1>2, <1>3, <1>4, <1>5 DEF Thread

\* A call that overlaps none of its attempt after a step overlapped none before it.
LEMMA AloneBefore ==
    ASSUME NEW d \in Calls, Alone(d)', earlier'[d] = earlier[d],
           \A c \in Calls : pc'[c] = "idle" => pc[c] = "idle"
    PROVE  Alone(d)
  BY DEF Alone

LEMMA OnceStep ==
    ASSUME Truth, Once, [Next]_vars
    PROVE  Once'
<1>0. /\ TypeOK /\ pc \in [Calls -> Places] /\ wrote \in SUBSET Calls
      /\ earlier \in [Calls -> SUBSET Calls] /\ Attempt \in [Calls -> Attempts]
  BY HelperAssumption DEF Truth, TypeOK
<1>1. CASE UNCHANGED <<pc, memory, wrote, earlier>>
  BY <1>1 DEF Once, EarlierIsOver, FreshIsUnknown, CarriedOutIsKnown, Alone
<1>2. ASSUME NEW c \in Calls, Call(c)
      PROVE  Once'
  <2>1. /\ UNCHANGED <<memory, wrote>> /\ pc[c] = "idle" /\ pc' = [pc EXCEPT ![c] = "lookup"]
        /\ earlier' = [earlier EXCEPT ![c] = {d \in Calls : pc[d] = "done"}]
    BY <1>2 DEF Call, Goto, kernel, shared
  <2>2. EarlierIsOver'
    BY <1>0, <2>1 DEF Once, EarlierIsOver
  <2>3. FreshIsUnknown'
    <3>1. ASSUME NEW d \in Calls, pc'[d] \in Fresh, Alone(d)'
          PROVE  pc[d] \in Fresh /\ Alone(d)
      <4>1. d # c /\ pc[d] \in Fresh /\ earlier'[d] = earlier[d]
        BY <1>0, <2>1, <3>1 DEF Fresh, Before
      <4>2. QED
        BY <1>0, <2>1, <3>1, <4>1, AloneBefore
    <3>2. QED
      BY <2>1, <3>1 DEF Once, FreshIsUnknown
  <2>4. CarriedOutIsKnown'
    BY <1>0, <2>1 DEF Once, CarriedOutIsKnown
  <2>5. QED
    BY <2>2, <2>3, <2>4 DEF Once
<1>3. ASSUME NEW c \in Calls, Thread(c)
      PROVE  Once'
  <2>1. /\ pc[c] \notin {"idle", "done"} /\ pc'[c] # "idle" /\ earlier' = earlier
        /\ \A d \in Calls : d # c => pc'[d] = pc[d]
        /\ \/ wrote' = wrote
           \/ wrote' = wrote \cup {c} /\ pc'[c] = "ack"
    BY <1>0, <1>3, ThreadMovesOne
  <2>2. EarlierIsOver'
    BY <1>0, <2>1 DEF Once, EarlierIsOver
  <2>a. \A d \in Calls : Alone(d)' => Alone(d)
    BY <2>1, AloneBefore
  <2>3. CASE pc[c] # "remember"
    <3>1. memory' = memory
      BY <1>0, <1>3, <2>3, ThreadMovesOne
    <3>2. FreshIsUnknown'
      <4>1. Remembered(c) = {} => \A i \in 1 .. Len(memory) : memory[i].attempt # Attempt[c]
        BY DEF Remembered
      <4>2. pc'[c] \in Fresh /\ Alone(c)' =>
               \A i \in 1 .. Len(memory) : memory[i].attempt # Attempt[c]
        BY <1>0, <1>3, <2>a, <4>1, ThreadPath DEF Once, FreshIsUnknown
      <4>3. QED
        BY <2>1, <2>a, <3>1, <4>2 DEF Once, FreshIsUnknown
    <3>3. CarriedOutIsKnown'
      <4>1. c \in wrote' /\ pc'[c] \in {"reply", "done"} => c \in wrote /\ pc[c] = "reply"
        <5>1. pc[c] = "lookup" => c \notin wrote
          BY DEF Truth, ThreadIsTruthful, Before
        <5>2. QED
          BY <1>0, <1>3, <2>1, <2>3, <5>1, ThreadPath
      <4>2. QED
        BY <1>0, <2>1, <3>1, <4>1 DEF Once, CarriedOutIsKnown
    <3>4. QED
      BY <2>2, <3>2, <3>3 DEF Once
  <2>4. CASE pc[c] = "remember"
    <3>1. Remember(c) /\ wrote' = wrote /\ pc'[c] = "reply" /\ outcome[c] \in Outcomes
      BY <1>0, <1>3, <2>4, ThreadPath DEF Remember, kernel, Truth, ThreadIsTruthful
    <3>2. \A i \in 1 .. Len(memory') :
             \/ memory'[i].attempt = Attempt[c]
             \/ \E j \in 1 .. Len(memory) : memory'[i] = memory[j]
      <4>1. \A i \in 1 .. Len(memory') :
               \/ memory'[i] = [attempt |-> Attempt[c], outcome |-> outcome[c]]
               \/ \E j \in 1 .. Len(memory) : memory'[i] = memory[j]
        BY <1>0, <3>1, RememberedWell
      <4>2. QED
        BY <4>1
    <3>3. \/ Len(memory') = Memory
          \/ /\ \E i \in 1 .. Len(memory') : memory'[i].attempt = Attempt[c]
             /\ \A j \in 1 .. Len(memory) :
                   \E i \in 1 .. Len(memory') : memory'[i].attempt = memory[j].attempt
      BY <1>0, <3>1, RememberedWell
    <3>4. FreshIsUnknown'
      <4>1. ASSUME NEW d \in Calls, pc'[d] \in Fresh, Alone(d)'
            PROVE  Attempt[d] # Attempt[c] /\ pc[d] \in Fresh /\ Alone(d)
        <5>1. d # c /\ pc[d] \in Fresh /\ Alone(d)
          BY <2>1, <2>a, <3>1, <4>1 DEF Fresh, Before
        <5>2. c \notin earlier[d] /\ pc[c] # "idle"
          BY <2>1 DEF Once, EarlierIsOver
        <5>3. QED
          BY <5>1, <5>2 DEF Alone
      <4>2. QED
        BY <3>2, <4>1 DEF Once, FreshIsUnknown
    <3>5. CarriedOutIsKnown'
      <4>1. CASE Len(memory') = Memory
        BY <4>1 DEF CarriedOutIsKnown
      <4>2. CASE Len(memory') # Memory
        <5>1. ASSUME NEW d \in wrote, d # c, pc'[d] \in {"reply", "done"}, Len(memory) # Memory
              PROVE  \E i \in 1 .. Len(memory') : memory'[i].attempt = Attempt[d]
          BY <1>0, <2>1, <3>3, <4>2, <5>1 DEF Once, CarriedOutIsKnown
        <5>2. Len(memory) # Memory
          <6>1. /\ Len(memory) <= Len(memory') /\ Len(memory') <= Memory
                /\ memory' \in Seq(Results) /\ memory \in Seq(Results)
            BY <1>0, <3>1, RememberedWell DEF TypeOK
          <6>2. Len(memory) \in Nat /\ Len(memory') \in Nat /\ Memory \in Nat
            BY <6>1, LenProperties, HelperAssumption
          <6>3. QED
            BY <4>2, <6>1, <6>2
        <5>3. QED
          BY <1>0, <3>1, <3>3, <4>2, <5>1, <5>2 DEF CarriedOutIsKnown
      <4>3. QED
        BY <4>1, <4>2
    <3>6. QED
      BY <2>2, <3>4, <3>5 DEF Once
  <2>5. QED
    BY <2>3, <2>4
<1>4. QED
  BY <1>1, <1>2, <1>3 DEF Next, vars, CallFails, GiveUp, HostMoves, kernel, shared

\* Whatever the calls do before and beside it, a call that overlaps no other call of its
\* attempt dispatches one that wrote only after the memory was filled with others,
\* whatever its size (_set_interface_mtu, _remember).
THEOREM LoneRepeatIsDispatchedOnlyIfForgotten == Spec => []DispatchedAgainOnlyIfForgotten
<1>1. ASSUME Truth, Once
      PROVE  DispatchedAgainOnlyIfForgotten
  <2> SUFFICES ASSUME NEW c \in Calls, NEW d \in Calls, c # d, Attempt[c] = Attempt[d],
                      c \in wrote, pc[d] = "mutate", Alone(d)
               PROVE  /\ Len(memory) = Memory
                      /\ \A i \in 1 .. Memory : memory[i].attempt # Attempt[d]
    BY DEF DispatchedAgainOnlyIfForgotten
  <2>1. c \in earlier[d] \/ pc[c] = "idle"
    BY DEF Alone
  <2>2. pc[c] = "done"
    BY <1>1, <2>1 DEF Once, EarlierIsOver, Truth, ThreadIsTruthful, Before
  <2>3. \A i \in 1 .. Len(memory) : memory[i].attempt # Attempt[d]
    BY <1>1 DEF Once, FreshIsUnknown, Fresh, Before
  <2>4. Len(memory) = Memory
    BY <1>1, <2>2, <2>3 DEF Once, CarriedOutIsKnown
  <2>5. QED
    BY <2>3, <2>4
<1>2. Truth /\ Once /\ [Next]_vars => Once'
  BY OnceStep
<1>3. QED
  BY <1>1, <1>2, InitOnce, TruthHolds, PTL DEF Spec
=============================================================================
