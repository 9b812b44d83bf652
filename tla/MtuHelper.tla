----------------------------- MODULE MtuHelper -----------------------------
(***************************************************************************)
(* The privileged helper: helper/service.py over helper/mtu.py, and the    *)
(* agent's call to it (agent/service.py _set_interface_mtu, ipc.py call).  *)
(*                                                                         *)
(* The helper is a threading server. Every call is a connection with a     *)
(* thread of its own, and the threads share, without a lock, the sequence  *)
(* counter of InterfaceMtuSetter and the memory of completed attempts. One *)
(* step here is one shared access or one exchange with the kernel; the     *)
(* client may give up at any moment after its request was written.         *)
(***************************************************************************)
EXTENDS Naturals, Sequences

CONSTANTS
    Calls,        \* client calls of set_interface_mtu
    Attempts,     \* attempt ids
    Attempt,      \* the attempt id each call carries
    Expected,     \* its expected_current_mtu
    Desired,      \* its desired_mtu
    Values,       \* MTUs
    Start,        \* the MTU the link begins with
    Memory,       \* ATTEMPT_MEMORY
    MaxMoves      \* bound on changes to the link by others

ASSUME HelperAssumption ==
    /\ Attempt \in [Calls -> Attempts]
    /\ Expected \in [Calls -> Values]
    /\ Desired \in [Calls -> Values]
    /\ Start \in Values
    /\ Memory \in Nat
    /\ MaxMoves \in Nat

VARIABLES
    mtu,       \* the link's MTU
    own,       \* does the index still name the link the plan meant?
    sequence,  \* InterfaceMtuSetter._sequence
    memory,    \* HelperService._attempts, oldest first
    pc,        \* where a call's thread stands
    loaded,    \* the counter as `+=` read it
    sent,      \* the sequence number in the frame
    link,      \* what the kernel said of the link: an MTU, or "other"
    outcome,   \* the thread's result
    told,      \* what the agent has told its own caller
    wrote,     \* the calls whose frame the kernel carried out
    earlier,   \* the calls that were over when a call began
    moves

shared == <<sequence, memory>>
kernel == <<mtu, own, wrote>>
vars   == <<kernel, shared, pc, loaded, sent, link, outcome, told, earlier, moves>>

Outcomes == {"not_written", "written", "write_unknown"}
Places   == {"idle", "lookup", "load", "store", "query", "interpret", "reload",
             "restore", "mutate", "ack", "remember", "reply", "done"}
Results  == [attempt : Attempts, outcome : Outcomes]

TypeOK ==
    /\ mtu \in Values
    /\ own \in BOOLEAN
    /\ sequence \in Nat
    /\ memory \in Seq(Results) /\ Len(memory) <= Memory
    /\ pc \in [Calls -> Places]
    /\ loaded \in [Calls -> Nat]
    /\ sent \in [Calls -> Nat]
    /\ link \in [Calls -> Values \cup {"other"}]
    /\ outcome \in [Calls -> Outcomes \cup {"none"}]
    /\ told \in [Calls -> Outcomes \cup {"none"}]
    /\ wrote \in SUBSET Calls
    /\ earlier \in [Calls -> SUBSET Calls]
    /\ moves \in 0 .. MaxMoves

Init ==
    /\ mtu = Start
    /\ own = TRUE
    /\ sequence = 0
    /\ memory = << >>
    /\ pc = [c \in Calls |-> "idle"]
    /\ loaded = [c \in Calls |-> 0]
    /\ sent = [c \in Calls |-> 0]
    /\ link = [c \in Calls |-> "other"]
    /\ outcome = [c \in Calls |-> "none"]
    /\ told = [c \in Calls |-> "none"]
    /\ wrote = {}
    /\ earlier = [c \in Calls |-> {}]
    /\ moves = 0

-----------------------------------------------------------------------------

Goto(c, next) == pc' = [pc EXCEPT ![c] = next]

\* The thread has its result; what remains is to remember it and to answer.
Conclude(c, o) ==
    /\ Goto(c, "remember")
    /\ outcome' = [outcome EXCEPT ![c] = o]

\* ipc.call writes the request frame; from here on it counts as dispatched.
Call(c) ==
    /\ pc[c] = "idle" /\ told[c] = "none"
    /\ Goto(c, "lookup")
    /\ earlier' = [earlier EXCEPT ![c] = {d \in Calls : pc[d] = "done"}]
    /\ UNCHANGED <<kernel, shared, loaded, sent, link, outcome, told, moves>>

\* HelperError with dispatched = False: the helper was never given it.
CallFails(c) ==
    /\ pc[c] = "idle" /\ told[c] = "none"
    /\ told' = [told EXCEPT ![c] = "not_written"]
    /\ UNCHANGED <<kernel, shared, pc, loaded, sent, link, outcome, earlier, moves>>

\* Faulty variant of GiveUp: a timeout is a failure.
GiveUpAsFailure(c) ==
    /\ pc[c] # "idle" /\ told[c] = "none"
    /\ told' = [told EXCEPT ![c] = "not_written"]
    /\ UNCHANGED <<kernel, shared, pc, loaded, sent, link, outcome, earlier, moves>>

\* The client times out or loses its connection after the frame was written.
GiveUp(c) ==
    /\ pc[c] # "idle" /\ told[c] = "none"
    /\ told' = [told EXCEPT ![c] = "write_unknown"]
    /\ UNCHANGED <<kernel, shared, pc, loaded, sent, link, outcome, earlier, moves>>

\* Faulty variant of Remembered: the memory is never consulted.
RememberedNothing(c) == {}

\* The results remembered for the attempt a call carries.
Remembered(c) == {m \in {memory[i] : i \in 1 .. Len(memory)} : m.attempt = Attempt[c]}

\* _set_interface_mtu: a remembered attempt is answered with what happened.
Replay(c) ==
    /\ pc[c] = "lookup"
    /\ \E m \in Remembered(c) : outcome' = [outcome EXCEPT ![c] = m.outcome]
    /\ Goto(c, "reply")
    /\ UNCHANGED <<kernel, shared, loaded, sent, link, told, earlier, moves>>

\* ... and any other goes to set_mtu, whose arithmetic check (_check) refuses to
\* write the value it expects to find.
Lookup(c) ==
    /\ pc[c] = "lookup"
    /\ Remembered(c) = {}
    /\ IF Desired[c] = Expected[c] THEN Conclude(c, "not_written")
       ELSE Goto(c, "load") /\ UNCHANGED outcome
    /\ UNCHANGED <<kernel, shared, loaded, sent, link, told, earlier, moves>>

\* self._sequence += 1, which is a load and a store; in read_link and again in
\* set_mtu.
Load(c) ==
    /\ pc[c] \in {"load", "reload"}
    /\ loaded' = [loaded EXCEPT ![c] = sequence]
    /\ Goto(c, IF pc[c] = "load" THEN "store" ELSE "restore")
    /\ UNCHANGED <<kernel, shared, sent, link, outcome, told, earlier, moves>>

Store(c) ==
    /\ pc[c] \in {"store", "restore"}
    /\ sequence' = loaded[c] + 1
    /\ loaded' = [loaded EXCEPT ![c] = 0]
    /\ Goto(c, IF pc[c] = "store" THEN "query" ELSE "mutate")
    /\ UNCHANGED <<kernel, memory, sent, link, outcome, told, earlier, moves>>

\* read_link: the frame takes the counter as it is now, the kernel answers with
\* the link as it is now. An exchange that fails refuses.
Query(c) ==
    /\ pc[c] = "query"
    /\ sent' = [sent EXCEPT ![c] = sequence]
    /\ \/ /\ link' = [link EXCEPT ![c] = IF own THEN mtu ELSE "other"]
          /\ Goto(c, "interpret")
          /\ UNCHANGED outcome
       \/ Conclude(c, "not_written") /\ UNCHANGED link
    /\ UNCHANGED <<kernel, shared, loaded, told, earlier, moves>>

\* _interpret_link against the counter read once more, and the comparisons of
\* _check: correlated, the same link, the expected MTU. Nothing of the answer is
\* used after that.
Interpret(c) ==
    /\ pc[c] = "interpret"
    /\ IF sequence = sent[c] /\ link[c] = Expected[c]
       THEN Goto(c, "reload") /\ UNCHANGED outcome
       ELSE Conclude(c, "not_written")
    /\ sent' = [sent EXCEPT ![c] = 0]
    /\ link' = [link EXCEPT ![c] = "other"]
    /\ UNCHANGED <<kernel, shared, loaded, told, earlier, moves>>

\* The mutating frame. RTM_NEWLINK carries no precondition: the kernel sets what
\* it is told, rejects it (and the rejection may be lost), or never gets it.
Mutate(c) ==
    /\ pc[c] = "mutate"
    /\ \/ /\ mtu' = Desired[c]
          /\ wrote' = wrote \cup {c}
          /\ Goto(c, "ack")
          /\ UNCHANGED outcome
       \/ /\ \E o \in {"not_written", "write_unknown"} : Conclude(c, o)
          /\ UNCHANGED <<mtu, wrote>>
    /\ UNCHANGED <<own, shared, loaded, sent, link, told, earlier, moves>>

\* The acknowledgement, or none that can be trusted. The kernel echoes the
\* frame's own sequence number on the socket the frame went out on.
Acknowledge(c) ==
    /\ pc[c] = "ack"
    /\ \E o \in {"written", "write_unknown"} : Conclude(c, o)
    /\ UNCHANGED <<kernel, shared, loaded, sent, link, told, earlier, moves>>

\* The newest Memory results.
Kept(m) == IF Len(m) > Memory THEN SubSeq(m, Len(m) - Memory + 1, Len(m)) ELSE m

\* _remember: a dict keeps an id's first place and its last result.
Remember(c) ==
    LET new    == [attempt |-> Attempt[c], outcome |-> outcome[c]]
        placed == IF Remembered(c) = {} THEN Append(memory, new)
                  ELSE [i \in DOMAIN memory |->
                          IF memory[i].attempt = Attempt[c] THEN new ELSE memory[i]]
    IN
    /\ pc[c] = "remember"
    /\ memory' = Kept(placed)
    /\ Goto(c, "reply")
    /\ UNCHANGED <<kernel, sequence, loaded, sent, link, outcome, told, earlier, moves>>

\* The answer, if anyone is still listening.
Reply(c) ==
    /\ pc[c] = "reply"
    /\ told' = [told EXCEPT ![c] = IF @ = "none" THEN outcome[c] ELSE @]
    /\ Goto(c, "done")
    /\ UNCHANGED <<kernel, shared, loaded, sent, link, outcome, earlier, moves>>

\* Somebody else sets the MTU, or recycles the interface index.
HostMoves ==
    /\ moves < MaxMoves
    /\ moves' = moves + 1
    /\ \/ \E v \in Values \ {mtu} : mtu' = v /\ UNCHANGED own
       \/ own' = ~own /\ UNCHANGED mtu
    /\ UNCHANGED <<wrote, shared, pc, loaded, sent, link, outcome, told, earlier>>

\* One step of the helper's thread for a call.
Thread(c) ==
    \/ Replay(c) \/ Lookup(c) \/ Load(c) \/ Store(c) \/ Query(c) \/ Interpret(c)
    \/ Mutate(c) \/ Acknowledge(c) \/ Remember(c) \/ Reply(c)

Next ==
    \/ \E c \in Calls : Thread(c) \/ Call(c) \/ CallFails(c) \/ GiveUp(c)
    \/ HostMoves

Spec == Init /\ [][Next]_vars

-----------------------------------------------------------------------------
(* Properties *)

\* What a caller is told is what the kernel did with the attempt, for calls that
\* share a counter and a memory without a lock, clients that give up and
\* attempts asked twice: `written` only if it was carried out, `not_written`
\* only if it was not and cannot be any more (set_mtu, _set_interface_mtu).
AnswersAreTruthful ==
    \A c \in Calls :
        /\ told[c] = "written" =>
              \E d \in wrote : Attempt[d] = Attempt[c]
        /\ told[c] = "not_written" =>
              /\ c \notin wrote
              /\ pc[c] \in {"idle", "done"}

\* What the module docstring says without a condition ("An attempt is dispatched at most
\* once"), as far as a bounded memory can: an attempt that wrote is not dispatched again
\* while the memory has not been filled with others. It does not hold: two calls of one
\* attempt that overlap both find nothing. No run of this project checks it.
OneDispatchPerAttempt ==
    \A c, d \in Calls :
        c # d /\ Attempt[c] = Attempt[d] /\ c \in wrote /\ pc[d] = "mutate" =>
            /\ Len(memory) = Memory
            /\ \A i \in 1 .. Memory : memory[i].attempt # Attempt[d]

\* Every other call of the attempt was over before this one began, or is still to come.
Alone(d) ==
    \A c \in Calls \ {d} :
        Attempt[c] = Attempt[d] => c \in earlier[d] \/ pc[c] = "idle"

\* A call that overlaps no other call of its attempt dispatches one that wrote only
\* after Memory other attempts have pushed it out of the memory. Neither a lost answer,
\* nor a client that gave up, nor calls of the attempt that overlapped one another
\* before, nor other attempts storing at the same time, let it through
\* (_set_interface_mtu, _remember).
DispatchedAgainOnlyIfForgotten ==
    \A c, d \in Calls :
        c # d /\ Attempt[c] = Attempt[d] /\ c \in wrote /\ pc[d] = "mutate" /\ Alone(d) =>
            /\ Len(memory) = Memory
            /\ \A i \in 1 .. Memory : memory[i].attempt # Attempt[d]

=============================================================================
