--------------------------- MODULE ChangePromise ---------------------------
(***************************************************************************)
(* What the Change engine promises the operator about a Run, with none of  *)
(* how it keeps the promise: no threads, no checkpoints, no reading back,  *)
(* no crash and no settlement at startup.                                  *)
(*                                                                         *)
(* A Run is owned by nobody or owns its target. It tells the operator one  *)
(* of six things: that it is open (nothing was attempted), in flight, or   *)
(* how it ended: nothing was changed, the change is done, the change was   *)
(* undone, or a person is needed. `asked` is the truth the engine cannot   *)
(* always see: what became of the one request made of the host.            *)
(*                                                                         *)
(* The promise about an undone Run is the weakest: it says the host was    *)
(* read back as it was before, and not that a request nobody answered      *)
(* cannot still be carried out.                                            *)
(***************************************************************************)
CONSTANTS Runs, Targets, Target, NoRun

VARIABLES told, asked, owner

vars == <<told, asked, owner>>

Init ==
    /\ told = [r \in Runs |-> "open"]
    /\ asked = [r \in Runs |-> "idle"]
    /\ owner = [t \in Targets |-> NoRun]

\* An open Run takes its target, if nobody else has it.
Take(r) ==
    /\ told[r] = "open"
    /\ owner[Target[r]] = NoRun
    /\ owner' = [owner EXCEPT ![Target[r]] = r]
    /\ UNCHANGED <<told, asked>>

\* A Run that has attempted nothing gives its target back.
Return(r) ==
    /\ told[r] \in {"open", "nothing"}
    /\ owner[Target[r]] = r
    /\ owner' = [owner EXCEPT ![Target[r]] = NoRun]
    /\ UNCHANGED <<told, asked>>

\* The boundary. Only the owner of the target crosses it, and only once.
Begin(r) ==
    /\ told[r] = "open"
    /\ owner[Target[r]] = r
    /\ told' = [told EXCEPT ![r] = "in_flight"]
    /\ UNCHANGED <<asked, owner>>

\* The one request made of the host for the Run.
Ask(r) ==
    /\ told[r] = "in_flight"
    /\ owner[Target[r]] = r
    /\ asked[r] = "idle"
    /\ asked' = [asked EXCEPT ![r] = "sent"]
    /\ UNCHANGED <<told, owner>>

\* The host carries it out or refuses it, at a time of its own choosing.
Reach(r) ==
    /\ asked[r] = "sent"
    /\ \E end \in {"written", "not_written"} : asked' = [asked EXCEPT ![r] = end]
    /\ UNCHANGED <<told, owner>>

\* Nothing was changed, and nothing can be any more.
TellNothing(r) ==
    /\ told[r] \in {"open", "in_flight"}
    /\ asked[r] \in {"idle", "not_written"}
    /\ told' = [told EXCEPT ![r] = "nothing"]
    /\ IF told[r] = "in_flight"
       THEN owner' = [owner EXCEPT ![Target[r]] = NoRun]
       ELSE owner' \in {owner, [t \in Targets |-> IF owner[t] = r THEN NoRun ELSE owner[t]]}
    /\ UNCHANGED asked

\* The change is done, or was undone: the target is free.
TellSettled(r, ending) ==
    /\ told[r] = "in_flight"
    /\ asked[r] \in (IF ending = "done" THEN {"written"} ELSE {"sent", "written", "not_written"})
    /\ told' = [told EXCEPT ![r] = ending]
    /\ owner' = [owner EXCEPT ![Target[r]] = NoRun]
    /\ UNCHANGED asked

\* A person is needed: the target stays taken.
TellPerson(r) ==
    /\ told[r] = "in_flight"
    /\ told' = [told EXCEPT ![r] = "person"]
    /\ UNCHANGED <<asked, owner>>

Next ==
    \E r \in Runs :
        \/ Take(r) \/ Return(r) \/ Begin(r) \/ Ask(r) \/ Reach(r)
        \/ TellNothing(r) \/ TellPerson(r)
        \/ \E ending \in {"done", "undone"} : TellSettled(r, ending)

Spec == Init /\ [][Next]_vars
=============================================================================
