------------------------------ MODULE Sessions ------------------------------
(***************************************************************************)
(* Who may call the backend: the master secret on disk and the browser     *)
(* sessions in memory (backend/auth.py, backend/auth_cli.py and the        *)
(* session routes of backend/api/routes.py).                               *)
(*                                                                         *)
(* `localplane-auth init` may be run twice at once and may fail or be      *)
(* killed half way. The session store is shared by request threads: each   *)
(* reads the clock before it takes the store's lock, so it may be late     *)
(* when it gets there, and the wall clock itself may be set back.          *)
(***************************************************************************)
EXTENDS Naturals, FiniteSets

CONSTANTS
    Inits,        \* runs of `localplane-auth init`; each draws a token of its own
    Requests,     \* request threads
    Lifetime,     \* SESSION_LIFETIME
    MaxNow,       \* bound on the clock
    MaxSessions,  \* bound on sessions made
    MaxResets     \* bound on the times the clock is set back, and on restarts

ASSUME SessionsAssumption ==
    /\ "none" \notin Inits
    /\ Lifetime \in Nat \ {0} /\ MaxNow \in Nat /\ MaxSessions \in Nat /\ MaxResets \in Nat

VARIABLES
    file,         \* the secret file: whose token, how much of it is written
    init,         \* where each run of init stands
    announced,    \* the runs that printed their token
    secret,       \* the running backend's master secret, "none" when it is down
    now,          \* the wall clock
    resets,       \* how often it was set back, or the backend restarted
    made,         \* how many sessions were ever made; a session's token is its number
    sessions,     \* SessionStore._sessions: the expiry of each token held
    request,      \* request threads: what each does, with which token and clock reading
    cookie,       \* the token the browser holds, 0 for none
    refused       \* history: the tokens refused since they were made

diskvars == <<file, init, announced>>
vars     == <<diskvars, secret, now, resets, made, sessions, request, cookie, refused>>

NoFile == [of |-> "none", written |-> "nothing"]
Idle   == [op |-> "idle", token |-> 0, now |-> 0]

Init ==
    /\ file = NoFile /\ init = [i \in Inits |-> "start"] /\ announced = {}
    /\ secret = "none" /\ now = 0 /\ resets = 0 /\ made = 0
    /\ sessions = [t \in {} |-> 0]
    /\ request = [r \in Requests |-> Idle]
    /\ cookie = 0 /\ refused = {}

-----------------------------------------------------------------------------
(* initialize_master_secret.                                               *)

DiskOnly == UNCHANGED <<secret, now, resets, made, sessions, request, cookie, refused>>
To(i, s) == init' = [init EXCEPT ![i] = s]

\* The checks of the path: there is no file yet.
CheckAbsent(i) ==
    /\ init[i] = "start"
    /\ To(i, IF file = NoFile THEN "absent" ELSE "failed")
    /\ UNCHANGED <<file, announced>> /\ DiskOnly

\* Faulty variant of OpenExclusive: the file is taken as created before it is opened.
OpenThenOwn(i) ==
    /\ init[i] = "absent"
    /\ IF file = NoFile THEN file' = [of |-> i, written |-> "nothing"] /\ To(i, "created")
       ELSE file' = NoFile /\ To(i, "failed")
    /\ UNCHANGED announced /\ DiskOnly

\* O_CREAT | O_EXCL: the second run fails, and removes nothing.
OpenExclusive(i) ==
    /\ init[i] = "absent"
    /\ IF file = NoFile THEN file' = [of |-> i, written |-> "nothing"] /\ To(i, "created")
       ELSE UNCHANGED file /\ To(i, "failed")
    /\ UNCHANGED announced /\ DiskOnly

\* The writes, which may be short; then fsync.
WriteToken(i) ==
    /\ init[i] \in {"created", "writing"}
    /\ \/ file' = [file EXCEPT !.written = "part"] /\ To(i, "writing")
       \/ file' = [file EXCEPT !.written = "all"] /\ To(i, "written")
    /\ UNCHANGED announced /\ DiskOnly

Announce(i) ==
    /\ init[i] = "written"
    /\ To(i, "done") /\ announced' = announced \cup {i}
    /\ UNCHANGED file /\ DiskOnly

\* A write or the fsync fails: what this run created is removed again.
InitFails(i) ==
    /\ init[i] \in {"created", "writing", "written"}
    /\ To(i, "failed") /\ file' = NoFile
    /\ UNCHANGED announced /\ DiskOnly

Killed(i) ==
    /\ init[i] \notin {"done", "failed"}
    /\ To(i, "failed")
    /\ UNCHANGED <<file, announced>> /\ DiskOnly

-----------------------------------------------------------------------------
(* The backend: Authentication and SessionStore.                           *)

\* load_master_secret: only a whole token will do. A start drops every session.
Start ==
    /\ secret = "none" /\ file.written = "all"
    /\ secret' = file.of
    /\ sessions' = [t \in {} |-> 0]
    /\ UNCHANGED <<diskvars, now, resets, made, request, cookie, refused>>

Stop ==
    /\ secret # "none" /\ resets < MaxResets
    /\ secret' = "none" /\ resets' = resets + 1
    /\ request' = [r \in Requests |-> Idle]
    /\ UNCHANGED <<diskvars, now, made, sessions, cookie, refused>>

Tick ==
    /\ now < MaxNow /\ now' = now + 1
    /\ UNCHANGED <<diskvars, secret, resets, made, sessions, request, cookie, refused>>

SetBack ==
    /\ now > 0 /\ resets < MaxResets
    /\ now' = now - 1 /\ resets' = resets + 1
    /\ UNCHANGED <<diskvars, secret, made, sessions, request, cookie, refused>>

Busy(r, op, t) == request' = [request EXCEPT ![r] = [op |-> op, token |-> t, now |-> now]]
Done(r)        == request' = [request EXCEPT ![r] = Idle]
Serving        == UNCHANGED <<diskvars, secret, now, resets>>

\* A request comes in with the browser's cookie, and reads the clock. A sign-in
\* brings the master secret and revokes the cookie it replaces first.
Arrive(r, op) ==
    /\ secret # "none" /\ request[r] = Idle
    /\ op \in {"use", "logout"} => cookie # 0
    /\ Busy(r, op, cookie)
    /\ UNCHANGED <<made, sessions, cookie, refused>> /\ Serving

Without(ts) == [t \in DOMAIN sessions \ ts |-> sessions[t]]

\* _prune_locked, at the reading the caller took before it had the lock
Expired(at) == {t \in DOMAIN sessions : sessions[t] <= at}

\* Faulty variant of Lookup: an expired session is refused, not forgotten.
LookupLeaves(r) ==
    /\ request[r].op \in {"use", "logout"}
    /\ LET t == request[r].token
       IN IF t \in DOMAIN sessions \ Expired(request[r].now)
          THEN /\ request' = [request EXCEPT ![r].op = IF @ = "use" THEN "served" ELSE "revoke"]
               /\ UNCHANGED refused
          ELSE refused' = refused \cup {t} /\ Done(r)
    /\ UNCHANGED <<made, sessions, cookie>> /\ Serving

\* require_authentication, require_browser_session: lookup
Lookup(r) ==
    /\ request[r].op \in {"use", "logout"}
    /\ LET t == request[r].token
       IN /\ sessions' = Without(Expired(request[r].now))
          /\ IF t \in DOMAIN sessions'
             THEN /\ request' = [request EXCEPT ![r].op = IF @ = "use" THEN "served" ELSE "revoke"]
                  /\ UNCHANGED refused
             ELSE refused' = refused \cup {t} /\ Done(r)
    /\ UNCHANGED <<made, cookie>> /\ Serving

Serve(r) ==
    /\ request[r].op = "served" /\ Done(r)
    /\ UNCHANGED <<made, sessions, cookie, refused>> /\ Serving

\* delete_browser_session: revoke, and the cookie is dropped with the answer
Revoke(r) ==
    /\ request[r].op = "revoke" /\ Done(r)
    /\ sessions' = Without({request[r].token})
    /\ cookie' = IF cookie = request[r].token THEN 0 ELSE cookie
    /\ refused' = refused \cup {request[r].token}
    /\ UNCHANGED made /\ Serving

\* create_browser_session, create_session: revoke the old token, then create, under
\* two locks, with the clock read in between
Replace(r) ==
    /\ request[r].op = "signin"
    /\ sessions' = Without({request[r].token})
    /\ refused' = IF request[r].token = 0 THEN refused ELSE refused \cup {request[r].token}
    /\ Busy(r, "create", 0)
    /\ UNCHANGED <<made, cookie>> /\ Serving

Create(r) ==
    /\ request[r].op = "create" /\ made < MaxSessions
    /\ LET kept == Without(Expired(request[r].now))
       IN sessions' = [t \in DOMAIN kept \cup {made + 1} |->
                         IF t = made + 1 THEN request[r].now + Lifetime ELSE kept[t]]
    /\ made' = made + 1 /\ cookie' = made + 1 /\ Done(r)
    /\ UNCHANGED refused /\ Serving

Next ==
    \/ \E i \in Inits : CheckAbsent(i)
    \/ \E i \in Inits : OpenExclusive(i)
    \/ \E i \in Inits : WriteToken(i)
    \/ \E i \in Inits : Announce(i)
    \/ \E i \in Inits : InitFails(i)
    \/ \E i \in Inits : Killed(i)
    \/ Start \/ Stop \/ Tick \/ SetBack
    \/ \E r \in Requests, op \in {"use", "logout", "signin"} : Arrive(r, op)
    \/ \E r \in Requests : Lookup(r)
    \/ \E r \in Requests : Serve(r)
    \/ \E r \in Requests : Revoke(r)
    \/ \E r \in Requests : Replace(r)
    \/ \E r \in Requests : Create(r)

Spec == Init /\ [][Next]_vars

-----------------------------------------------------------------------------
(* Properties.                                                             *)

\* A token that init printed is the one on disk from then on, whole: no other run,
\* failed or not, replaces, truncates or removes it (O_EXCL, and removing only what
\* was created).
AnnouncedSecretStands ==
    \A i \in announced : file = [of |-> i, written |-> "all"]

\* A token once refused, revoked or replaced is never accepted again: not by a request
\* that read the clock earlier, not after the clock was set back, not after a restart
\* (lookup forgets what it refuses).
RefusedStaysRefused == [][
    \A r \in Requests :
        (request[r].op = "use" /\ request'[r].op = "served") => request[r].token \notin refused]_vars
=============================================================================
