---------------------------- MODULE PluginClient ----------------------------
(***************************************************************************)
(* The command line and the hooks of the memory plugin                     *)
(* (plugins/allenlim-memory-server/scripts): short-lived processes of one   *)
(* machine that share the files of ~/.memory.  lib.mjs keeps a renewable   *)
(* OAuth session and a service credential there, serialised by a lock file *)
(* that a process may find stale and remove; hook-runner.mjs keeps, for    *)
(* every transcript and destination, a checkpoint of what was ingested,    *)
(* behind a lock file of its own.                                          *)
(*                                                                         *)
(* A process runs one command and ends.  Between two of its steps any      *)
(* other process, the issuer, the memory server and the program that       *)
(* writes the transcript may move, and the process may die.                *)
(***************************************************************************)
EXTENDS Naturals, Sequences, FiniteSets

CONSTANTS
    Procs,          \* slots for the processes that run at a time
    Users,          \* the users that sign in
    NoUser,         \* no service credential, no identity
    MaxSessions,    \* bound: sessions the issuer grants
    MaxRotations,   \* bound: rotations of a session's refresh token
    MaxFaults,      \* bound: deaths and lost answers
    BatchSize,      \* messages of one ingest (100 in the code)
    Plans,          \* bounds, one plan a behaviour: how often each command is
                    \* started, the transcript changes and the token ages
    InFlight        \* is a transcript rewritten in place under a running hook?

Commands == {"call", "hook", "login", "logout", "set", "unset"}

\* The lock files have different names.
ASSUME ClientAssumption ==
    /\ Users # {} /\ NoUser \notin Users /\ "credentials" \notin Users \cup {NoUser}
    /\ "free" \notin Procs /\ "dead" \notin Procs
    /\ MaxSessions \in Nat \ {0} /\ MaxRotations \in Nat /\ MaxFaults \in Nat
    /\ BatchSize \in Nat \ {0} /\ InFlight \in BOOLEAN
    /\ Plans \subseteq [Commands \cup {"change", "age"} -> Nat]

VARIABLES
    proc,           \* the processes
    creds,          \* credentials.json
    service,        \* service-credential.json: the user it acts for
    locks,          \* the lock files
    issuer,         \* the issuer's sessions
    files,          \* the files the transcript's path has named
    points,         \* the checkpoint of each destination
    ingested,       \* rows the memory server accepted, with their destination
    plan,           \* what is left of the plan
    faults,         \* deaths and lost answers
    replayed,       \* was a rotated refresh token presented again?
    removed         \* the sessions a logout that had no lock took off the disk

vars == <<proc, creds, service, locks, issuer, files, points, ingested,
          plan, faults, replayed, removed>>
machine == <<creds, service>>
outside == <<issuer, replayed, removed>>
transcript == <<files, points, ingested>>

-----------------------------------------------------------------------------
(* The files.                                                              *)

NoCreds == [session |-> 0, gen |-> 0, age |-> "expired"]
Ages == {"fresh", "due", "expired"}

Owner(c) == issuer[c.session].user

\* A stored session carries a refresh token or only an access token.
Renewable(c) == c.session # 0 /\ c.gen # 0

\* What the next request is sent as, and what a checkpoint is kept for.
Identity ==
    CASE service # NoUser -> service
      [] service = NoUser /\ creds.session # 0
                          /\ (Renewable(creds) \/ creds.age # "expired") -> Owner(creds)
      [] OTHER -> NoUser

Destinations == Users \cup {NoUser}
LockNames == {"credentials"} \cup Destinations

Current == Len(files)
NoPoint == [file |-> 0, version |-> 0, offset |-> 0]

\* A checkpoint is of this very file when its identity, its length and the
\* anchor agree.  The anchor is a hash of the last 64 bytes before the offset
\* (hook-runner.mjs:42); the model takes it to tell one writing of the file
\* from the next.  A file that is written anew between two hooks and keeps
\* those bytes passes for the old one in the code, and not here.
Names(point, file) ==
    /\ point.file = file
    /\ point.offset <= Len(files[file].rows)
    /\ (point.offset > 0) => (point.version = files[file].version)

Idle == [pc |-> "idle", cmd |-> "none", lock |-> "credentials", seen |-> NoCreds,
         grant |-> NoCreds, as |-> NoUser, for |-> NoUser, file |-> 0, size |-> 0,
         from |-> 0, upto |-> 0, version |-> 0]

Init ==
    /\ proc = [p \in Procs |-> Idle]
    /\ issuer = [s \in 1..MaxSessions |->
                   [user |-> CHOOSE u \in Users : TRUE, gen |-> 1,
                    state |-> IF s = 1 THEN "live" ELSE "none"]]
    /\ creds = [session |-> 1, gen |-> 1, age |-> "fresh"]
    /\ service = NoUser
    /\ locks = [l \in LockNames |-> "free"]
    /\ files = << [version |-> 1, rows |-> <<"message">>] >>
    /\ points = [d \in Destinations |-> NoPoint]
    /\ ingested = {}
    /\ plan \in Plans
    /\ faults = 0
    /\ replayed = FALSE
    /\ removed = {}

\* Stored credentials: a session, or none at all.
Credentials == {c \in [session : 0..MaxSessions, gen : Nat, age : Ages] :
                  c.session = 0 => c.age = "expired"}

Processes ==
    [pc : {"idle", "auth", "wait", "steal", "held", "asking", "saving", "ready", "browser",
           "revoking", "clear", "read", "answered", "rename"},
     cmd : Commands \cup {"none"}, lock : LockNames, seen : Credentials, grant : Credentials,
     as : Destinations, for : Destinations, file : Nat, size : Nat, from : Nat, upto : Nat,
     version : Nat]

TypeOK ==
    /\ proc \in [Procs -> Processes]
    /\ creds \in Credentials /\ service \in Destinations
    /\ locks \in [LockNames -> Procs \cup {"free", "dead"}]
    /\ issuer \in [1..MaxSessions -> [user : Users, gen : Nat, state : {"none", "live", "revoked"}]]
    /\ files \in Seq([version : Nat, rows : Seq({"message", "noise"})]) /\ files # <<>>
    /\ points \in [Destinations -> [file : Nat, version : Nat, offset : Nat]]
    /\ plan \in [Commands \cup {"change", "age"} -> Nat]
    /\ faults \in 0..MaxFaults /\ replayed \in BOOLEAN /\ removed \subseteq 0..MaxSessions

At(p, pc) == proc[p].pc = pc

Goto(p, pc) == proc' = [proc EXCEPT ![p].pc = pc]

Quit(p) == proc' = [proc EXCEPT ![p] = Idle]

Ready(p, user) == proc' = [proc EXCEPT ![p].pc = "ready", ![p].as = user,
                                       ![p].seen = NoCreds, ![p].grant = NoCreds]

Uses(what) == plan[what] > 0 /\ plan' = [plan EXCEPT ![what] = @ - 1]

\* A command is started in a process of its own.
Start(p, cmd, first) ==
    /\ At(p, "idle")
    /\ Uses(cmd)
    /\ proc' = [proc EXCEPT ![p] = [first EXCEPT !.cmd = cmd]]

Fault == faults < MaxFaults /\ faults' = faults + 1

-----------------------------------------------------------------------------
(* The lock files: openSync(..., "wx"), and a lock older than any live     *)
(* holder keeps it is unlinked by whoever meets it -- in two steps.        *)

TakeLock(p) ==
    /\ At(p, "wait")
    /\ locks[proc[p].lock] = "free"
    /\ locks' = [locks EXCEPT ![proc[p].lock] = p]
    /\ Goto(p, "held")
    /\ UNCHANGED <<machine, outside, transcript, plan, faults>>

SeeStale(p) ==
    /\ At(p, "wait")
    /\ locks[proc[p].lock] = "dead"
    /\ Goto(p, "steal")
    /\ UNCHANGED <<machine, outside, transcript, locks, plan, faults>>

RemoveStale(p) ==
    /\ At(p, "steal")
    /\ locks' = [locks EXCEPT ![proc[p].lock] = "free"]
    /\ Goto(p, "wait")
    /\ UNCHANGED <<machine, outside, transcript, plan, faults>>

Free(l) == locks' = [locks EXCEPT ![l] = "free"]

\* The owner of the credential lock checks that the file is still its own;
\* the owner of a checkpoint lock does not.
Release(p) ==
    IF proc[p].lock = "credentials" /\ locks["credentials"] # p
      THEN UNCHANGED locks ELSE Free(proc[p].lock)

\* Without a refresh the request goes out with the access token the process
\* read, if that one has not expired yet, or not at all.
WithoutRefresh(p) ==
    \/ proc[p].seen.age = "due" /\ Ready(p, Owner(proc[p].seen))
    \/ Quit(p)

\* The deadline passes (the holder is alive, or the stale lock is never seen).
\* A logout goes on without the lock, and removes the credentials.
GiveUp(p) ==
    /\ At(p, "wait")
    /\ locks[proc[p].lock] # "free"
    /\ \/ proc[p].cmd \in {"call", "hook"} /\ proc[p].lock = "credentials" /\ WithoutRefresh(p)
       \/ proc[p].cmd = "logout" /\ Goto(p, "clear")
       \/ (proc[p].cmd \in {"login", "set", "unset"} \/ proc[p].lock # "credentials") /\ Quit(p)
    /\ UNCHANGED <<machine, outside, transcript, locks, plan, faults>>

\* A process that dies without a lock, or before it did anything, leaves nothing.
Crash(p) ==
    /\ At(p, "answered") \/ \E l \in LockNames : locks[l] = p
    /\ Fault
    /\ locks' = [l \in LockNames |-> IF locks[l] = p THEN "dead" ELSE locks[l]]
    /\ Quit(p)
    /\ UNCHANGED <<machine, outside, transcript, plan>>

-----------------------------------------------------------------------------
(* Headers of a request: the service credential, else a fresh access       *)
(* token, else a refresh under the lock.                                   *)

\* A search, a tool call, a command or a message of the stdio bridge.
StartCall(p) ==
    /\ Start(p, "call", [Idle EXCEPT !.pc = "auth"])
    /\ UNCHANGED <<machine, outside, transcript, locks, faults>>

Authorized(p) ==
    /\ At(p, "auth")
    /\ \/ service # NoUser /\ Ready(p, service)
       \/ service = NoUser /\ creds.age = "fresh" /\ Ready(p, Owner(creds))
    /\ UNCHANGED <<machine, outside, transcript, locks, plan, faults>>

NeedsRefresh(p) ==
    /\ At(p, "auth")
    /\ service = NoUser /\ Renewable(creds) /\ creds.age # "fresh"
    /\ proc' = [proc EXCEPT ![p].pc = "wait", ![p].lock = "credentials", ![p].seen = creds]
    /\ UNCHANGED <<machine, outside, transcript, locks, plan, faults>>

Unauthenticated(p) ==
    /\ At(p, "auth")
    /\ service = NoUser /\ ~Renewable(creds) /\ creds.age # "fresh"
    /\ Quit(p)
    /\ UNCHANGED <<machine, outside, transcript, locks, plan, faults>>

SameSession(c, d) == Renewable(c) /\ Renewable(d) /\ Owner(c) = Owner(d)

\* Mutant: the lock is taken, the credentials are not read again.
LatestMutant(p) ==
    /\ At(p, "held")
    /\ proc[p].lock = "credentials" /\ proc[p].cmd \in {"call", "hook"}
    /\ proc' = [proc EXCEPT ![p].pc = "asking", ![p].grant = proc[p].seen]
    /\ UNCHANGED <<machine, outside, transcript, locks, plan, faults>>

\* Under the lock the credentials are read again.
Latest(p) ==
    /\ At(p, "held")
    /\ proc[p].lock = "credentials" /\ proc[p].cmd \in {"call", "hook"}
    /\ \/ ~SameSession(proc[p].seen, creds) /\ WithoutRefresh(p) /\ Release(p)
       \/ /\ SameSession(proc[p].seen, creds) /\ creds.age = "fresh"
          /\ Ready(p, Owner(creds)) /\ Release(p)
       \/ /\ SameSession(proc[p].seen, creds) /\ creds.age # "fresh"
          /\ proc' = [proc EXCEPT ![p].pc = "asking", ![p].grant = creds]
          /\ UNCHANGED locks
    /\ UNCHANGED <<machine, outside, transcript, plan, faults>>

Presented(p) == issuer[proc[p].grant.session]

\* The issuer rotates the newest token of a live session ...
Rotate(p) ==
    /\ At(p, "asking")
    /\ Presented(p).state = "live" /\ Presented(p).gen = proc[p].grant.gen
    /\ Presented(p).gen < MaxRotations
    /\ issuer' = [issuer EXCEPT ![proc[p].grant.session].gen = @ + 1]
    /\ proc' = [proc EXCEPT ![p].pc = "saving", ![p].grant.gen = @ + 1]
    /\ UNCHANGED <<machine, transcript, locks, plan, faults, replayed, removed>>

\* ... and ends a session whose older token is presented again.
Refuse(p) ==
    /\ At(p, "asking")
    /\ \/ Presented(p).state = "revoked"
       \/ Presented(p).gen # proc[p].grant.gen
    /\ issuer' = [issuer EXCEPT ![proc[p].grant.session].state = "revoked"]
    /\ replayed' = (replayed \/ Presented(p).gen # proc[p].grant.gen)
    /\ WithoutRefresh(p) /\ Release(p)
    /\ UNCHANGED <<machine, transcript, plan, faults, removed>>

\* No usable answer within the request's timeout; the rotation may be done.
RefreshLost(p) ==
    /\ At(p, "asking")
    /\ Fault
    /\ \/ UNCHANGED issuer
       \/ /\ Presented(p).gen = proc[p].grant.gen /\ Presented(p).gen < MaxRotations
          /\ issuer' = [issuer EXCEPT ![proc[p].grant.session].gen = @ + 1]
    /\ WithoutRefresh(p) /\ Release(p)
    /\ UNCHANGED <<machine, transcript, plan, replayed, removed>>

\* Mutant: the new access token is stored with the old refresh token.
SaveRefreshedMutant(p) ==
    /\ At(p, "saving")
    /\ creds' = [proc[p].grant EXCEPT !.age = "fresh", !.gen = @ - 1]
    /\ Ready(p, Owner(proc[p].grant)) /\ Release(p)
    /\ UNCHANGED <<service, outside, transcript, plan, faults>>

SaveRefreshed(p) ==
    /\ At(p, "saving")
    /\ creds' = [proc[p].grant EXCEPT !.age = "fresh"]
    /\ Ready(p, Owner(proc[p].grant)) /\ Release(p)
    /\ UNCHANGED <<service, outside, transcript, plan, faults>>

Done(p) ==
    /\ At(p, "ready") /\ proc[p].cmd = "call"
    /\ Quit(p)
    /\ UNCHANGED <<machine, outside, transcript, locks, plan, faults>>

-----------------------------------------------------------------------------
(* login, logout, auth set and auth unset.                                 *)

StartLogin(p) ==
    /\ Start(p, "login", [Idle EXCEPT !.pc = "browser"])
    /\ UNCHANGED <<machine, outside, transcript, locks, faults>>

\* The loopback callback brings the code and the code is exchanged; a token
\* that is piped in may come without a refresh token (generation 0).
Exchange(p) ==
    /\ At(p, "browser")
    /\ \E s \in 1..MaxSessions, u \in Users, gen \in {0, 1} :
         /\ issuer[s].state = "none"
         /\ \A t \in 1..(s - 1) : issuer[t].state # "none"
         /\ issuer' = [issuer EXCEPT ![s] = [user |-> u, gen |-> 1, state |-> "live"]]
         /\ proc' = [proc EXCEPT ![p].pc = "wait",
                                 ![p].grant = [session |-> s, gen |-> gen, age |-> "fresh"]]
    /\ UNCHANGED <<machine, transcript, locks, plan, faults, replayed, removed>>

SignInFails(p) ==
    /\ At(p, "browser")
    /\ Quit(p)
    /\ UNCHANGED <<machine, outside, transcript, locks, plan, faults>>

SaveLogin(p) ==
    /\ At(p, "held") /\ proc[p].cmd = "login"
    /\ creds' = proc[p].grant
    /\ Quit(p) /\ Release(p)
    /\ UNCHANGED <<service, outside, transcript, plan, faults>>

StartLogout(p) ==
    /\ Start(p, "logout", [Idle EXCEPT !.pc = IF creds.session = 0 THEN "clear" ELSE "wait"])
    /\ UNCHANGED <<machine, outside, transcript, locks, faults>>

LogoutHeld(p) ==
    /\ At(p, "held") /\ proc[p].cmd = "logout"
    /\ proc' = [proc EXCEPT ![p].pc = IF Renewable(creds) THEN "revoking" ELSE "clear",
                            ![p].grant = creds]
    /\ UNCHANGED <<machine, outside, transcript, locks, plan, faults>>

Revoke(p) ==
    /\ At(p, "revoking")
    /\ issuer' = [issuer EXCEPT ![proc[p].grant.session].state = "revoked"]
    /\ Goto(p, "clear")
    /\ UNCHANGED <<machine, transcript, locks, plan, faults, replayed, removed>>

RevokeLost(p) ==
    /\ At(p, "revoking")
    /\ Fault
    /\ Goto(p, "clear")
    /\ UNCHANGED <<machine, outside, transcript, locks, plan>>

\* Whatever happened before, the credentials go; the service credential is next.
Clear(p) ==
    /\ At(p, "clear")
    /\ creds' = NoCreds
    /\ IF locks["credentials"] = p
         THEN Free("credentials") /\ UNCHANGED removed
         ELSE UNCHANGED locks /\ removed' = removed \cup {creds.session}
    /\ proc' = [proc EXCEPT ![p] = [Idle EXCEPT !.pc = "wait", !.cmd = "unset"]]
    /\ UNCHANGED <<service, issuer, replayed, transcript, plan, faults>>

StartAuth(p) ==
    /\ \E cmd \in {"set", "unset"} : Start(p, cmd, [Idle EXCEPT !.pc = "wait"])
    /\ UNCHANGED <<machine, outside, transcript, locks, faults>>

SaveService(p) ==
    /\ At(p, "held") /\ proc[p].cmd = "set"
    /\ service' \in Users
    /\ Quit(p) /\ Release(p)
    /\ UNCHANGED <<creds, outside, transcript, plan, faults>>

ClearService(p) ==
    /\ At(p, "held") /\ proc[p].cmd = "unset"
    /\ service' = NoUser
    /\ Quit(p) /\ Release(p)
    /\ UNCHANGED <<creds, outside, transcript, plan, faults>>

-----------------------------------------------------------------------------
(* The post-turn hook: the rows after the checkpoint are ingested in       *)
(* batches, and the checkpoint follows each accepted batch.                *)

Rows(f) == files[f].rows

Messages(f, from, upto) == {i \in (from + 1)..upto : Rows(f)[i] = "message"}

\* The destination is fixed when the hook starts; the rows are those the file
\* has then.  A tail that is no complete row yet is no row of the model.
StartHook(p) ==
    /\ LET point == points[Identity]
           from  == IF Names(point, Current) THEN point.offset ELSE 0
       IN Start(p, "hook", [Idle EXCEPT !.pc = "read", !.for = Identity, !.file = Current,
                                        !.size = Len(Rows(Current)), !.from = from])
    /\ UNCHANGED <<machine, outside, transcript, locks, faults>>

\* Rows that carry no message (malformed, oversized, tool output) go along.
Batch(p) ==
    LET h    == proc[p]
        last == IF h.size < Len(Rows(h.file)) THEN h.size ELSE Len(Rows(h.file))
        fits == {k \in h.from..last : Cardinality(Messages(h.file, h.from, k)) <= BatchSize}
    IN IF last < h.from THEN h.from ELSE CHOOSE k \in fits : \A j \in fits : j <= k

Read(p) ==
    /\ At(p, "read")
    /\ LET h    == proc[p]
           upto == Batch(p)
           next == [h EXCEPT !.upto = upto, !.version = files[h.file].version]
       IN \/ upto = h.from /\ Quit(p)
          \/ /\ upto > h.from /\ Messages(h.file, h.from, upto) # {}
             /\ proc' = [proc EXCEPT ![p] = [next EXCEPT !.pc = "auth"]]
          \/ /\ upto > h.from /\ Messages(h.file, h.from, upto) = {}
             /\ proc' = [proc EXCEPT ![p] = [next EXCEPT !.pc = "wait", !.lock = h.for]]
    /\ UNCHANGED <<machine, outside, transcript, locks, plan, faults>>

Sent(p) == {<<proc[p].as, proc[p].file, proc[p].version, i>> : i \in (proc[p].from + 1)..proc[p].upto}

Ingest(p) ==
    /\ At(p, "ready") /\ proc[p].cmd = "hook"
    /\ ingested' = ingested \cup Sent(p)
    /\ Goto(p, "answered")
    /\ UNCHANGED <<machine, outside, files, points, locks, plan, faults>>

\* The request fails, before or after the server has taken it: the hook ends.
IngestLost(p) ==
    /\ At(p, "ready") /\ proc[p].cmd = "hook"
    /\ Fault
    /\ ingested' \in {ingested, ingested \cup Sent(p)}
    /\ Quit(p)
    /\ UNCHANGED <<machine, outside, files, points, locks, plan>>

\* The anchor is read from the file as it is now.
Anchor(p) ==
    /\ At(p, "answered")
    /\ IF Len(Rows(proc[p].file)) < proc[p].upto THEN Quit(p)
       ELSE proc' = [proc EXCEPT ![p].pc = "wait", ![p].lock = proc[p].for, ![p].as = NoUser,
                                 ![p].version = files[proc[p].file].version]
    /\ UNCHANGED <<machine, outside, transcript, locks, plan, faults>>

\* Mutant: the checkpoint takes the size of the file, not what was ingested.
ValueMutant(p) == [file |-> proc[p].file, version |-> proc[p].version, offset |-> proc[p].size]

Value(p) == [file |-> proc[p].file, version |-> proc[p].version, offset |-> proc[p].upto]

\* The path still names the file, and the bytes before the offset are the same.
StillCurrent(point) == point.file = Current /\ Names(point, point.file)

MoveOn(p) ==
    /\ proc' = [proc EXCEPT ![p].pc = "read", ![p].from = proc[p].upto,
                            ![p].lock = "credentials", ![p].version = 0]
    /\ Release(p)

\* Mutant: the checkpoint on disk is not looked at before it is replaced.
NewerMutant(p) == FALSE

Newer(p) ==
    /\ points[proc[p].for].file = proc[p].file
    /\ points[proc[p].for].offset >= proc[p].upto
    /\ StillCurrent(points[proc[p].for])

Decide(p) ==
    /\ At(p, "held") /\ proc[p].lock # "credentials"
    /\ \/ StillCurrent(Value(p)) /\ ~Newer(p) /\ Goto(p, "rename") /\ UNCHANGED locks
       \/ (~StillCurrent(Value(p)) \/ Newer(p)) /\ MoveOn(p)
    /\ UNCHANGED <<machine, outside, transcript, plan, faults>>

Rename(p) ==
    /\ At(p, "rename")
    /\ points' = IF StillCurrent(Value(p))
                   THEN [points EXCEPT ![proc[p].for] = Value(p)] ELSE points
    /\ MoveOn(p)
    /\ UNCHANGED <<machine, outside, files, ingested, plan, faults>>

-----------------------------------------------------------------------------
(* The surroundings.                                                       *)

\* The stored access token comes within five minutes of its end, and to it.
Age ==
    /\ creds.session # 0 /\ creds.age # "expired"
    /\ Uses("age")
    /\ creds' = [creds EXCEPT !.age = IF @ = "fresh" THEN "due" ELSE "expired"]
    /\ UNCHANGED <<proc, service, outside, transcript, locks, faults>>

Grow ==
    /\ Uses("change")
    /\ \E kind \in {"message", "noise"} :
         files' = [files EXCEPT ![Current].rows = Append(@, kind)]
    /\ UNCHANGED <<proc, machine, outside, points, ingested, locks, faults>>

\* The path names another file ...
Replace ==
    /\ Uses("change")
    /\ files' = Append(files, [version |-> 1, rows |-> <<"message">>])
    /\ UNCHANGED <<proc, machine, outside, points, ingested, locks, faults>>

\* ... or the same file is truncated and written again.
Rewrite ==
    /\ Uses("change")
    /\ InFlight \/ \A p \in Procs : proc[p].cmd # "hook"
    /\ \E rows \in {<<"message">>, <<"message", "message">>} :
         files' = [files EXCEPT ![Current] = [version |-> @.version + 1, rows |-> rows]]
    /\ UNCHANGED <<proc, machine, outside, points, ingested, locks, faults>>

Step(p) ==
    \/ TakeLock(p) \/ SeeStale(p) \/ RemoveStale(p) \/ GiveUp(p) \/ Crash(p)
    \/ StartCall(p) \/ Authorized(p) \/ NeedsRefresh(p) \/ Unauthenticated(p)
    \/ Latest(p) \/ Rotate(p) \/ Refuse(p) \/ RefreshLost(p) \/ SaveRefreshed(p) \/ Done(p)
    \/ StartLogin(p) \/ Exchange(p) \/ SignInFails(p) \/ SaveLogin(p)
    \/ StartLogout(p) \/ LogoutHeld(p) \/ Revoke(p) \/ RevokeLost(p) \/ Clear(p)
    \/ StartAuth(p) \/ SaveService(p) \/ ClearService(p)
    \/ StartHook(p) \/ Read(p) \/ Ingest(p) \/ IngestLost(p) \/ Anchor(p)
    \/ Decide(p) \/ Rename(p)

Next ==
    \/ \E p \in Procs : Step(p)
    \/ Age \/ Grow \/ Replace \/ Rewrite

Spec == Init /\ [][Next]_vars

-----------------------------------------------------------------------------

\* A refresh token is presented a second time -- which makes the issuer end
\* the session -- only after a process died or an answer was lost: two hooks
\* that find the token due at once do not cost the user the sign-in
\* (performTokenRefresh reads the credentials again under the lock).
PresentedOnce == replayed => faults > 0

\* Unless a process died and its lock was broken, a refresh writes only a
\* session that is live at the issuer, and what it finds on the disk is that
\* session or, in one case, nothing: a logout that waited for the lock in vain
\* removed the credentials under the refresh and revoked nothing
\* (lib.mjs:464-469), and the refresh brings them back.  It never replaces the
\* credentials of a sign-in, nor undoes a logout that had the lock.
RefreshReplacesItsOwn ==
    [][(creds' # creds /\ creds'.gen > 1 /\ creds'.age = "fresh") =>
         \/ faults > 0
         \/ /\ \/ creds.session = creds'.session
               \/ creds.session = 0 /\ creds'.session \in removed
            /\ issuer[creds'.session].state = "live"]_vars

\* Every message before the checkpoint of the transcript as it stands was
\* accepted by the memory server, for one destination or another: a failed,
\* overtaken or repeated hook skips no row, as long as the file is not rewritten
\* under a running hook and the anchor tells its versions apart (see Names).
NothingSkipped ==
    \A d \in Destinations :
      Names(points[d], Current) =>
        \A i \in Messages(Current, 0, points[d].offset) :
          \E e \in Destinations : <<e, Current, files[Current].version, i>> \in ingested

\* A hook that ends late does not move a checkpoint that still holds
\* backwards, unless a process died and its lock was broken.
NeverBackward ==
    [][\A d \in Destinations :
         points'[d] # points[d] /\ StillCurrent(points[d]) =>
           \/ faults > 0
           \/ points'[d].offset > points[d].offset]_vars

=============================================================================
