--------------------------- MODULE PluginClientProofs ---------------------------
(* Proofs about the files that the processes of the plugin share, for any      *)
(* processes, users, sessions and plans: as long as nobody dies and no answer  *)
(* is lost, a one-time token is used once and late writes undo nothing; and in *)
(* any case no message of a transcript is skipped.                             *)
EXTENDS PluginClient, FiniteSetTheorems, WellFoundedInduction, TLAPS

(* Where a process may stand, by what it runs, the lock it asks for and the *)
(* session it has in its hands.                                             *)
PlaceSound(r) ==
  /\ r.pc = "idle" => r = Idle
  /\ r.pc = "browser" => r.cmd = "login"
  /\ r.pc \in {"revoking", "clear"} => r.cmd = "logout"
  /\ r.pc \in {"auth", "asking", "saving", "ready"} => r.cmd \in {"call", "hook"}
  /\ r.pc \in {"read", "answered", "rename"} => r.cmd = "hook"
  /\ r.pc = "rename" => r.lock = r.for
  /\ r.lock # "credentials" =>
       r.cmd = "hook" /\ r.lock = r.for /\ r.pc \in {"wait", "steal", "held", "rename"}
  /\ r.pc \in {"asking", "saving", "revoking"} => Renewable(r.grant)
  /\ r.cmd = "login" /\ r.pc \in {"wait", "steal", "held"} =>
       r.grant.session # 0 /\ r.grant.gen \in {0, 1}

PlacesSound == \A p \in Procs : PlaceSound(proc[p])

------------------------------------------------------------------------------
(* The rows of the processes. *)
Row(p, r) == proc' = [proc EXCEPT ![p] = r]

LEMMA Changed ==
  ASSUME TypeOK, NEW p \in Procs, NEW r \in Processes, Row(p, r)
  PROVE  /\ proc' \in [Procs -> Processes]
         /\ proc'[p] = r
         /\ \A q \in Procs \ {p} : proc'[q] = proc[q]
BY DEF TypeOK, Row

LEMMA Names0 ==
  /\ "credentials" \in LockNames /\ Destinations \subseteq LockNames /\ "credentials" \notin Destinations
  /\ NoUser \in Destinations /\ Users \subseteq Destinations
BY ClientAssumption DEF LockNames, Destinations

LEMMA Nobody == NoCreds \in Credentials
BY ClientAssumption DEF NoCreds, Credentials, Ages

LEMMA IdleRow == Idle \in Processes /\ PlaceSound(Idle)
BY Names0, Nobody DEF Idle, Processes, Commands, PlaceSound

LEMMA RowOf == ASSUME TypeOK, NEW p \in Procs PROVE proc[p] \in Processes
BY DEF TypeOK

LEMMA GotoRow ==
  ASSUME TypeOK, NEW p \in Procs, NEW pc, Goto(p, pc)
  PROVE  Row(p, [proc[p] EXCEPT !.pc = pc])
BY RowOf DEF TypeOK, Goto, Row

LEMMA QuitRow == ASSUME NEW p \in Procs, Quit(p) PROVE Row(p, Idle)
BY DEF Quit, Row

LEMMA ReadyRow ==
  ASSUME TypeOK, NEW p \in Procs, NEW user, Ready(p, user)
  PROVE  Row(p, [proc[p] EXCEPT !.pc = "ready", !.as = user, !.seen = NoCreds, !.grant = NoCreds])
BY RowOf DEF TypeOK, Ready, Row, Processes

LEMMA MoveOnRow ==
  ASSUME TypeOK, NEW p \in Procs, MoveOn(p)
  PROVE  Row(p, [proc[p] EXCEPT !.pc = "read", !.from = proc[p].upto, !.lock = "credentials", !.version = 0])
BY RowOf DEF TypeOK, MoveOn, Row, Processes

(* A step of a process gives it a row of its own. *)
Moved(p) == \E r \in Processes : PlaceSound(r) /\ Row(p, r)

LEMMA OwnerType ==
  ASSUME TypeOK, NEW c \in Credentials, c.age # "expired" \/ c.session # 0
  PROVE  Owner(c) \in Users /\ c.session \in 1..MaxSessions
BY SMTT(30), ClientAssumption DEF TypeOK, Credentials, Owner

LEMMA IdentityType == TypeOK => Identity \in Destinations
<1> SUFFICES ASSUME TypeOK PROVE Identity \in Destinations
  OBVIOUS
<1>1. creds \in Credentials /\ service \in Destinations
  BY DEF TypeOK
<1>2. CASE service # NoUser
  BY <1>1, <1>2 DEF Identity
<1>3. CASE service = NoUser /\ creds.session # 0 /\ (Renewable(creds) \/ creds.age # "expired")
  <2>1. Owner(creds) \in Users
    BY <1>1, <1>3, ClientAssumption DEF TypeOK, Credentials, Owner
  <2> QED BY <1>3, <2>1, Names0 DEF Identity
<1>4. CASE service = NoUser /\ ~ (creds.session # 0 /\ (Renewable(creds) \/ creds.age # "expired"))
  BY <1>4, Names0 DEF Identity
<1> QED BY <1>2, <1>3, <1>4

LEMMA GotoMoves ==
  ASSUME TypeOK, NEW p \in Procs, NEW pc, Goto(p, pc),
         [proc[p] EXCEPT !.pc = pc] \in Processes, PlaceSound([proc[p] EXCEPT !.pc = pc])
  PROVE  Moved(p)
BY GotoRow DEF Moved

LEMMA QuitMoves == ASSUME TypeOK, NEW p \in Procs, Quit(p) PROVE Moved(p)
BY QuitRow, IdleRow DEF Moved

LEMMA ReadyMoves ==
  ASSUME TypeOK, NEW p \in Procs, NEW user \in Destinations, Ready(p, user),
         proc[p].cmd \in {"call", "hook"}, proc[p].lock = "credentials"
  PROVE  Moved(p)
<1> DEFINE r == [proc[p] EXCEPT !.pc = "ready", !.as = user, !.seen = NoCreds, !.grant = NoCreds]
<1>1. Row(p, r)
  BY ReadyRow
<1>2. r \in Processes /\ PlaceSound(r)
  BY ZenonT(60), RowOf, Nobody DEF Processes, PlaceSound
<1> QED BY <1>1, <1>2 DEF Moved

LEMMA UnrefreshedMoves ==
  ASSUME TypeOK, NEW p \in Procs, WithoutRefresh(p),
         proc[p].cmd \in {"call", "hook"}, proc[p].lock = "credentials"
  PROVE  Moved(p)
<1>1. CASE proc[p].seen.age = "due" /\ Ready(p, Owner(proc[p].seen))
  <2>1. Owner(proc[p].seen) \in Destinations
    BY <1>1, RowOf, OwnerType, Names0 DEF Processes
  <2> QED BY <1>1, <2>1, ReadyMoves
<1>2. CASE Quit(p)
  BY <1>2, QuitMoves
<1> QED BY <1>1, <1>2 DEF WithoutRefresh

LEMMA MoveOnMoves ==
  ASSUME TypeOK, NEW p \in Procs, MoveOn(p), proc[p].cmd = "hook"
  PROVE  Moved(p)
<1> DEFINE r == [proc[p] EXCEPT !.pc = "read", !.from = proc[p].upto, !.lock = "credentials", !.version = 0]
<1>1. Row(p, r)
  BY MoveOnRow
<1>2. r \in Processes /\ PlaceSound(r)
  BY ZenonT(60), RowOf, Names0 DEF Processes, PlaceSound
<1> QED BY <1>1, <1>2 DEF Moved

(* The steps of the locks. *)
LEMMA LockMoves ==
  ASSUME TypeOK, NEW p \in Procs, PlaceSound(proc[p]),
         TakeLock(p) \/ SeeStale(p) \/ RemoveStale(p) \/ GiveUp(p) \/ Crash(p)
  PROVE  Moved(p)
<1> USE DEF At
<1>1. proc[p] \in Processes
  BY RowOf
<1>2. CASE TakeLock(p)
  BY <1>1, <1>2, GotoMoves DEF TakeLock, Processes, PlaceSound
<1>3. CASE SeeStale(p)
  BY <1>1, <1>3, GotoMoves DEF SeeStale, Processes, PlaceSound
<1>4. CASE RemoveStale(p)
  BY <1>1, <1>4, GotoMoves DEF RemoveStale, Processes, PlaceSound
<1>5. CASE GiveUp(p)
  <2>1. CASE proc[p].cmd \in {"call", "hook"} /\ proc[p].lock = "credentials" /\ WithoutRefresh(p)
    BY <2>1, UnrefreshedMoves
  <2>2. CASE proc[p].cmd = "logout" /\ Goto(p, "clear")
    BY <1>1, <1>5, <2>2, GotoMoves DEF GiveUp, Processes, PlaceSound
  <2>3. CASE Quit(p)
    BY <2>3, QuitMoves
  <2> QED BY <1>5, <2>1, <2>2, <2>3 DEF GiveUp
<1>6. CASE Crash(p)
  BY <1>6, QuitMoves DEF Crash
<1> QED BY <1>2, <1>3, <1>4, <1>5, <1>6

(* The steps of a request. *)
LEMMA CallMoves ==
  ASSUME TypeOK, NEW p \in Procs, PlaceSound(proc[p]),
         \/ StartCall(p) \/ Authorized(p) \/ NeedsRefresh(p) \/ Unauthenticated(p)
         \/ Latest(p) \/ Rotate(p) \/ Refuse(p) \/ RefreshLost(p) \/ SaveRefreshed(p) \/ Done(p)
  PROVE  Moved(p)
<1> USE DEF At
<1>1. proc[p] \in Processes /\ creds \in Credentials
  BY RowOf DEF TypeOK
<1>2. CASE StartCall(p)
  <2> DEFINE r == [[Idle EXCEPT !.pc = "auth"] EXCEPT !.cmd = "call"]
  <2>1. r \in Processes /\ PlaceSound(r)
    BY ZenonT(60), IdleRow DEF Processes, PlaceSound, Commands, Idle
  <2> QED BY <1>2, <2>1 DEF StartCall, Start, Moved, Row
<1>3. CASE Authorized(p)
  <2>1. proc[p].cmd \in {"call", "hook"} /\ proc[p].lock = "credentials"
    BY <1>3 DEF Authorized, PlaceSound
  <2>2. CASE Ready(p, service)
    BY <2>1, <2>2, ReadyMoves DEF TypeOK
  <2>3. CASE creds.age = "fresh" /\ Ready(p, Owner(creds))
    BY <1>1, <2>1, <2>3, OwnerType, ReadyMoves, Names0
  <2> QED BY <1>3, <2>2, <2>3 DEF Authorized
<1>4. CASE NeedsRefresh(p)
  <2> DEFINE r == [proc[p] EXCEPT !.pc = "wait", !.lock = "credentials", !.seen = creds]
  <2>1. r \in Processes /\ PlaceSound(r)
    BY <1>1, <1>4, Names0 DEF Processes, PlaceSound, NeedsRefresh
  <2>2. Row(p, r)
    BY <1>1, <1>4 DEF NeedsRefresh, Row, TypeOK, Processes
  <2> QED BY <2>1, <2>2 DEF Moved
<1>5. CASE Unauthenticated(p)
  BY <1>5, QuitMoves DEF Unauthenticated
<1>6. CASE Latest(p)
  <2>1. proc[p].cmd \in {"call", "hook"} /\ proc[p].lock = "credentials"
    BY <1>6 DEF Latest
  <2>2. CASE WithoutRefresh(p)
    BY <2>1, <2>2, UnrefreshedMoves
  <2>3. CASE creds.age = "fresh" /\ Ready(p, Owner(creds))
    BY <1>1, <2>1, <2>3, OwnerType, ReadyMoves, Names0
  <2>4. CASE SameSession(proc[p].seen, creds) /\ proc' = [proc EXCEPT ![p].pc = "asking", ![p].grant = creds]
    <3> DEFINE r == [proc[p] EXCEPT !.pc = "asking", !.grant = creds]
    <3>1. Renewable(creds)
      BY <2>4 DEF SameSession
    <3>2. r \in Processes /\ PlaceSound(r)
      BY <1>1, <2>1, <3>1 DEF Processes, PlaceSound
    <3>3. Row(p, r)
      BY <1>1, <2>4 DEF Row, TypeOK, Processes
    <3> QED BY <3>2, <3>3 DEF Moved
  <2> QED BY <1>6, <2>2, <2>3, <2>4 DEF Latest
<1>7. CASE Rotate(p)
  <2> DEFINE grant == [proc[p].grant EXCEPT !.gen = @ + 1]
             r == [proc[p] EXCEPT !.pc = "saving", !.grant = grant]
  <2>0. proc[p].grant \in Credentials /\ Renewable(proc[p].grant)
    BY <1>1, <1>7 DEF Processes, PlaceSound, Rotate
  <2>1. grant \in Credentials /\ Renewable(grant)
    BY <2>0 DEF Credentials, Renewable
  <2>2. r \in Processes /\ PlaceSound(r)
    BY <1>1, <1>7, <2>1 DEF Processes, PlaceSound, Rotate
  <2>3. Row(p, r)
    BY <1>1, <1>7 DEF Row, TypeOK, Processes, Credentials, Rotate
  <2> QED BY <2>2, <2>3 DEF Moved
<1>8. CASE Refuse(p) \/ RefreshLost(p)
  <2>1. WithoutRefresh(p) /\ proc[p].cmd \in {"call", "hook"} /\ proc[p].lock = "credentials"
    BY <1>8 DEF Refuse, RefreshLost, PlaceSound
  <2> QED BY <2>1, UnrefreshedMoves
<1>9. CASE SaveRefreshed(p)
  <2>1. proc[p].cmd \in {"call", "hook"} /\ proc[p].lock = "credentials" /\ Ready(p, Owner(proc[p].grant))
    BY <1>9 DEF SaveRefreshed, PlaceSound
  <2>2. Owner(proc[p].grant) \in Destinations
    BY <1>1, <1>9, OwnerType, Names0 DEF SaveRefreshed, PlaceSound, Renewable, Processes
  <2> QED BY <2>1, <2>2, ReadyMoves
<1>10. CASE Done(p)
  BY <1>10, QuitMoves DEF Done
<1> QED BY <1>2, <1>3, <1>4, <1>5, <1>6, <1>7, <1>8, <1>9, <1>10

(* The steps of sign-ins, sign-outs and the service credential. *)
LEMMA SignMoves ==
  ASSUME TypeOK, NEW p \in Procs, PlaceSound(proc[p]),
         \/ StartLogin(p) \/ Exchange(p) \/ SignInFails(p) \/ SaveLogin(p)
         \/ StartLogout(p) \/ LogoutHeld(p) \/ Revoke(p) \/ RevokeLost(p) \/ Clear(p)
         \/ StartAuth(p) \/ SaveService(p) \/ ClearService(p)
  PROVE  Moved(p)
<1> USE DEF At
<1>1. proc[p] \in Processes /\ creds \in Credentials
  BY RowOf DEF TypeOK
<1>2. ASSUME NEW cmd \in {"login", "logout", "set", "unset"}, NEW pc \in {"browser", "wait", "clear"},
             Start(p, cmd, [Idle EXCEPT !.pc = pc]),
             pc = "browser" <=> cmd = "login", pc = "clear" => cmd = "logout"
      PROVE  Moved(p)
  <2> DEFINE r == [[Idle EXCEPT !.pc = pc] EXCEPT !.cmd = cmd]
  <2>1. r \in Processes
    BY IdleRow DEF Processes, Commands
  <2>2. PlaceSound(r)
    BY <1>2 DEF PlaceSound, Idle
  <2> QED BY <1>2, <2>1, <2>2 DEF Start, Moved, Row
<1>3. CASE StartLogin(p)
  BY <1>2, <1>3 DEF StartLogin
<1>4. CASE Exchange(p)
  <2>1. PICK s \in 1..MaxSessions, gen \in {0, 1} :
             proc' = [proc EXCEPT ![p].pc = "wait",
                                  ![p].grant = [session |-> s, gen |-> gen, age |-> "fresh"]]
    BY <1>4 DEF Exchange
  <2> DEFINE grant == [session |-> s, gen |-> gen, age |-> "fresh"]
             r == [proc[p] EXCEPT !.pc = "wait", !.grant = grant]
  <2>2. grant \in Credentials /\ s # 0
    BY ClientAssumption DEF Credentials, Ages
  <2>3. r \in Processes /\ PlaceSound(r)
    BY <1>1, <1>4, <2>2 DEF Processes, PlaceSound, Exchange
  <2>4. Row(p, r)
    BY <1>1, <2>1 DEF Row, TypeOK, Processes
  <2> QED BY <2>3, <2>4 DEF Moved
<1>5. CASE SignInFails(p) \/ SaveLogin(p) \/ SaveService(p) \/ ClearService(p)
  BY <1>5, QuitMoves DEF SignInFails, SaveLogin, SaveService, ClearService
<1>6. CASE StartLogout(p)
  BY <1>2, <1>6 DEF StartLogout
<1>7. CASE LogoutHeld(p)
  <2> DEFINE pc == IF Renewable(creds) THEN "revoking" ELSE "clear"
             r == [proc[p] EXCEPT !.pc = pc, !.grant = creds]
  <2>1. r \in Processes /\ PlaceSound(r)
    BY <1>1, <1>7 DEF Processes, PlaceSound, LogoutHeld
  <2>2. Row(p, r)
    BY <1>1, <1>7 DEF Row, TypeOK, Processes, LogoutHeld
  <2> QED BY <2>1, <2>2 DEF Moved
<1>8. CASE Revoke(p) \/ RevokeLost(p)
  BY <1>1, <1>8, GotoMoves DEF Revoke, RevokeLost, Processes, PlaceSound
<1>9. CASE Clear(p)
  <2> DEFINE r == [Idle EXCEPT !.pc = "wait", !.cmd = "unset"]
  <2>1. r \in Processes /\ PlaceSound(r)
    BY ZenonT(60), IdleRow DEF Processes, PlaceSound, Commands, Idle
  <2>2. Row(p, r)
    BY <1>9 DEF Row, Clear
  <2> QED BY <2>1, <2>2 DEF Moved
<1>10. CASE StartAuth(p)
  BY <1>2, <1>10 DEF StartAuth
<1> QED BY <1>3, <1>4, <1>5, <1>6, <1>7, <1>8, <1>9, <1>10

------------------------------------------------------------------------------
(* The transcript. *)
FileType == [version : Nat, rows : Seq({"message", "noise"})]

LEMMA FilesType ==
  ASSUME TypeOK
  PROVE  /\ files \in Seq(FileType) /\ Current \in Nat \ {0} /\ Current \in DOMAIN files
         /\ \A f \in DOMAIN files : /\ f \in Nat \ {0} /\ files[f] \in FileType /\ files[f].version \in Nat
                                    /\ Rows(f) \in Seq({"message", "noise"}) /\ Len(Rows(f)) \in Nat
<1>1. files \in Seq(FileType) /\ files # <<>>
  BY DEF TypeOK, FileType
<1>2. Current \in Nat \ {0} /\ DOMAIN files = 1..Current
  BY <1>1 DEF Current
<1>3. ASSUME NEW f \in DOMAIN files
      PROVE  /\ f \in Nat \ {0} /\ files[f] \in FileType /\ files[f].version \in Nat
             /\ Rows(f) \in Seq({"message", "noise"}) /\ Len(Rows(f)) \in Nat
  <2>1. files[f] \in FileType
    BY <1>1
  <2>2. files[f].version \in Nat /\ Rows(f) \in Seq({"message", "noise"})
    BY <2>1 DEF FileType, Rows
  <2> QED BY <1>2, <2>1, <2>2
<1> QED BY <1>1, <1>2, <1>3

LEMMA Order ==
  \E R : IsWellFoundedOn(R, Nat) /\ \A x, y \in Nat : x < y => <<x, y>> \in R
<1>1. \A x, y \in Nat : x < y => <<x, y>> \in OpToRel(<, Nat)
  BY DEF OpToRel
<1> QED BY <1>1, NatLessThanWellFounded, Zenon

(* The greatest number of a bounded set. *)
LEMMA Largest ==
  ASSUME NEW N \in Nat, NEW T, T \subseteq 0..N, T # {}
  PROVE  \E x \in T : \A y \in T : y <= x
<1> DEFINE Gap(x) == N - x
           U == {Gap(x) : x \in T}
<1>1. PICK R : IsWellFoundedOn(R, Nat) /\ \A x, y \in Nat : x < y => <<x, y>> \in R
  BY Order
<1>2. IsWellFoundedOn(R, Nat)
  BY <1>1
<1>3. U \subseteq Nat /\ U # {}
  <2>1. \A x \in T : Gap(x) \in Nat
    OBVIOUS
  <2> QED BY <2>1
<1>4. \E x \in U : \A y \in U : ~ (<<y, x>> \in R)
  <2> HIDE DEF U
  <2> QED BY <1>2, <1>3, WFMin
<1>5. PICK x \in T : \A y \in U : ~ (<<y, Gap(x)>> \in R)
  BY <1>4
<1>6. \A y \in T : y <= x
  <2> TAKE y \in T
  <2>1. ~ (Gap(y) < Gap(x))
    BY <1>1, <1>3, <1>5
  <2> QED BY <2>1
<1> QED BY <1>6

(* The last row of the next batch. *)
LEMMA BatchBounds ==
  ASSUME TypeOK, NEW p \in Procs, proc[p].file \in DOMAIN files
  PROVE  /\ Batch(p) \in Nat /\ proc[p].from <= Batch(p)
         /\ proc[p].from <= Len(Rows(proc[p].file)) => Batch(p) <= Len(Rows(proc[p].file))
<1> DEFINE h == proc[p]
           rows == Len(Rows(h.file))
           last == IF h.size < rows THEN h.size ELSE rows
           fits == {k \in h.from..last : Cardinality(Messages(h.file, h.from, k)) <= BatchSize}
<1>1. h.from \in Nat /\ h.size \in Nat /\ rows \in Nat
  BY RowOf, FilesType DEF Processes
<1>2. last \in Nat /\ last <= rows
  BY <1>1
<1>3. Batch(p) = IF last < h.from THEN h.from ELSE CHOOSE k \in fits : \A j \in fits : j <= k
  BY DEF Batch
<1>4. CASE last < h.from
  BY <1>1, <1>2, <1>3, <1>4
<1>5. CASE ~ (last < h.from)
  <2>1. Messages(h.file, h.from, h.from) = {}
    BY <1>1 DEF Messages
  <2>2. h.from \in fits
    <3>1. Cardinality(Messages(h.file, h.from, h.from)) <= BatchSize
      BY <2>1, FS_EmptySet, ClientAssumption
    <3>2. h.from \in h.from..last
      BY <1>1, <1>2, <1>5
    <3> QED BY <3>1, <3>2
  <2>3. fits \subseteq 0..last /\ fits \subseteq h.from..last
    BY <1>1, <1>2
  <2> HIDE DEF fits
  <2>4. \E k \in fits : \A j \in fits : j <= k
    BY <1>2, <2>2, <2>3, Largest
  <2>5. Batch(p) \in fits
    BY <1>3, <1>5, <2>4
  <2>6. \A k \in h.from..last : k \in Nat /\ h.from <= k /\ k <= last
    BY <1>1, <1>2
  <2>7. Batch(p) \in Nat /\ h.from <= Batch(p) /\ Batch(p) <= last
    BY <2>3, <2>5, <2>6
  <2> QED BY <1>1, <1>2, <2>7
<1> QED BY <1>4, <1>5

(* The steps of a hook. *)
LEMMA HookMoves ==
  ASSUME TypeOK, NEW p \in Procs, PlaceSound(proc[p]), proc[p].cmd = "hook" => proc[p].file \in DOMAIN files,
         \/ StartHook(p) \/ Read(p) \/ Ingest(p) \/ IngestLost(p) \/ Anchor(p)
         \/ Decide(p) \/ Rename(p)
  PROVE  Moved(p)
<1> USE DEF At
<1>1. proc[p] \in Processes
  BY RowOf
<1>2. CASE StartHook(p)
  <2> DEFINE point == points[Identity]
             from == IF Names(point, Current) THEN point.offset ELSE 0
             r == [[Idle EXCEPT !.pc = "read", !.for = Identity, !.file = Current,
                                !.size = Len(Rows(Current)), !.from = from] EXCEPT !.cmd = "hook"]
  <2>1. from \in Nat /\ Identity \in Destinations /\ Current \in Nat /\ Len(Rows(Current)) \in Nat
    BY IdentityType, FilesType DEF TypeOK
  <2>2. r \in Processes
    BY <2>1, IdleRow DEF Processes, Commands
  <2>3. PlaceSound(r)
    BY DEF PlaceSound, Idle
  <2> QED BY <1>2, <2>2, <2>3 DEF StartHook, Start, Moved, Row
<1>3. CASE Read(p)
  <2> DEFINE h == proc[p]
             upto == Batch(p)
             next == [h EXCEPT !.upto = upto, !.version = files[h.file].version]
  <2>1. upto \in Nat /\ files[h.file].version \in Nat /\ h.cmd = "hook" /\ h.lock = "credentials"
    BY <1>3, BatchBounds, FilesType DEF Read, PlaceSound
  <2>2. CASE Quit(p)
    BY <2>2, QuitMoves
  <2>3. CASE proc' = [proc EXCEPT ![p] = [next EXCEPT !.pc = "auth"]]
    <3>1. [next EXCEPT !.pc = "auth"] \in Processes /\ PlaceSound([next EXCEPT !.pc = "auth"])
      BY <1>1, <2>1 DEF Processes, PlaceSound
    <3> QED BY <2>3, <3>1 DEF Moved, Row
  <2>4. CASE proc' = [proc EXCEPT ![p] = [next EXCEPT !.pc = "wait", !.lock = h.for]]
    <3>1. [next EXCEPT !.pc = "wait", !.lock = h.for] \in Processes
      BY <1>1, <2>1, Names0 DEF Processes
    <3>2. PlaceSound([next EXCEPT !.pc = "wait", !.lock = h.for])
      BY <1>1, <2>1 DEF Processes, PlaceSound
    <3> QED BY <2>4, <3>1, <3>2 DEF Moved, Row
  <2> QED BY <1>3, <2>2, <2>3, <2>4 DEF Read
<1>4. CASE Ingest(p)
  BY <1>1, <1>4, GotoMoves DEF Ingest, Processes, PlaceSound
<1>5. CASE IngestLost(p)
  BY <1>5, QuitMoves DEF IngestLost
<1>6. CASE Anchor(p)
  <2>1. CASE Quit(p)
    BY <2>1, QuitMoves
  <2>2. CASE proc' = [proc EXCEPT ![p].pc = "wait", ![p].lock = proc[p].for, ![p].as = NoUser,
                                  ![p].version = files[proc[p].file].version]
    <3> DEFINE r == [proc[p] EXCEPT !.pc = "wait", !.lock = proc[p].for, !.as = NoUser,
                                    !.version = files[proc[p].file].version]
    <3>1. files[proc[p].file].version \in Nat /\ proc[p].cmd = "hook"
      BY <1>6, FilesType DEF Anchor, PlaceSound
    <3>2. r \in Processes /\ PlaceSound(r)
      BY <1>1, <3>1, Names0 DEF Processes, PlaceSound
    <3>3. Row(p, r)
      BY <1>1, <2>2 DEF Row, TypeOK, Processes
    <3> QED BY <3>2, <3>3 DEF Moved
  <2> QED BY <1>6, <2>1, <2>2 DEF Anchor
<1>7. CASE Decide(p)
  <2>1. proc[p].cmd = "hook" /\ proc[p].lock = proc[p].for /\ proc[p].lock # "credentials"
    BY <1>7 DEF Decide, PlaceSound
  <2>2. CASE Goto(p, "rename")
    BY <1>1, <2>1, <2>2, GotoMoves DEF Processes, PlaceSound
  <2>3. CASE MoveOn(p)
    BY <2>1, <2>3, MoveOnMoves
  <2> QED BY <1>7, <2>2, <2>3 DEF Decide
<1>8. CASE Rename(p)
  BY <1>8, MoveOnMoves DEF Rename, PlaceSound
<1> QED BY <1>2, <1>3, <1>4, <1>5, <1>6, <1>7, <1>8

------------------------------------------------------------------------------
(* Types. *)
HookFiles == \A p \in Procs : proc[p].cmd = "hook" => proc[p].file \in DOMAIN files

SessionType == [user : Users, gen : Nat, state : {"none", "live", "revoked"}]

LEMMA SessionMoves ==
  ASSUME NEW row \in SessionType
  PROVE  [row EXCEPT !.gen = @ + 1] \in SessionType /\ [row EXCEPT !.state = "revoked"] \in SessionType
BY DEF SessionType

LocksType == locks' \in [LockNames -> Procs \cup {"free", "dead"}]
IssuerType == issuer' \in [1..MaxSessions -> SessionType]
PlanType == plan' \in [Commands \cup {"change", "age"} -> Nat]
PointsType == points' \in [Destinations -> [file : Nat, version : Nat, offset : Nat]]
FaultsType == faults' \in 0..MaxFaults

LEMMA StepMoves ==
  ASSUME TypeOK, NEW p \in Procs, PlaceSound(proc[p]), HookFiles, Step(p)
  PROVE  Moved(p)
BY LockMoves, CallMoves, SignMoves, HookMoves DEF Step, HookFiles

LEMMA ReleaseType ==
  ASSUME TypeOK, NEW p \in Procs, Release(p) PROVE LocksType
BY RowOf DEF TypeOK, Release, Free, LocksType, Processes

LEMMA FaultType == ASSUME TypeOK, Fault \/ UNCHANGED faults PROVE FaultsType
<1>1. faults \in 0..MaxFaults /\ MaxFaults \in Nat
  BY ClientAssumption DEF TypeOK
<1> QED BY <1>1 DEF Fault, FaultsType

LEMMA UsesType ==
  ASSUME TypeOK, NEW what \in Commands \cup {"change", "age"}, Uses(what) PROVE PlanType
BY DEF TypeOK, Uses, PlanType

LEMMA GrantType ==
  ASSUME TypeOK, NEW p \in Procs, PlaceSound(proc[p]),
         At(p, "asking") \/ At(p, "saving") \/ At(p, "revoking")
  PROVE  /\ proc[p].grant \in Credentials /\ Renewable(proc[p].grant)
         /\ proc[p].grant.session \in 1..MaxSessions
         /\ issuer[proc[p].grant.session] \in SessionType
<1>1. proc[p].grant \in Credentials /\ Renewable(proc[p].grant)
  BY RowOf DEF Processes, PlaceSound, At
<1>2. proc[p].grant.session \in 1..MaxSessions
  BY <1>1, ClientAssumption DEF Credentials, Renewable
<1> QED BY <1>1, <1>2 DEF TypeOK, SessionType

LEMMA LocksTyped ==
  ASSUME TypeOK, NEW p \in Procs, Step(p) PROVE LocksType
<1>1. CASE UNCHANGED locks
  BY <1>1 DEF TypeOK, LocksType
<1>2. CASE Release(p)
  BY <1>2, ReleaseType
<1>3. CASE TakeLock(p) \/ RemoveStale(p) \/ Crash(p) \/ Clear(p)
  <2>1. proc[p].lock \in LockNames /\ locks \in [LockNames -> Procs \cup {"free", "dead"}]
    BY RowOf DEF TypeOK, Processes
  <2>2. CASE TakeLock(p) \/ RemoveStale(p)
    BY <2>1, <2>2 DEF LocksType, TakeLock, RemoveStale
  <2>3. CASE Crash(p)
    BY <2>1, <2>3 DEF LocksType, Crash
  <2>4. CASE Clear(p)
    BY <2>1, <2>4, Names0 DEF LocksType, Clear, Free
  <2> QED BY <1>3, <2>2, <2>3, <2>4
<1>4. \/ UNCHANGED locks \/ Release(p)
      \/ TakeLock(p) \/ RemoveStale(p) \/ Crash(p) \/ Clear(p)
  BY DEF Step, SeeStale, GiveUp, StartCall, Authorized, NeedsRefresh, Unauthenticated, Latest, Rotate, Refuse,
         RefreshLost, SaveRefreshed, Done, StartLogin, Exchange, SignInFails, SaveLogin, StartLogout, LogoutHeld,
         Revoke, RevokeLost, StartAuth, SaveService, ClearService, StartHook, Read, Ingest, IngestLost, Anchor,
         Decide, Rename, MoveOn
<1> QED BY <1>1, <1>2, <1>3, <1>4

(* What a step of a process writes outside of its row and the locks. *)
LEMMA OthersTyped ==
  ASSUME TypeOK, NEW p \in Procs, PlaceSound(proc[p]), Step(p)
  PROVE  /\ creds' \in Credentials /\ service' \in Destinations /\ IssuerType /\ UNCHANGED files
         /\ PointsType /\ PlanType /\ FaultsType /\ replayed' \in BOOLEAN /\ removed' \subseteq 0..MaxSessions
<1> USE DEF machine, outside, transcript
<1>1. /\ creds \in Credentials /\ service \in Destinations /\ replayed \in BOOLEAN /\ removed \subseteq 0..MaxSessions
      /\ issuer \in [1..MaxSessions -> SessionType]
      /\ points \in [Destinations -> [file : Nat, version : Nat, offset : Nat]]
      /\ plan \in [Commands \cup {"change", "age"} -> Nat]
      /\ proc[p] \in Processes
  BY RowOf DEF TypeOK, SessionType
<1> USE <1>1 DEF PointsType, PlanType, IssuerType
<1>2. CASE \/ TakeLock(p) \/ SeeStale(p) \/ RemoveStale(p) \/ GiveUp(p) \/ Crash(p)
           \/ Authorized(p) \/ NeedsRefresh(p) \/ Unauthenticated(p) \/ Latest(p) \/ Done(p)
           \/ SignInFails(p) \/ LogoutHeld(p) \/ RevokeLost(p)
           \/ Read(p) \/ Ingest(p) \/ IngestLost(p) \/ Anchor(p) \/ Decide(p)
  BY <1>2, FaultType
     DEF TakeLock, SeeStale, RemoveStale, GiveUp, Crash, Authorized, NeedsRefresh, Unauthenticated, Latest, Done,
         SignInFails, LogoutHeld, RevokeLost, Read, Ingest, IngestLost, Anchor, Decide
<1>3. CASE StartCall(p) \/ StartLogin(p) \/ StartLogout(p) \/ StartAuth(p) \/ StartHook(p)
  <2>1. \E cmd \in Commands : Uses(cmd)
    BY <1>3 DEF StartCall, StartLogin, StartLogout, StartAuth, StartHook, Start, Commands
  <2>2. PlanType
    BY <2>1, UsesType
  <2> QED BY <1>3, <2>2, FaultType DEF StartCall, StartLogin, StartLogout, StartAuth, StartHook
<1>4. CASE Rotate(p) \/ Refuse(p) \/ RefreshLost(p) \/ Revoke(p)
  <2>1. proc[p].grant.session \in 1..MaxSessions
    BY <1>4, GrantType DEF Rotate, Refuse, RefreshLost, Revoke
  <2> DEFINE s == proc[p].grant.session
             AnIssuer == [1..MaxSessions -> SessionType]
  <2>2. [issuer EXCEPT ![s].gen = @ + 1] \in AnIssuer /\ [issuer EXCEPT ![s].state = "revoked"] \in AnIssuer
    <3>1. issuer[s] \in SessionType
      BY <2>1
    <3>2. /\ [issuer[s] EXCEPT !.gen = @ + 1] \in SessionType
          /\ [issuer[s] EXCEPT !.state = "revoked"] \in SessionType
      BY <3>1, SessionMoves
    <3>3. /\ [issuer EXCEPT ![s].gen = @ + 1] = [issuer EXCEPT ![s] = [issuer[s] EXCEPT !.gen = @ + 1]]
          /\ [issuer EXCEPT ![s].state = "revoked"] = [issuer EXCEPT ![s] = [issuer[s] EXCEPT !.state = "revoked"]]
      BY <2>1
    <3> QED BY <2>1, <3>2, <3>3
  <2>3. IssuerType
    <3> HIDE DEF AnIssuer
    <3>1. issuer' = [issuer EXCEPT ![s].gen = @ + 1] \/ issuer' = [issuer EXCEPT ![s].state = "revoked"] \/ issuer' = issuer
      BY <1>4 DEF Rotate, Refuse, RefreshLost, Revoke
    <3> QED BY <2>2, <3>1 DEF AnIssuer
  <2>4. /\ UNCHANGED <<creds, service, files, points, ingested, plan, removed>> /\ replayed' \in BOOLEAN
        /\ Fault \/ UNCHANGED faults
    BY <1>4 DEF Rotate, Refuse, RefreshLost, Revoke
  <2> QED BY <2>3, <2>4, FaultType
<1>5. CASE SaveRefreshed(p)
  <2>1. proc[p].grant \in Credentials /\ proc[p].grant.session # 0
    BY <1>5, GrantType DEF SaveRefreshed, Renewable
  <2>2. [proc[p].grant EXCEPT !.age = "fresh"] \in Credentials
    BY <2>1 DEF Credentials, Ages
  <2> QED BY <1>5, <2>2, FaultType DEF SaveRefreshed
<1>6. CASE Exchange(p)
  <2>1. IssuerType
    BY <1>6 DEF Exchange, SessionType
  <2> QED BY <1>6, <2>1, FaultType DEF Exchange
<1>7. CASE SaveLogin(p) \/ Clear(p) \/ SaveService(p) \/ ClearService(p)
  <2>1. removed' \subseteq 0..MaxSessions
    BY <1>7 DEF SaveLogin, Clear, SaveService, ClearService, Credentials
  <2> QED BY <1>7, <2>1, FaultType, Nobody, Names0 DEF SaveLogin, Clear, SaveService, ClearService, Processes
<1>8. CASE Rename(p)
  <2>1. Value(p) \in [file : Nat, version : Nat, offset : Nat] /\ proc[p].for \in Destinations
    BY DEF Value, Processes
  <2>2. PointsType
    BY <1>8, <2>1 DEF Rename
  <2> QED BY <1>8, <2>2, FaultType DEF Rename
<1> QED BY <1>2, <1>3, <1>4, <1>5, <1>6, <1>7, <1>8 DEF Step

(* The surroundings. *)
LEMMA SurroundingsTyped ==
  ASSUME TypeOK, Age \/ Grow \/ Replace \/ Rewrite
  PROVE  /\ creds' \in Credentials /\ files' \in Seq(FileType) /\ files' # <<>> /\ PlanType
         /\ UNCHANGED <<proc, service, locks, issuer, points, ingested, faults, replayed, removed>>
<1> USE DEF machine, outside, transcript
<1>1. files \in Seq(FileType) /\ files # <<>> /\ creds \in Credentials
  BY DEF TypeOK, FileType
<1>2. CASE Age
  <2>1. [creds EXCEPT !.age = IF @ = "fresh" THEN "due" ELSE "expired"] \in Credentials
    BY <1>1, <1>2 DEF Age, Credentials, Ages
  <2> QED BY <1>1, <1>2, <2>1, UsesType DEF Age
<1>3. CASE Grow
  <2>1. PICK kind \in {"message", "noise"} : files' = [files EXCEPT ![Current].rows = Append(@, kind)]
    BY <1>3 DEF Grow
  <2>2. files[Current] \in FileType /\ Current \in DOMAIN files
    BY FilesType
  <2> DEFINE grown == [files[Current] EXCEPT !.rows = Append(@, kind)]
  <2>3. Append(files[Current].rows, kind) \in Seq({"message", "noise"})
    BY <2>2 DEF FileType
  <2>4. grown \in FileType
    BY <2>2, <2>3 DEF FileType
  <2>5. files' = [files EXCEPT ![Current] = grown]
    BY <1>1, <2>1, <2>2 DEF FileType
  <2> HIDE DEF grown
  <2>6. files' \in Seq(FileType) /\ files' # <<>>
    BY <1>1, <2>2, <2>4, <2>5
  <2> QED BY <1>1, <1>3, <2>6, UsesType DEF Grow
<1>4. CASE Replace
  <2>1. [version |-> 1, rows |-> <<"message">>] \in FileType
    BY DEF FileType
  <2>2. files' \in Seq(FileType) /\ files' # <<>>
    BY <1>1, <1>4, <2>1 DEF Replace
  <2> QED BY <1>1, <1>4, <2>2, UsesType DEF Replace
<1>5. CASE Rewrite
  <2>1. PICK rows \in {<<"message">>, <<"message", "message">>} :
             files' = [files EXCEPT ![Current] = [version |-> @.version + 1, rows |-> rows]]
    BY <1>5 DEF Rewrite
  <2>2. files[Current].version \in Nat /\ Current \in DOMAIN files
    BY FilesType
  <2> DEFINE written == [version |-> files[Current].version + 1, rows |-> rows]
  <2>3. written \in FileType
    <3>1. <<"message">> \in Seq({"message", "noise"}) /\ <<"message", "message">> \in Seq({"message", "noise"})
      OBVIOUS
    <3>2. rows \in Seq({"message", "noise"})
      BY <3>1
    <3> QED BY <2>2, <3>2 DEF FileType
  <2>4. files' = [files EXCEPT ![Current] = written]
    BY <2>1
  <2> HIDE DEF written
  <2>5. files' \in Seq(FileType) /\ files' # <<>>
    BY <1>1, <2>2, <2>3, <2>4
  <2> QED BY <1>1, <1>5, <2>5, UsesType DEF Rewrite
<1> QED BY <1>2, <1>3, <1>4, <1>5

LEMMA InitTyped == Init => TypeOK /\ PlacesSound
<1> SUFFICES ASSUME Init PROVE TypeOK /\ PlacesSound
  OBVIOUS
<1>1. /\ proc \in [Procs -> Processes] /\ PlacesSound
  BY IdleRow DEF Init, PlacesSound
<1>2. (CHOOSE u \in Users : TRUE) \in Users
  BY ClientAssumption
<1>3. issuer \in [1..MaxSessions -> SessionType]
  BY <1>2 DEF Init, SessionType
<1>4. creds \in Credentials /\ service \in Destinations
  BY Names0, ClientAssumption DEF Init, Credentials, Ages
<1>5. files \in Seq(FileType) /\ files # <<>>
  BY DEF Init, FileType
<1>6. /\ points \in [Destinations -> [file : Nat, version : Nat, offset : Nat]]
      /\ locks \in [LockNames -> Procs \cup {"free", "dead"}]
  BY DEF Init, NoPoint
<1>7. plan \in [Commands \cup {"change", "age"} -> Nat]
  <2>1. plan \in Plans
    BY DEF Init
  <2>2. Plans \subseteq [Commands \cup {"change", "age"} -> Nat]
    BY ClientAssumption
  <2> QED BY <2>1, <2>2
<1>8. faults \in 0..MaxFaults /\ replayed \in BOOLEAN /\ removed \subseteq 0..MaxSessions
  <2>1. MaxFaults \in Nat
    BY ClientAssumption
  <2>2. faults \in 0..MaxFaults
    BY <2>1 DEF Init
  <2>3. replayed \in BOOLEAN /\ removed \subseteq 0..MaxSessions
    BY DEF Init
  <2> QED BY <2>2, <2>3
<1> QED BY <1>1, <1>3, <1>4, <1>5, <1>6, <1>7, <1>8 DEF TypeOK, FileType, SessionType

LEMMA TypeKeeps ==
  ASSUME TypeOK, PlacesSound, HookFiles, [Next]_vars
  PROVE  TypeOK' /\ PlacesSound'
<1>1. ASSUME NEW p \in Procs, Step(p) PROVE TypeOK' /\ PlacesSound'
  <2>1. PICK r \in Processes : PlaceSound(r) /\ Row(p, r)
    BY <1>1, StepMoves DEF PlacesSound, Moved
  <2>2. /\ proc' \in [Procs -> Processes] /\ proc'[p] = r
        /\ \A q \in Procs \ {p} : proc'[q] = proc[q]
    BY <2>1, Changed
  <2>3. PlacesSound'
    BY <2>1, <2>2 DEF PlacesSound
  <2>4. LocksType
    BY <1>1, LocksTyped
  <2>5. /\ creds' \in Credentials /\ service' \in Destinations /\ IssuerType /\ UNCHANGED files
        /\ PointsType /\ PlanType /\ FaultsType /\ replayed' \in BOOLEAN /\ removed' \subseteq 0..MaxSessions
    BY <1>1, OthersTyped DEF PlacesSound
  <2> QED BY <2>2, <2>3, <2>4, <2>5
          DEF TypeOK, LocksType, IssuerType, PointsType, PlanType, FaultsType, SessionType
<1>2. CASE Age \/ Grow \/ Replace \/ Rewrite
  <2>1. /\ creds' \in Credentials /\ files' \in Seq(FileType) /\ files' # <<>> /\ PlanType
        /\ UNCHANGED <<proc, service, locks, issuer, points, ingested, faults, replayed, removed>>
    BY <1>2, SurroundingsTyped
  <2>2. PlacesSound'
    BY <2>1 DEF PlacesSound
  <2> QED BY <2>1, <2>2 DEF TypeOK, PlanType, FileType
<1>3. CASE UNCHANGED vars
  BY <1>3 DEF vars, TypeOK, PlacesSound
<1> QED BY <1>1, <1>2, <1>3 DEF Next

------------------------------------------------------------------------------
(* What a step makes of the row of its process. *)
Starts(p) == At(p, "idle") /\ \E cmd \in Commands, first \in Processes :
  /\ proc' = [proc EXCEPT ![p] = [first EXCEPT !.cmd = cmd]]
  /\ first.grant = NoCreds /\ first.pc \in {"auth", "browser", "wait", "clear", "read"}
  /\ cmd = "login" => first.pc = "browser"

Asks(p) ==
  /\ At(p, "held") /\ proc[p].lock = "credentials" /\ proc[p].cmd \in {"call", "hook"}
  /\ proc' = [proc EXCEPT ![p].pc = "asking", ![p].grant = creds]

Reads(p) == At(p, "read") /\ \E r \in Processes :
  /\ proc' = [proc EXCEPT ![p] = r] /\ r.grant = proc[p].grant /\ r.cmd = proc[p].cmd /\ r.pc \in {"auth", "wait"}

Anchors(p) == At(p, "answered") /\
  proc' = [proc EXCEPT ![p].pc = "wait", ![p].lock = proc[p].for, ![p].as = NoUser,
                       ![p].version = files[proc[p].file].version]

LEMMA StartsAs ==
  ASSUME TypeOK, NEW p \in Procs, StartCall(p) \/ StartLogin(p) \/ StartLogout(p) \/ StartAuth(p) \/ StartHook(p)
  PROVE  Starts(p)
<1>1. ASSUME NEW cmd \in Commands, NEW pc \in {"auth", "browser", "wait", "clear"},
             Start(p, cmd, [Idle EXCEPT !.pc = pc]), cmd = "login" => pc = "browser"
      PROVE  Starts(p)
  <2>1. [Idle EXCEPT !.pc = pc] \in Processes
    BY IdleRow DEF Processes
  <2>2. [Idle EXCEPT !.pc = pc].grant = NoCreds /\ [Idle EXCEPT !.pc = pc].pc = pc
    BY DEF Idle
  <2> QED BY <1>1, <2>1, <2>2 DEF Starts, Start
<1>2. CASE StartHook(p)
  <2> DEFINE point == points[Identity]
             from == IF Names(point, Current) THEN point.offset ELSE 0
             first == [Idle EXCEPT !.pc = "read", !.for = Identity, !.file = Current,
                                   !.size = Len(Rows(Current)), !.from = from]
  <2>1. from \in Nat /\ Identity \in Destinations /\ Current \in Nat /\ Len(Rows(Current)) \in Nat
    BY IdentityType, FilesType DEF TypeOK
  <2>2. first \in Processes
    BY <2>1, IdleRow DEF Processes
  <2>3. first.grant = NoCreds /\ first.pc = "read"
    BY DEF Idle
  <2> QED BY <1>2, <2>2, <2>3 DEF StartHook, Start, Starts, Commands
<1> QED BY <1>1, <1>2 DEF StartCall, StartLogin, StartLogout, StartAuth, Commands

LEMMA ReadsAs ==
  ASSUME TypeOK, NEW p \in Procs, Read(p), proc[p].file \in DOMAIN files PROVE Reads(p) \/ Quit(p)
<1> DEFINE h == proc[p]
           next == [h EXCEPT !.upto = Batch(p), !.version = files[h.file].version]
<1>1. Batch(p) \in Nat /\ files[h.file].version \in Nat /\ h \in Processes
  BY BatchBounds, FilesType, RowOf
<1>2. [next EXCEPT !.pc = "auth"] \in Processes /\ [next EXCEPT !.pc = "wait", !.lock = h.for] \in Processes
  BY <1>1, Names0 DEF Processes
<1>3. /\ [next EXCEPT !.pc = "auth"].grant = h.grant /\ [next EXCEPT !.pc = "wait", !.lock = h.for].grant = h.grant
      /\ [next EXCEPT !.pc = "auth"].cmd = h.cmd /\ [next EXCEPT !.pc = "wait", !.lock = h.for].cmd = h.cmd
      /\ [next EXCEPT !.pc = "auth"].pc = "auth" /\ [next EXCEPT !.pc = "wait", !.lock = h.for].pc = "wait"
  BY <1>1 DEF Processes
<1> QED BY <1>2, <1>3 DEF Read, Reads

LEMMA RowsOfStep ==
  ASSUME TypeOK, NEW p \in Procs, HookFiles, PlaceSound(proc[p]), Step(p)
  PROVE  \/ TakeLock(p) \/ SeeStale(p) \/ RemoveStale(p) \/ (\E pc \in {"clear", "answered", "rename"} : Goto(p, pc))
         \/ Quit(p) \/ (\E user : Ready(p, user)) \/ MoveOn(p) \/ Starts(p)
         \/ NeedsRefresh(p) \/ Asks(p) \/ Rotate(p) \/ Exchange(p) \/ LogoutHeld(p) \/ Clear(p) \/ Reads(p)
         \/ Anchors(p)
<1>1. CASE \/ TakeLock(p) \/ SeeStale(p) \/ RemoveStale(p) \/ GiveUp(p) \/ Crash(p)
  BY <1>1 DEF TakeLock, SeeStale, RemoveStale, GiveUp, Crash, WithoutRefresh
<1>2. CASE StartCall(p) \/ StartLogin(p) \/ StartLogout(p) \/ StartAuth(p) \/ StartHook(p)
  BY <1>2, StartsAs
<1>3. CASE Authorized(p) \/ Unauthenticated(p) \/ Refuse(p) \/ RefreshLost(p) \/ SaveRefreshed(p) \/ Done(p)
  BY <1>3 DEF Authorized, Unauthenticated, Refuse, RefreshLost, SaveRefreshed, Done, WithoutRefresh
<1>4. CASE Latest(p)
  BY <1>4 DEF Latest, WithoutRefresh, Asks, At
<1>5. CASE \/ SignInFails(p) \/ SaveLogin(p) \/ Revoke(p) \/ RevokeLost(p) \/ SaveService(p) \/ ClearService(p)
  BY <1>5 DEF SignInFails, SaveLogin, Revoke, RevokeLost, SaveService, ClearService
<1>6. CASE Read(p)
  BY <1>6, ReadsAs DEF Read, At, PlaceSound, HookFiles
<1>7. CASE Ingest(p) \/ IngestLost(p) \/ Anchor(p) \/ Decide(p) \/ Rename(p)
  BY <1>7 DEF Ingest, IngestLost, Anchor, Anchors, Decide, Rename
<1> QED BY <1>1, <1>2, <1>3, <1>4, <1>5, <1>6, <1>7 DEF Step

------------------------------------------------------------------------------
(* The sessions: who holds which, and when one is new. *)
SessionsBorn ==
  /\ creds.session # 0 => issuer[creds.session].state # "none"
  /\ \A p \in Procs : proc[p].grant.session # 0 => issuer[proc[p].grant.session].state # "none"

SignedIn(p) == proc[p].cmd = "login" /\ proc[p].pc \in {"wait", "steal", "held"}

(* The session of a sign-in is nobody else's until it is stored. *)
OwnSession(p) ==
  LET s == proc[p].grant.session IN
  /\ s # creds.session
  /\ \A q \in Procs \ {p} : proc[q].grant.session # s
  /\ issuer[s].gen = 1

SignInsOwn == \A p \in Procs : SignedIn(p) => OwnSession(p)

LEMMA RowsStep ==
  ASSUME TypeOK, NEW p \in Procs, HookFiles, PlaceSound(proc[p]), Step(p)
  PROVE  proc'[p] \in Processes /\ \A q \in Procs \ {p} : proc'[q] = proc[q]
BY StepMoves, Changed DEF Moved

LEMMA GrantStep ==
  ASSUME TypeOK, NEW p \in Procs, HookFiles, PlaceSound(proc[p]), Step(p), ~ Exchange(p)
  PROVE  \/ proc'[p].grant.session \in {0, proc[p].grant.session, creds.session}
<1>1. proc[p] \in Processes /\ proc \in [Procs -> Processes]
  BY RowOf DEF TypeOK
<1>2. CASE \/ TakeLock(p) \/ SeeStale(p) \/ RemoveStale(p) \/ (\E pc : Goto(p, pc)) \/ MoveOn(p) \/ Anchors(p)
  BY <1>1, <1>2 DEF TakeLock, SeeStale, RemoveStale, Goto, MoveOn, Anchors, Processes
<1>3. CASE Starts(p)
  BY <1>1, <1>3 DEF Starts, Processes, NoCreds
<1>4. CASE NeedsRefresh(p) \/ Asks(p) \/ LogoutHeld(p)
  BY <1>1, <1>4 DEF NeedsRefresh, Asks, LogoutHeld, Processes
<1>7. CASE Quit(p) \/ Clear(p)
  <2>1. Idle.grant.session = 0 /\ [Idle EXCEPT !.pc = "wait", !.cmd = "unset"].grant.session = 0
    BY DEF Idle, NoCreds
  <2> QED BY <1>1, <1>7, <2>1 DEF Quit, Clear
<1>8. CASE \E user : Ready(p, user)
  BY <1>1, <1>8 DEF Ready, Processes, NoCreds
<1>5. CASE Rotate(p)
  BY <1>1, <1>5 DEF Rotate, Processes, Credentials
<1>6. CASE Reads(p)
  BY <1>1, <1>6 DEF Reads
<1> QED BY <1>2, <1>3, <1>4, <1>5, <1>6, <1>7, <1>8, RowsOfStep

LEMMA CredsStep ==
  ASSUME NEW p \in Procs, Step(p)
  PROVE  creds' = creds \/ SaveRefreshed(p) \/ SaveLogin(p) \/ Clear(p)
BY DEF Step, machine, TakeLock, SeeStale, RemoveStale, GiveUp, Crash, StartCall, Authorized, NeedsRefresh,
       Unauthenticated, Latest, Rotate, Refuse, RefreshLost, Done, StartLogin, Exchange, SignInFails, StartLogout,
       LogoutHeld, Revoke, RevokeLost, StartAuth, SaveService, ClearService, StartHook, Read, Ingest, IngestLost,
       Anchor, Decide, Rename

LEMMA CredsSession ==
  ASSUME TypeOK, NEW p \in Procs, Step(p)
  PROVE  creds'.session \in {0, creds.session, proc[p].grant.session}
<1>1. CASE SaveRefreshed(p)
  BY <1>1, RowOf DEF SaveRefreshed, Processes, Credentials
<1> QED BY <1>1, CredsStep DEF SaveLogin, Clear, NoCreds

LEMMA IssuerStep ==
  ASSUME NEW p \in Procs, Step(p)
  PROVE  UNCHANGED issuer \/ Exchange(p) \/ Rotate(p) \/ Refuse(p) \/ RefreshLost(p) \/ Revoke(p)
BY DEF Step, outside, TakeLock, SeeStale, RemoveStale, GiveUp, Crash, StartCall, Authorized, NeedsRefresh,
       Unauthenticated, Latest, SaveRefreshed, Done, StartLogin, SignInFails, SaveLogin, StartLogout,
       LogoutHeld, RevokeLost, Clear, StartAuth, SaveService, ClearService, StartHook, Read, Ingest, IngestLost,
       Anchor, Decide, Rename

(* A session that nobody presents stays as it is, and none is forgotten. *)
LEMMA SessionStep ==
  ASSUME TypeOK, NEW p \in Procs, PlaceSound(proc[p]), Step(p), ~ Exchange(p)
  PROVE  /\ \A s \in 1..MaxSessions : issuer'[s] = issuer[s] \/ s = proc[p].grant.session
         /\ \A s \in 1..MaxSessions : issuer[s].state # "none" => issuer'[s].state # "none"
<1> DEFINE s == proc[p].grant.session
<1>1. CASE UNCHANGED issuer
  BY <1>1
<1>2. CASE Rotate(p) \/ Refuse(p) \/ RefreshLost(p) \/ Revoke(p)
  <2>1. s \in 1..MaxSessions /\ issuer[s] \in SessionType /\ issuer \in [1..MaxSessions -> SessionType]
    BY <1>2, GrantType DEF Rotate, Refuse, RefreshLost, Revoke, TypeOK, SessionType
  <2>2. \/ issuer' = [issuer EXCEPT ![s].gen = @ + 1] \/ issuer' = [issuer EXCEPT ![s].state = "revoked"]
        \/ issuer' = issuer
    BY <1>2 DEF Rotate, Refuse, RefreshLost, Revoke
  <2> HIDE DEF s
  <2>3. ASSUME NEW t \in 1..MaxSessions PROVE issuer'[t] = issuer[t] \/ t = s
    BY <2>1, <2>2, <2>3
  <2>4. ASSUME NEW t \in 1..MaxSessions, issuer[t].state # "none" PROVE issuer'[t].state # "none"
    <3>1. CASE t # s
      BY <2>3, <2>4, <3>1
    <3>2. CASE t = s
      <4>1. CASE issuer' = [issuer EXCEPT ![s].gen = @ + 1]
        <5>1. issuer'[s] = [issuer[s] EXCEPT !.gen = @ + 1]
          BY <2>1, <4>1
        <5>2. issuer'[s].state = issuer[s].state
          BY <2>1, <5>1 DEF SessionType
        <5> QED BY <2>4, <3>2, <5>2
      <4>2. CASE issuer' = [issuer EXCEPT ![s].state = "revoked"]
        <5>1. issuer'[s].state = "revoked"
          BY <2>1, <4>2 DEF SessionType
        <5> QED BY <3>2, <5>1
      <4>3. CASE issuer' = issuer
        BY <2>4, <4>3
      <4> QED BY <2>2, <4>1, <4>2, <4>3
    <3> QED BY <3>1, <3>2
  <2> QED BY <2>3, <2>4 DEF s
<1> QED BY <1>1, <1>2, IssuerStep

(* Whoever waits to store a sign-in got its session itself. *)
LEMMA SignedInStep ==
  ASSUME TypeOK, NEW p \in Procs, HookFiles, PlaceSound(proc[p]), Step(p), SignedIn(p)'
  PROVE  Exchange(p) \/ (SignedIn(p) /\ proc'[p].grant = proc[p].grant /\ UNCHANGED <<creds, issuer>>)
<1>1. proc[p] \in Processes /\ proc \in [Procs -> Processes]
  BY RowOf DEF TypeOK
<1>2. CASE TakeLock(p) \/ SeeStale(p) \/ RemoveStale(p)
  BY <1>1, <1>2 DEF TakeLock, SeeStale, RemoveStale, Goto, SignedIn, At, machine, outside, Processes
<1>3. CASE \E pc \in {"clear", "answered", "rename"} : Goto(p, pc)
  BY <1>1, <1>3 DEF Goto, SignedIn, Processes
<1>7. CASE \E user : Ready(p, user)
  BY <1>1, <1>7 DEF Ready, SignedIn, Processes
<1>8. CASE MoveOn(p) \/ Asks(p) \/ Rotate(p)
  BY <1>1, <1>8 DEF MoveOn, Asks, Rotate, SignedIn, Processes
<1>4. CASE Quit(p) \/ Clear(p)
  <2>1. Idle.pc = "idle" /\ [Idle EXCEPT !.pc = "wait", !.cmd = "unset"].cmd = "unset"
    BY DEF Idle
  <2> QED BY <1>1, <1>4, <2>1 DEF Quit, Clear, SignedIn
<1>5. CASE Starts(p)
  <2>1. PICK cmd \in Commands, first \in Processes :
             /\ proc' = [proc EXCEPT ![p] = [first EXCEPT !.cmd = cmd]]
             /\ cmd = "login" => first.pc = "browser"
    BY <1>5 DEF Starts
  <2>2. proc'[p].cmd = cmd /\ proc'[p].pc = first.pc
    BY <1>1, <2>1 DEF Processes
  <2> QED BY <2>1, <2>2 DEF SignedIn
<1>6. CASE NeedsRefresh(p) \/ LogoutHeld(p) \/ Reads(p) \/ Anchors(p)
  BY <1>1, <1>6 DEF NeedsRefresh, LogoutHeld, Reads, Anchors, At, PlaceSound, SignedIn, Processes
<1> QED BY <1>2, <1>3, <1>4, <1>5, <1>6, <1>7, <1>8, RowsOfStep

LEMMA ExchangeStep ==
  ASSUME TypeOK, NEW p \in Procs, Exchange(p)
  PROVE  /\ UNCHANGED creds
         /\ \E s \in 1..MaxSessions :
              /\ issuer[s].state = "none" /\ proc'[p].grant.session = s
              /\ issuer'[s].gen = 1 /\ issuer'[s].state = "live"
              /\ \A t \in 1..MaxSessions \ {s} : issuer'[t] = issuer[t]
<1>1. PICK s \in 1..MaxSessions, u \in Users, gen \in {0, 1} :
         /\ issuer[s].state = "none"
         /\ issuer' = [issuer EXCEPT ![s] = [user |-> u, gen |-> 1, state |-> "live"]]
         /\ proc' = [proc EXCEPT ![p].pc = "wait",
                                 ![p].grant = [session |-> s, gen |-> gen, age |-> "fresh"]]
  BY DEF Exchange
<1>2. proc'[p].grant.session = s
  BY <1>1, RowOf DEF TypeOK, Processes
<1>3. issuer'[s].gen = 1 /\ issuer'[s].state = "live" /\ \A t \in 1..MaxSessions \ {s} : issuer'[t] = issuer[t]
  BY <1>1 DEF TypeOK
<1> QED BY <1>1, <1>2, <1>3 DEF Exchange, machine

LEMMA SessionNumbers ==
  ASSUME TypeOK
  PROVE  /\ creds.session # 0 => creds.session \in 1..MaxSessions
         /\ \A p \in Procs : proc[p].grant.session # 0 => proc[p].grant.session \in 1..MaxSessions
<1>1. creds \in Credentials /\ \A p \in Procs : proc[p].grant \in Credentials
  BY RowOf DEF TypeOK, Processes
<1> QED BY <1>1, ClientAssumption DEF Credentials

LEMMA BornKeeps ==
  ASSUME TypeOK, PlacesSound, HookFiles, SessionsBorn, [Next]_vars
  PROVE  SessionsBorn'
<1>1. ASSUME NEW p \in Procs, Step(p) PROVE SessionsBorn'
  <2>1. /\ PlaceSound(proc[p]) /\ \A q \in Procs \ {p} : proc'[q] = proc[q]
    BY <1>1, RowsStep DEF PlacesSound
  <2>2. CASE Exchange(p)
    <3>1. PICK s \in 1..MaxSessions :
              /\ issuer[s].state = "none" /\ proc'[p].grant.session = s
              /\ issuer'[s].gen = 1 /\ issuer'[s].state = "live"
              /\ \A t \in 1..MaxSessions \ {s} : issuer'[t] = issuer[t]
      BY <2>2, ExchangeStep
    <3>2. UNCHANGED creds
      BY <2>2, ExchangeStep
    <3>3. \A t \in 1..MaxSessions : issuer[t].state # "none" => issuer'[t].state # "none"
      BY <3>1
    <3>4. ASSUME NEW q \in Procs, proc'[q].grant.session # 0 PROVE issuer'[proc'[q].grant.session].state # "none"
      BY <2>1, <3>1, <3>3, <3>4, SessionNumbers DEF SessionsBorn
    <3>5. creds'.session # 0 => issuer'[creds'.session].state # "none"
      BY <3>2, <3>3, SessionNumbers DEF SessionsBorn
    <3> QED BY <3>4, <3>5 DEF SessionsBorn
  <2>3. CASE ~ Exchange(p)
    <3>1. proc'[p].grant.session \in {0, proc[p].grant.session, creds.session}
      BY <1>1, <2>1, <2>3, GrantStep
    <3>2. creds'.session \in {0, creds.session, proc[p].grant.session}
      BY <1>1, CredsSession
    <3>3. \A t \in 1..MaxSessions : issuer[t].state # "none" => issuer'[t].state # "none"
      BY <1>1, <2>1, <2>3, SessionStep
    <3>4. ASSUME NEW q \in Procs, proc'[q].grant.session # 0 PROVE issuer'[proc'[q].grant.session].state # "none"
      BY <2>1, <3>1, <3>3, <3>4, SessionNumbers DEF SessionsBorn
    <3>5. creds'.session # 0 => issuer'[creds'.session].state # "none"
      BY <3>2, <3>3, SessionNumbers DEF SessionsBorn
    <3> QED BY <3>4, <3>5 DEF SessionsBorn
  <2> QED BY <2>2, <2>3
<1>2. CASE Age \/ Grow \/ Replace \/ Rewrite
  <2>1. UNCHANGED <<proc, issuer>> /\ creds'.session = creds.session
    <3>1. CASE Age
      <4>1. creds \in Credentials
        BY DEF TypeOK
      <4> QED BY <3>1, <4>1 DEF Age, outside, Credentials
    <3> QED BY <1>2, <3>1 DEF Grow, Replace, Rewrite, machine, outside
  <2> QED BY <2>1 DEF SessionsBorn
<1>3. CASE UNCHANGED vars
  BY <1>3 DEF vars, SessionsBorn
<1> QED BY <1>1, <1>2, <1>3 DEF Next

LEMMA OwnKeeps ==
  ASSUME TypeOK, PlacesSound, HookFiles, SessionsBorn, SignInsOwn, [Next]_vars
  PROVE  SignInsOwn'
<1>1. ASSUME NEW p \in Procs, Step(p), NEW q \in Procs, SignedIn(q)' PROVE OwnSession(q)'
  <2>1. /\ PlaceSound(proc[p]) /\ PlaceSound(proc[q]) /\ \A r \in Procs \ {p} : proc'[r] = proc[r]
    BY <1>1, RowsStep DEF PlacesSound
  <2>2. CASE Exchange(p)
    <3>1. PICK s \in 1..MaxSessions :
              /\ issuer[s].state = "none" /\ proc'[p].grant.session = s
              /\ issuer'[s].gen = 1 /\ issuer'[s].state = "live"
              /\ \A t \in 1..MaxSessions \ {s} : issuer'[t] = issuer[t]
      BY <2>2, ExchangeStep
    <3>2. UNCHANGED creds /\ s # creds.session /\ \A r \in Procs : proc[r].grant.session # s
      BY <2>2, <3>1, ExchangeStep, ClientAssumption DEF SessionsBorn
    <3>3. CASE q = p
      BY <2>1, <3>1, <3>2, <3>3 DEF OwnSession
    <3>4. CASE q # p
      <4>1. proc'[q] = proc[q] /\ SignedIn(q)
        BY <1>1, <2>1, <3>4 DEF SignedIn
      <4>2. OwnSession(q) /\ proc[q].grant.session \in 1..MaxSessions
        BY <4>1, <2>1, SessionNumbers DEF SignInsOwn, SignedIn, PlaceSound
      <4>3. proc[q].grant.session # s
        BY <3>2
      <4> QED BY <2>1, <3>1, <3>2, <4>1, <4>2, <4>3 DEF OwnSession
    <3> QED BY <3>3, <3>4
  <2>3. CASE ~ Exchange(p)
    <3>1. proc'[p].grant.session \in {0, proc[p].grant.session, creds.session}
      BY <1>1, <2>1, <2>3, GrantStep
    <3>2. creds'.session \in {0, creds.session, proc[p].grant.session}
      BY <1>1, CredsSession
    <3>3. \A t \in 1..MaxSessions : issuer'[t] = issuer[t] \/ t = proc[p].grant.session
      BY <1>1, <2>1, <2>3, SessionStep
    <3>4. CASE q = p
      <4>1. SignedIn(p) /\ proc'[p].grant = proc[p].grant /\ UNCHANGED <<creds, issuer>>
        BY <1>1, <2>1, <2>3, <3>4, SignedInStep
      <4> QED BY <2>1, <3>4, <4>1 DEF SignInsOwn, OwnSession
    <3>5. CASE q # p
      <4>1. proc'[q] = proc[q] /\ SignedIn(q)
        BY <1>1, <2>1, <3>5 DEF SignedIn
      <4>2. OwnSession(q) /\ proc[q].grant.session \in 1..MaxSessions
        BY <4>1, <2>1, SessionNumbers DEF SignInsOwn, SignedIn, PlaceSound
      <4>3. proc[q].grant.session # 0
        BY <4>1, <2>1 DEF SignedIn, PlaceSound
      <4>4. proc[p].grant.session # proc[q].grant.session /\ creds.session # proc[q].grant.session
        BY <3>5, <4>2 DEF OwnSession
      <4> QED BY <2>1, <3>1, <3>2, <3>3, <3>5, <4>1, <4>2, <4>3, <4>4 DEF OwnSession
    <3> QED BY <3>4, <3>5
  <2> QED BY <2>2, <2>3
<1>2. CASE Age \/ Grow \/ Replace \/ Rewrite
  <2>1. UNCHANGED <<proc, issuer>> /\ creds'.session = creds.session
    <3>1. CASE Age
      <4>1. creds \in Credentials
        BY DEF TypeOK
      <4> QED BY <3>1, <4>1 DEF Age, outside, Credentials
    <3> QED BY <1>2, <3>1 DEF Grow, Replace, Rewrite, machine, outside
  <2> QED BY <2>1 DEF SignInsOwn, SignedIn, OwnSession
<1>3. CASE UNCHANGED vars
  BY <1>3 DEF vars, SignInsOwn, SignedIn, OwnSession
<1> QED BY <1>1, <1>2, <1>3 DEF Next, SignInsOwn

------------------------------------------------------------------------------
(* The locks, as long as nobody dies. *)
InLock == {"held", "asking", "saving", "revoking", "rename"}

(* A lock is held by the process that is in it, and by nobody else. *)
LocksSound ==
  /\ \A p \in Procs : proc[p].pc # "steal"
  /\ \A l \in LockNames : locks[l] # "dead"
  /\ \A p \in Procs : proc[p].pc \in InLock => locks[proc[p].lock] = p
  /\ \A l \in LockNames : locks[l] \in Procs =>
       proc[locks[l]].lock = l /\ proc[locks[l]].pc \in InLock \cup {"clear"}

Outside(p) ==
  /\ proc[p].pc \notin InLock \cup {"clear"} /\ proc'[p].pc \notin InLock \cup {"steal"}
  /\ UNCHANGED locks

Takes(p) ==
  /\ proc[p].pc = "wait" /\ proc'[p].pc = "held" /\ proc'[p].lock = proc[p].lock
  /\ locks[proc[p].lock] = "free" /\ locks' = [locks EXCEPT ![proc[p].lock] = p]

Stays(p) ==
  /\ proc[p].pc \in InLock /\ proc'[p].pc \in InLock \cup {"clear"} /\ proc'[p].lock = proc[p].lock
  /\ UNCHANGED locks

Leaves(p) ==
  /\ proc[p].pc \in InLock \cup {"clear"} /\ proc'[p].pc \notin InLock \cup {"steal", "clear"}
  /\ \A l \in LockNames : /\ locks'[l] # p
                          /\ locks'[l] = locks[l] \/ (locks[l] = p /\ locks'[l] = "free")

LEMMA ReleaseFrees ==
  ASSUME TypeOK, LocksSound, NEW p \in Procs, proc[p].pc \in InLock, Release(p)
  PROVE  \A l \in LockNames : /\ locks'[l] # p
                              /\ locks'[l] = locks[l] \/ (locks[l] = p /\ locks'[l] = "free")
<1>1. proc[p].lock \in LockNames /\ locks[proc[p].lock] = p /\ locks \in [LockNames -> Procs \cup {"free", "dead"}]
  BY RowOf DEF TypeOK, LocksSound, Processes
<1>2. locks' = [locks EXCEPT ![proc[p].lock] = "free"]
  BY <1>1 DEF Release, Free
<1>3. \A l \in LockNames : locks[l] = p => l = proc[p].lock
  BY DEF LocksSound
<1>4. p # "free"
  BY ClientAssumption
<1> QED BY <1>1, <1>2, <1>3, <1>4

(* Where a step takes its process. *)
LEMMA EndsAt ==
  ASSUME TypeOK, NEW p \in Procs
  PROVE  /\ \A pc : Goto(p, pc) => proc'[p].pc = pc /\ proc'[p].lock = proc[p].lock /\ proc'[p].cmd = proc[p].cmd
         /\ Quit(p) => proc'[p].pc = "idle"
         /\ \A user : Ready(p, user) => proc'[p].pc = "ready"
         /\ MoveOn(p) => proc'[p].pc = "read" /\ Release(p)
         /\ WithoutRefresh(p) => proc'[p].pc \in {"idle", "ready"}
         /\ Starts(p) => proc'[p].pc \in {"auth", "browser", "wait", "clear", "read"}
         /\ Reads(p) => proc'[p].pc \in {"auth", "wait"}
<1>1. proc[p] \in Processes /\ proc \in [Procs -> Processes]
  BY RowOf DEF TypeOK
<1>2. \A pc : Goto(p, pc) => proc'[p].pc = pc /\ proc'[p].lock = proc[p].lock /\ proc'[p].cmd = proc[p].cmd
  BY <1>1 DEF Goto, Processes
<1>3. Quit(p) => proc'[p].pc = "idle"
  BY <1>1 DEF Quit, Idle
<1>4. \A user : Ready(p, user) => proc'[p].pc = "ready"
  BY <1>1 DEF Ready, Processes
<1>5. MoveOn(p) => proc'[p].pc = "read" /\ Release(p)
  BY <1>1 DEF MoveOn, Processes
<1>6. WithoutRefresh(p) => proc'[p].pc \in {"idle", "ready"}
  BY <1>3, <1>4 DEF WithoutRefresh
<1>7. Starts(p) => proc'[p].pc \in {"auth", "browser", "wait", "clear", "read"}
  BY <1>1 DEF Starts, Processes
<1>8. Reads(p) => proc'[p].pc \in {"auth", "wait"}
  BY <1>1 DEF Reads
<1> QED BY <1>2, <1>3, <1>4, <1>5, <1>6, <1>7, <1>8

LEMMA NoFault ==
  ASSUME TypeOK, faults' = 0, Fault PROVE FALSE
BY ClientAssumption DEF TypeOK, Fault

LEMMA LockStep ==
  ASSUME TypeOK, LocksSound, HookFiles, NEW p \in Procs, PlaceSound(proc[p]), Step(p), faults' = 0
  PROVE  Outside(p) \/ Takes(p) \/ Stays(p) \/ Leaves(p)
<1> USE DEF At
<1>1. proc[p] \in Processes /\ proc \in [Procs -> Processes] /\ locks \in [LockNames -> Procs \cup {"free", "dead"}]
      /\ proc[p].lock \in LockNames
  BY RowOf DEF TypeOK, Processes
<1>2. CASE TakeLock(p)
  BY <1>1, <1>2, EndsAt DEF TakeLock, Takes
<1>3. CASE SeeStale(p) \/ RemoveStale(p)
  BY <1>1, <1>3 DEF SeeStale, RemoveStale, LocksSound
<1>4. CASE GiveUp(p)
  BY <1>4, EndsAt DEF GiveUp, Outside, InLock
<1>5. CASE Crash(p) \/ RefreshLost(p) \/ RevokeLost(p) \/ IngestLost(p)
  BY <1>5, NoFault DEF Crash, RefreshLost, RevokeLost, IngestLost
<1>6. CASE StartCall(p) \/ StartLogin(p) \/ StartLogout(p) \/ StartAuth(p) \/ StartHook(p)
  <2>1. Starts(p) /\ proc[p].pc = "idle"
    BY <1>6, StartsAs DEF Starts
  <2> QED BY <1>6, <2>1, EndsAt DEF StartCall, StartLogin, StartLogout, StartAuth, StartHook, Outside, InLock
<1>7. CASE Authorized(p) \/ Unauthenticated(p) \/ Done(p) \/ SignInFails(p) \/ Ingest(p)
  BY <1>7, EndsAt DEF Authorized, Unauthenticated, Done, SignInFails, Ingest, Outside, InLock
<1>8. CASE NeedsRefresh(p) \/ Exchange(p) \/ Anchor(p)
  <2>1. CASE NeedsRefresh(p)
    BY <1>1, <2>1 DEF NeedsRefresh, Outside, InLock, Processes
  <2>2. CASE Exchange(p)
    BY <1>1, <2>2 DEF Exchange, Outside, InLock, Processes
  <2>3. CASE Anchor(p)
    <3>1. proc'[p].pc \in {"idle", "wait"}
      BY <1>1, <2>3, EndsAt DEF Anchor, Processes
    <3> QED BY <2>3, <3>1 DEF Anchor, Outside, InLock
  <2> QED BY <1>8, <2>1, <2>2, <2>3
<1>9. CASE Read(p)
  <2>1. Reads(p) \/ Quit(p)
    BY <1>9, ReadsAs DEF Read, PlaceSound, HookFiles
  <2> QED BY <1>9, <2>1, EndsAt DEF Read, Outside, InLock
<1>10. CASE Latest(p)
  <2>1. proc[p].pc \in InLock
    BY <1>10 DEF Latest, InLock
  <2>2. CASE Release(p) /\ proc'[p].pc \in {"idle", "ready"}
    BY <2>1, <2>2, ReleaseFrees DEF Leaves, InLock
  <2>3. CASE proc' = [proc EXCEPT ![p].pc = "asking", ![p].grant = creds] /\ UNCHANGED locks
    BY <1>1, <2>1, <2>3 DEF Stays, InLock, Processes
  <2> QED BY <1>10, <2>2, <2>3, EndsAt DEF Latest
<1>11. CASE Rotate(p)
  BY <1>1, <1>11 DEF Rotate, Stays, InLock, Processes
<1>12. CASE Refuse(p) \/ SaveRefreshed(p) \/ SaveLogin(p) \/ SaveService(p) \/ ClearService(p) \/ Rename(p)
  <2>1. proc[p].pc \in InLock /\ Release(p) /\ proc'[p].pc \in {"idle", "ready", "read"}
    BY <1>12, EndsAt DEF Refuse, SaveRefreshed, SaveLogin, SaveService, ClearService, Rename, InLock
  <2> QED BY <2>1, ReleaseFrees DEF Leaves, InLock
<1>13. CASE LogoutHeld(p)
  BY <1>1, <1>13 DEF LogoutHeld, Stays, InLock, Processes
<1>14. CASE Revoke(p)
  BY <1>14, EndsAt DEF Revoke, Stays, InLock
<1>15. CASE Clear(p)
  <2>1. proc[p].lock = "credentials" /\ \A l \in LockNames : locks[l] = p => l = "credentials"
    BY <1>15 DEF Clear, PlaceSound, LocksSound
  <2>2. proc'[p].pc = "wait"
    BY <1>1, <1>15 DEF Clear, Idle
  <2>3. \A l \in LockNames : /\ locks'[l] # p
                             /\ locks'[l] = locks[l] \/ (locks[l] = p /\ locks'[l] = "free")
    <3>1. p # "free" /\ "credentials" \in LockNames
      BY ClientAssumption, Names0
    <3>2. CASE locks["credentials"] = p
      BY <1>1, <1>15, <2>1, <3>1, <3>2 DEF Clear, Free
    <3>3. CASE locks["credentials"] # p
      BY <1>15, <2>1, <3>3 DEF Clear
    <3> QED BY <3>2, <3>3
  <2> QED BY <1>15, <2>2, <2>3 DEF Clear, Leaves, InLock
<1>16. CASE Decide(p)
  <2>1. proc[p].pc \in InLock
    BY <1>16 DEF Decide, InLock
  <2>2. CASE Goto(p, "rename") /\ UNCHANGED locks
    BY <2>1, <2>2, EndsAt DEF Stays, InLock
  <2>3. CASE MoveOn(p)
    BY <2>1, <2>3, EndsAt, ReleaseFrees DEF Leaves, InLock
  <2> QED BY <1>16, <2>2, <2>3 DEF Decide
<1> QED BY <1>2, <1>3, <1>4, <1>5, <1>6, <1>7, <1>8, <1>9, <1>10, <1>11, <1>12, <1>13, <1>14, <1>15, <1>16 DEF Step

LEMMA LocksKeep ==
  ASSUME TypeOK, PlacesSound, HookFiles, LocksSound, [Next]_vars, faults' = 0
  PROVE  LocksSound'
<1>0. UNCHANGED LockNames
  BY DEF LockNames, Destinations
<1>1. ASSUME NEW p \in Procs, Step(p) PROVE LocksSound'
  <2>1. PlaceSound(proc[p]) /\ proc[p].lock \in LockNames /\ locks \in [LockNames -> Procs \cup {"free", "dead"}]
        /\ \A q \in Procs \ {p} : proc'[q] = proc[q]
    BY <1>1, RowsStep, RowOf DEF PlacesSound, TypeOK, Processes
  <2>2. p # "free" /\ p # "dead" /\ "free" \notin Procs
    BY ClientAssumption
  <2>3. Outside(p) \/ Takes(p) \/ Stays(p) \/ Leaves(p)
    BY <1>1, <2>1, LockStep
  <2>4. CASE Outside(p)
    BY <1>0, <2>1, <2>2, <2>4 DEF Outside, LocksSound, InLock
  <2>5. CASE Takes(p)
    <3>1. \A q \in Procs : proc'[q].pc # "steal"
      BY <2>1, <2>5 DEF Takes, LocksSound
    <3>2. \A l \in LockNames : locks'[l] # "dead"
      BY <2>1, <2>2, <2>5 DEF Takes, LocksSound
    <3>3. ASSUME NEW q \in Procs, proc'[q].pc \in InLock PROVE locks'[proc'[q].lock] = q
      <4>1. CASE q = p
        BY <2>1, <2>5, <4>1 DEF Takes
      <4>2. CASE q # p
        BY <2>1, <2>2, <2>5, <3>3, <4>2 DEF Takes, LocksSound
      <4> QED BY <4>1, <4>2
    <3>4. ASSUME NEW l \in LockNames, locks'[l] \in Procs
          PROVE  proc'[locks'[l]].lock = l /\ proc'[locks'[l]].pc \in InLock \cup {"clear"}
      <4>1. CASE l = proc[p].lock
        BY <2>1, <2>5, <4>1 DEF Takes, InLock
      <4>2. CASE l # proc[p].lock
        <5>1. locks'[l] = locks[l]
          BY <2>1, <2>5, <4>2 DEF Takes
        <5>2. locks[l] # p
          BY <2>5, <5>1, <3>4 DEF Takes, LocksSound, InLock
        <5> QED BY <2>1, <3>4, <5>1, <5>2 DEF LocksSound
      <4> QED BY <4>1, <4>2
    <3> QED BY <1>0, <3>1, <3>2, <3>3, <3>4 DEF LocksSound
  <2>6. CASE Stays(p)
    BY <1>0, <2>1, <2>2, <2>6 DEF Stays, LocksSound, InLock
  <2>7. CASE Leaves(p)
    <3>1. \A q \in Procs : proc'[q].pc # "steal"
      BY <2>1, <2>7 DEF Leaves, LocksSound
    <3>2. \A l \in LockNames : locks'[l] # "dead"
      BY <2>7 DEF Leaves, LocksSound
    <3>3. ASSUME NEW q \in Procs, proc'[q].pc \in InLock PROVE locks'[proc'[q].lock] = q
      <4>1. q # p
        BY <2>7, <3>3 DEF Leaves
      <4>2. proc'[q] = proc[q] /\ locks[proc[q].lock] = q /\ proc[q].lock \in LockNames
        BY <2>1, <3>3, <4>1, RowOf DEF LocksSound, Processes
      <4> QED BY <2>7, <4>1, <4>2 DEF Leaves
    <3>4. ASSUME NEW l \in LockNames, locks'[l] \in Procs
          PROVE  proc'[locks'[l]].lock = l /\ proc'[locks'[l]].pc \in InLock \cup {"clear"}
      <4>1. locks'[l] # p /\ locks'[l] = locks[l]
        BY <2>2, <2>7, <3>4 DEF Leaves
      <4> QED BY <2>1, <3>4, <4>1 DEF LocksSound
    <3> QED BY <1>0, <3>1, <3>2, <3>3, <3>4 DEF LocksSound
  <2> QED BY <2>3, <2>4, <2>5, <2>6, <2>7
<1>2. CASE Age \/ Grow \/ Replace \/ Rewrite
  <2>1. UNCHANGED <<proc, locks>>
    BY <1>2, SurroundingsTyped
  <2> QED BY <1>0, <2>1 DEF LocksSound
<1>3. CASE UNCHANGED vars
  BY <1>0, <1>3 DEF vars, LocksSound
<1> QED BY <1>1, <1>2, <1>3 DEF Next

------------------------------------------------------------------------------
(* The refresh tokens, as long as nobody dies and no answer is lost. *)
Refreshes(p) == proc[p].pc \in {"asking", "saving"}

(* A refresh has the newest token, and what is stored is what it replaces, or was taken away by a logout without the lock. *)
RefreshSound(p) ==
  LET s == proc[p].grant.session IN
  /\ issuer[s].gen = proc[p].grant.gen
  /\ creds.session = s \/ (creds.session = 0 /\ s \in removed)
  /\ proc[p].pc = "saving" => issuer[s].state = "live"

Overtaken == \E p \in Procs : proc[p].pc = "saving" /\ proc[p].grant.session = creds.session

TokensSound ==
  /\ \A p \in Procs : Refreshes(p) => RefreshSound(p)
  /\ Renewable(creds) /\ ~ Overtaken => issuer[creds.session].gen = creds.gen
  /\ ~ replayed

LEMMA OneIn ==
  ASSUME TypeOK, PlacesSound, LocksSound, NEW p \in Procs, NEW q \in Procs,
         proc[p].pc \in InLock, proc[p].lock = "credentials", Refreshes(q)
  PROVE  q = p
<1>1. proc[q].pc \in InLock /\ proc[q].lock = "credentials"
  BY DEF Refreshes, InLock, PlacesSound, PlaceSound
<1> QED BY <1>1 DEF LocksSound

LEMMA RemovedStep ==
  ASSUME NEW p \in Procs, Step(p)
  PROVE  removed' = removed \/ Clear(p)
BY DEF Step, outside, TakeLock, SeeStale, RemoveStale, GiveUp, Crash, StartCall, Authorized, NeedsRefresh,
       Unauthenticated, Latest, Rotate, Refuse, RefreshLost, SaveRefreshed, Done, StartLogin, Exchange, SignInFails,
       SaveLogin, StartLogout, LogoutHeld, Revoke, RevokeLost, StartAuth, SaveService, ClearService, StartHook, Read,
       Ingest, IngestLost, Anchor, Decide, Rename

LEMMA QuietStep ==
  ASSUME TypeOK, HookFiles, NEW p \in Procs, PlaceSound(proc[p]), LocksSound, Step(p), faults' = 0
  PROVE  \/ UNCHANGED <<creds, issuer, replayed>> /\ ~ Refreshes(p) /\ ~ Refreshes(p)'
         \/ (Asks(p) /\ Latest(p)) \/ Rotate(p) \/ Refuse(p) \/ SaveRefreshed(p) \/ SaveLogin(p) \/ Exchange(p)
         \/ Revoke(p) \/ Clear(p)
<1> USE DEF At, Refreshes, machine, outside
<1>1. proc[p] \in Processes /\ proc \in [Procs -> Processes]
  BY RowOf DEF TypeOK
<1>2. CASE TakeLock(p) \/ SeeStale(p) \/ RemoveStale(p) \/ GiveUp(p)
  BY <1>2, EndsAt DEF TakeLock, SeeStale, RemoveStale, GiveUp
<1>3. CASE Crash(p) \/ RefreshLost(p) \/ RevokeLost(p) \/ IngestLost(p)
  BY <1>3, NoFault DEF Crash, RefreshLost, RevokeLost, IngestLost
<1>4. CASE StartCall(p) \/ StartLogin(p) \/ StartLogout(p) \/ StartAuth(p) \/ StartHook(p)
  <2>1. Starts(p) /\ proc[p].pc = "idle"
    BY <1>4, StartsAs DEF Starts
  <2> QED BY <1>4, <2>1, EndsAt DEF StartCall, StartLogin, StartLogout, StartAuth, StartHook
<1>5. CASE Authorized(p) \/ Unauthenticated(p) \/ Done(p) \/ SignInFails(p) \/ Ingest(p)
  BY <1>5, EndsAt DEF Authorized, Unauthenticated, Done, SignInFails, Ingest
<1>6. CASE NeedsRefresh(p)
  BY <1>1, <1>6 DEF NeedsRefresh, Processes
<1>7. CASE Anchor(p)
  <2>1. proc'[p].pc \in {"idle", "wait"}
    BY <1>1, <1>7, EndsAt DEF Anchor, Processes
  <2> QED BY <1>7, <2>1 DEF Anchor
<1>8. CASE Read(p)
  <2>1. Reads(p) \/ Quit(p)
    BY <1>8, ReadsAs DEF Read, PlaceSound, HookFiles
  <2> QED BY <1>8, <2>1, EndsAt DEF Read
<1>9. CASE Latest(p)
  <2>1. CASE proc'[p].pc \in {"idle", "ready"}
    BY <1>9, <2>1 DEF Latest
  <2>2. CASE proc' = [proc EXCEPT ![p].pc = "asking", ![p].grant = creds]
    BY <1>9, <2>2 DEF Latest, Asks
  <2> QED BY <1>9, <2>1, <2>2, EndsAt DEF Latest
<1>10. CASE SaveService(p) \/ ClearService(p) \/ Rename(p)
  BY <1>10, EndsAt DEF SaveService, ClearService, Rename
<1>11. CASE LogoutHeld(p)
  BY <1>1, <1>11 DEF LogoutHeld, Processes
<1>12. CASE Decide(p)
  BY <1>12, EndsAt DEF Decide
<1> QED BY <1>2, <1>3, <1>4, <1>5, <1>6, <1>7, <1>8, <1>9, <1>10, <1>11, <1>12 DEF Step

(* While a process is in the credential lock, or stores a sign-in, no other refreshes. *)
LEMMA TokensStep ==
  ASSUME TypeOK, PlacesSound, HookFiles, SessionsBorn, SignInsOwn, LocksSound, TokensSound,
         NEW p \in Procs, Step(p), faults' = 0
  PROVE  TokensSound'
<1> USE DEF At
<1>1. /\ PlaceSound(proc[p]) /\ proc[p] \in Processes /\ proc \in [Procs -> Processes]
      /\ creds \in Credentials /\ issuer \in [1..MaxSessions -> SessionType]
  BY RowOf DEF PlacesSound, TypeOK, SessionType
<1>2. \A q \in Procs \ {p} : proc'[q] = proc[q]
  BY <1>1, RowsStep
<1>0. removed \subseteq removed'
  BY RemovedStep DEF Clear
<1>3. CASE UNCHANGED <<creds, issuer, replayed>> /\ ~ Refreshes(p) /\ ~ Refreshes(p)'
  <2>1. \A q \in Procs : Refreshes(q)' => q # p /\ Refreshes(q) /\ proc'[q] = proc[q]
    BY <1>2, <1>3 DEF Refreshes
  <2>2. \A q \in Procs : Refreshes(q)' => RefreshSound(q)'
    BY <1>0, <1>3, <2>1 DEF TokensSound, RefreshSound
  <2>3. Overtaken => Overtaken'
    BY <1>2, <1>3 DEF Overtaken, Refreshes
  <2> QED BY <1>3, <2>2, <2>3 DEF TokensSound, Renewable
<1>4. ASSUME proc[p].pc \in InLock, proc[p].lock = "credentials"
      PROVE  \A q \in Procs \ {p} : ~ Refreshes(q) /\ ~ Refreshes(q)'
  BY <1>2, <1>4, OneIn DEF Refreshes
<1>5. CASE Asks(p) /\ Latest(p)
  <2>1. proc[p].pc \in InLock /\ proc[p].lock = "credentials" /\ UNCHANGED <<creds, issuer, replayed>>
    BY <1>5 DEF Latest, InLock, machine, outside
  <2>2. proc'[p].pc = "asking" /\ proc'[p].grant = creds /\ proc[p].pc = "held"
    BY <1>1, <1>5 DEF Asks, Processes
  <2>3. SameSession(proc[p].seen, creds)
    <3>1. \A user : ~ Ready(p, user)
      BY <2>2, EndsAt
    <3>2. ~ WithoutRefresh(p)
      BY <2>2, EndsAt
    <3> QED BY <1>5, <3>1, <3>2 DEF Latest
  <2>4. ~ Overtaken /\ Renewable(creds)
    BY <1>4, <2>1, <2>2, <2>3 DEF Overtaken, Refreshes, SameSession
  <2>5. RefreshSound(p)'
    BY <2>1, <2>2, <2>4 DEF RefreshSound, TokensSound
  <2>6. \A q \in Procs : Refreshes(q)' => RefreshSound(q)'
    BY <1>4, <2>1, <2>5
  <2> QED BY <2>1, <2>4, <2>6 DEF TokensSound
<1>6. CASE Rotate(p)
  <2> DEFINE s == proc[p].grant.session
  <2>1. /\ proc[p].pc \in InLock /\ proc[p].lock = "credentials" /\ UNCHANGED <<creds, replayed>>
        /\ Refreshes(p) /\ s \in 1..MaxSessions /\ s # 0 /\ proc[p].grant \in Credentials
    BY <1>1, <1>6, GrantType DEF Rotate, InLock, PlaceSound, machine, Refreshes, Renewable
  <2>2. RefreshSound(p)
    BY <2>1 DEF TokensSound
  <2>3. proc'[p].pc = "saving" /\ proc'[p].grant.session = s /\ proc'[p].grant.gen = proc[p].grant.gen + 1
    BY <1>1, <1>6, <2>1 DEF Rotate, Processes, Credentials
  <2>4. issuer'[s].gen = issuer[s].gen + 1 /\ issuer'[s].state = "live"
    BY <1>1, <1>6, <2>1 DEF Rotate, Presented, SessionType
  <2>5. RefreshSound(p)'
    BY <1>0, <2>1, <2>2, <2>3, <2>4 DEF RefreshSound
  <2>6. Renewable(creds') => Overtaken'
    BY <2>1, <2>2, <2>3 DEF RefreshSound, Renewable, Overtaken
  <2> QED BY <1>4, <2>1, <2>5, <2>6 DEF TokensSound
<1>7. CASE Refuse(p)
  <2> DEFINE s == proc[p].grant.session
  <2>1. /\ proc[p].pc \in InLock /\ proc[p].lock = "credentials" /\ UNCHANGED creds
        /\ Refreshes(p) /\ s \in 1..MaxSessions
    BY <1>1, <1>7, GrantType DEF Refuse, InLock, PlaceSound, machine, Refreshes
  <2>2. RefreshSound(p) /\ proc'[p].pc \in {"idle", "ready"}
    BY <1>7, <2>1, EndsAt DEF TokensSound, Refuse
  <2>3. ~ replayed'
    BY <1>7, <2>2 DEF Refuse, Presented, RefreshSound, TokensSound
  <2>4. \A t \in 1..MaxSessions : issuer'[t].gen = issuer[t].gen
    BY <1>1, <1>7, <2>1 DEF Refuse, SessionType
  <2>5. \A q \in Procs : ~ Refreshes(q)'
    BY <1>4, <2>1, <2>2 DEF Refreshes
  <2>6. ~ Overtaken
    BY <1>4, <1>7, <2>1 DEF Overtaken, Refreshes, Refuse
  <2>7. Renewable(creds') => issuer'[creds'.session].gen = creds'.gen
    BY <2>1, <2>4, <2>6, SessionNumbers DEF TokensSound, Renewable
  <2> QED BY <2>3, <2>5, <2>7 DEF TokensSound
<1>8. CASE SaveRefreshed(p)
  <2>1. /\ proc[p].pc \in InLock /\ proc[p].lock = "credentials" /\ UNCHANGED <<issuer, replayed>>
        /\ Refreshes(p) /\ proc[p].grant \in Credentials
    BY <1>1, <1>8, GrantType DEF SaveRefreshed, InLock, PlaceSound, outside, Refreshes
  <2>2. RefreshSound(p) /\ proc'[p].pc = "ready"
    BY <1>8, <2>1, EndsAt DEF TokensSound, SaveRefreshed
  <2>3. creds'.session = proc[p].grant.session /\ creds'.gen = proc[p].grant.gen
    BY <1>8, <2>1 DEF SaveRefreshed, Credentials
  <2>4. \A q \in Procs : ~ Refreshes(q)'
    BY <1>4, <2>1, <2>2 DEF Refreshes
  <2> QED BY <2>1, <2>2, <2>3, <2>4 DEF TokensSound, RefreshSound
<1>9. CASE SaveLogin(p)
  <2>1. /\ proc[p].pc \in InLock /\ proc[p].lock = "credentials" /\ UNCHANGED <<issuer, replayed>>
        /\ SignedIn(p) /\ creds' = proc[p].grant
    BY <1>1, <1>9 DEF SaveLogin, InLock, PlaceSound, outside, SignedIn
  <2>2. OwnSession(p) /\ proc[p].grant.gen \in {0, 1} /\ proc'[p].pc = "idle"
    BY <1>1, <1>9, <2>1, EndsAt DEF SignInsOwn, SaveLogin, PlaceSound, SignedIn
  <2>3. \A q \in Procs : ~ Refreshes(q)'
    BY <1>4, <2>1, <2>2 DEF Refreshes
  <2> QED BY <2>1, <2>2, <2>3 DEF TokensSound, OwnSession, Renewable
<1>10. CASE Exchange(p)
  <2>1. PICK s \in 1..MaxSessions :
             /\ issuer[s].state = "none" /\ proc'[p].grant.session = s
             /\ \A t \in 1..MaxSessions \ {s} : issuer'[t] = issuer[t]
    BY <1>10, ExchangeStep
  <2>2. UNCHANGED <<creds, replayed>> /\ proc'[p].pc = "wait" /\ proc[p].pc = "browser"
    BY <1>1, <1>10 DEF Exchange, machine, Processes
  <2>3. s # creds.session /\ \A q \in Procs : proc[q].grant.session # s
    BY <2>1, ClientAssumption DEF SessionsBorn
  <2>4. ASSUME NEW q \in Procs, Refreshes(q)' PROVE RefreshSound(q)'
    <3>1. q # p /\ proc'[q] = proc[q] /\ Refreshes(q)
      BY <1>2, <2>2, <2>4 DEF Refreshes
    <3>2. proc[q].grant.session \in 1..MaxSessions \ {s}
      BY <2>3, <3>1, SessionNumbers DEF PlacesSound, PlaceSound, Refreshes, Renewable
    <3>3. RefreshSound(q)
      BY <3>1 DEF TokensSound
    <3> QED BY <1>0, <2>1, <2>2, <3>1, <3>2, <3>3 DEF RefreshSound
  <2>5. Overtaken => Overtaken'
    BY <1>2, <2>2 DEF Overtaken
  <2>6. creds.session # 0 => issuer'[creds.session] = issuer[creds.session]
    BY <2>1, <2>3, SessionNumbers
  <2> QED BY <2>2, <2>4, <2>5, <2>6 DEF TokensSound, Renewable
<1>11. CASE Revoke(p)
  <2> DEFINE s == proc[p].grant.session
  <2>1. /\ proc[p].pc \in InLock /\ proc[p].lock = "credentials" /\ UNCHANGED <<creds, replayed>>
        /\ s \in 1..MaxSessions /\ ~ Refreshes(p)
    BY <1>1, <1>11, GrantType DEF Revoke, InLock, PlaceSound, machine, Refreshes
  <2>2. proc'[p].pc = "clear"
    BY <1>11, EndsAt DEF Revoke
  <2>3. \A t \in 1..MaxSessions : issuer'[t].gen = issuer[t].gen
    BY <1>1, <1>11, <2>1 DEF Revoke, SessionType
  <2>4. \A q \in Procs : ~ Refreshes(q)' /\ ~ Refreshes(q)
    BY <1>4, <2>1, <2>2 DEF Refreshes
  <2>5. ~ Overtaken
    BY <2>4 DEF Overtaken, Refreshes
  <2>6. Renewable(creds') => issuer'[creds'.session].gen = creds'.gen
    BY <2>1, <2>3, <2>5, SessionNumbers DEF TokensSound, Renewable
  <2> QED BY <2>1, <2>4, <2>6 DEF TokensSound
<1>12. CASE Clear(p)
  <2>1. creds' = NoCreds /\ UNCHANGED <<issuer, replayed>> /\ proc'[p].pc = "wait"
    BY <1>1, <1>12 DEF Clear, outside, Idle
  <2>2. ASSUME NEW q \in Procs, Refreshes(q)' PROVE RefreshSound(q)'
    <3>1. proc'[q] = proc[q] /\ Refreshes(q)
      BY <1>2, <2>1, <2>2 DEF Refreshes
    <3>2. RefreshSound(q)
      BY <3>1 DEF TokensSound
    <3>3. creds.session \in removed'
      <4>1. locks["credentials"] = q /\ q # p
        BY <1>1, <1>12, <3>1, <2>2 DEF LocksSound, InLock, Refreshes, PlacesSound, PlaceSound, Clear
      <4> QED BY <1>12, <4>1 DEF Clear
    <3> QED BY <1>0, <2>1, <3>1, <3>2, <3>3 DEF RefreshSound, NoCreds
  <2> QED BY <2>1, <2>2 DEF TokensSound, NoCreds, Renewable
<1> QED BY <1>1, <1>3, <1>5, <1>6, <1>7, <1>8, <1>9, <1>10, <1>11, <1>12, QuietStep

LEMMA TokensKeep ==
  ASSUME TypeOK, PlacesSound, HookFiles, SessionsBorn, SignInsOwn, LocksSound, TokensSound,
         [Next]_vars, faults' = 0
  PROVE  TokensSound'
<1>1. CASE \E p \in Procs : Step(p)
  BY <1>1, TokensStep
<1>2. CASE Age \/ Grow \/ Replace \/ Rewrite
  <2>1. UNCHANGED <<proc, issuer, replayed, removed>> /\ creds'.session = creds.session /\ creds'.gen = creds.gen
    <3>1. CASE Age
      <4>1. creds \in Credentials
        BY DEF TypeOK
      <4> QED BY <3>1, <4>1 DEF Age, outside, Credentials
    <3> QED BY <1>2, <3>1 DEF Grow, Replace, Rewrite, machine, outside
  <2> QED BY <2>1 DEF TokensSound, Refreshes, RefreshSound, Overtaken, Renewable
<1>3. CASE UNCHANGED vars
  BY <1>3 DEF vars, TokensSound, Refreshes, RefreshSound, Overtaken, Renewable
<1> QED BY <1>1, <1>2, <1>3 DEF Next

------------------------------------------------------------------------------
(* The files of the transcript: a version only gets rows, a file only versions. *)
FilesGo ==
  /\ Current <= Current'
  /\ \A f \in DOMAIN files :
       /\ f \in DOMAIN files' /\ files[f].version <= files'[f].version
       /\ files'[f].version = files[f].version =>
            Len(Rows(f)) <= Len(Rows(f)') /\ \A i \in 1..Len(Rows(f)) : Rows(f)'[i] = Rows(f)[i]

LEMMA FilesStill == ASSUME TypeOK, UNCHANGED files PROVE FilesGo
BY FilesType DEF FilesGo, Current, Rows

(* One file is written, or a new one is. *)
LEMMA FileWritten ==
  ASSUME TypeOK, NEW row \in FileType, files' = [files EXCEPT ![Current] = row],
         files[Current].version <= row.version,
         row.version = files[Current].version =>
           Len(Rows(Current)) <= Len(row.rows) /\ \A i \in 1..Len(Rows(Current)) : row.rows[i] = Rows(Current)[i]
  PROVE  FilesGo /\ Current' = Current
<1>1. files \in Seq(FileType) /\ Current \in DOMAIN files /\ Current \in Nat
  BY FilesType
<1>2. Len(files') = Len(files) /\ DOMAIN files' = DOMAIN files /\ files'[Current] = row
      /\ \A f \in DOMAIN files \ {Current} : files'[f] = files[f]
  BY <1>1
<1>3. Current' = Current
  BY <1>2 DEF Current
<1>4. ASSUME NEW f \in DOMAIN files
      PROVE  /\ f \in DOMAIN files' /\ files[f].version <= files'[f].version
             /\ files'[f].version = files[f].version =>
                  Len(Rows(f)) <= Len(Rows(f)') /\ \A i \in 1..Len(Rows(f)) : Rows(f)'[i] = Rows(f)[i]
  <2>1. CASE f = Current
    BY <1>2, <2>1 DEF Rows
  <2>2. CASE f # Current
    <3>1. files'[f] = files[f] /\ files[f].version \in Nat /\ Len(Rows(f)) \in Nat
      BY <1>2, <2>2, FilesType
    <3> QED BY <1>2, <3>1 DEF Rows
  <2> QED BY <2>1, <2>2
<1> QED BY <1>1, <1>3, <1>4 DEF FilesGo

LEMMA FilesStep == ASSUME TypeOK, [Next]_vars PROVE FilesGo
<1>1. CASE \E p \in Procs : Step(p)
  <2>1. PICK p \in Procs : Step(p)
    BY <1>1
  <2>2. UNCHANGED files
    BY <2>1
       DEF Step, transcript, TakeLock, SeeStale, RemoveStale, GiveUp, Crash, StartCall, Authorized, NeedsRefresh,
           Unauthenticated, Latest, Rotate, Refuse, RefreshLost, SaveRefreshed, Done, StartLogin, Exchange,
           SignInFails, SaveLogin, StartLogout, LogoutHeld, Revoke, RevokeLost, Clear, StartAuth, SaveService,
           ClearService, StartHook, Read, Ingest, IngestLost, Anchor, Decide, Rename
  <2> QED BY <2>2, FilesStill
<1>2. CASE Age \/ UNCHANGED vars
  BY <1>2, FilesStill DEF Age, transcript, vars
<1>3. CASE Grow
  <2>1. PICK kind \in {"message", "noise"} : files' = [files EXCEPT ![Current].rows = Append(@, kind)]
    BY <1>3 DEF Grow
  <2>2. files[Current] \in FileType /\ Current \in DOMAIN files /\ files \in Seq(FileType)
    BY FilesType
  <2> DEFINE grown == [files[Current] EXCEPT !.rows = Append(@, kind)]
  <2>3. Append(files[Current].rows, kind) \in Seq({"message", "noise"})
    BY <2>2 DEF FileType
  <2>4. grown \in FileType /\ grown.version = files[Current].version /\ grown.rows = Append(files[Current].rows, kind)
    BY <2>2, <2>3 DEF FileType
  <2>5. files' = [files EXCEPT ![Current] = grown]
    BY <2>1, <2>2 DEF FileType
  <2> HIDE DEF grown
  <2>6. Len(Rows(Current)) <= Len(grown.rows) /\ \A i \in 1..Len(Rows(Current)) : grown.rows[i] = Rows(Current)[i]
    <3>1. Rows(Current) \in Seq({"message", "noise"}) /\ grown.rows = Append(Rows(Current), kind)
      BY <2>2, <2>4, FilesType DEF Rows
    <3> QED BY <3>1
  <2>7. files[Current].version <= grown.version
    BY <2>2, <2>4, FilesType
  <2> QED BY <2>4, <2>5, <2>6, <2>7, FileWritten
<1>4. CASE Replace
  <2>1. files \in Seq(FileType) /\ files' = Append(files, [version |-> 1, rows |-> <<"message">>])
    BY <1>4, FilesType DEF Replace
  <2>2. Current' = Current + 1 /\ \A f \in DOMAIN files : f \in DOMAIN files' /\ files'[f] = files[f]
    BY <2>1 DEF Current
  <2>3. ASSUME NEW f \in DOMAIN files
        PROVE  /\ f \in DOMAIN files' /\ files[f].version <= files'[f].version
               /\ Len(Rows(f)) <= Len(Rows(f)') /\ \A i \in 1..Len(Rows(f)) : Rows(f)'[i] = Rows(f)[i]
    BY <2>2, FilesType DEF Rows
  <2> QED BY <2>2, <2>3, FilesType DEF FilesGo
<1>5. CASE Rewrite
  <2>1. PICK rows \in {<<"message">>, <<"message", "message">>} :
             files' = [files EXCEPT ![Current] = [version |-> @.version + 1, rows |-> rows]]
    BY <1>5 DEF Rewrite
  <2>2. files[Current].version \in Nat /\ Current \in DOMAIN files
    BY FilesType
  <2> DEFINE written == [version |-> files[Current].version + 1, rows |-> rows]
  <2>3. written \in FileType
    <3>1. <<"message">> \in Seq({"message", "noise"}) /\ <<"message", "message">> \in Seq({"message", "noise"})
      OBVIOUS
    <3>2. rows \in Seq({"message", "noise"})
      BY <3>1
    <3> QED BY <2>2, <3>2 DEF FileType
  <2>4. files' = [files EXCEPT ![Current] = written]
    BY <2>1
  <2>5. files[Current].version < written.version
    BY <2>2
  <2> HIDE DEF written
  <2>6. written.version \in Nat
    BY <2>3 DEF FileType
  <2>7. files[Current].version <= written.version /\ written.version # files[Current].version
    BY <2>2, <2>5, <2>6
  <2> QED BY <2>3, <2>4, <2>7, FileWritten
<1> QED BY <1>1, <1>2, <1>3, <1>4, <1>5 DEF Next

------------------------------------------------------------------------------
(* The checkpoints. *)
PointSound(d) ==
  LET point == points[d] IN
  /\ point.file <= Current
  /\ point.file # 0 =>
       /\ point.version <= files[point.file].version
       /\ point.version = files[point.file].version => point.offset <= Len(Rows(point.file))

PointsSound == \A d \in Destinations : PointSound(d)

LEMMA PointType ==
  ASSUME TypeOK, NEW d \in Destinations
  PROVE  /\ points[d].file \in Nat /\ points[d].version \in Nat /\ points[d].offset \in Nat
         /\ points[d].file # 0 /\ points[d].file <= Current => points[d].file \in DOMAIN files
<1>1. points[d].file \in Nat /\ points[d].version \in Nat /\ points[d].offset \in Nat
  BY DEF TypeOK
<1>2. DOMAIN files = 1..Current /\ Current \in Nat
  BY FilesType DEF Current
<1> QED BY <1>1, <1>2

LEMMA FilesTypeAfter ==
  ASSUME TypeOK'
  PROVE  /\ Current' \in Nat \ {0}
         /\ \A f \in DOMAIN files' : files'[f].version \in Nat /\ Len(Rows(f)') \in Nat
<1>1. files' \in Seq(FileType) /\ files' # <<>>
  BY DEF TypeOK, FileType
<1>2. ASSUME NEW f \in DOMAIN files' PROVE files'[f].version \in Nat /\ Len(Rows(f)') \in Nat
  <2>1. files'[f] \in FileType
    BY <1>1
  <2> QED BY <2>1 DEF FileType, Rows
<1> QED BY <1>1, <1>2 DEF Current

(* A checkpoint that does not hold any more never holds again. *)
LEMMA HeldBefore ==
  ASSUME TypeOK, TypeOK', FilesGo, NEW d \in Destinations, PointSound(d), points'[d] = points[d],
         StillCurrent(points[d])'
  PROVE  /\ StillCurrent(points[d]) /\ Current' = Current
         /\ points[d].offset = 0 \/ files'[Current].version = files[Current].version
<1> DEFINE point == points[d]
<1>1. point.file = Current' /\ Current' \in Nat \ {0} /\ Current \in Nat \ {0} /\ Current <= Current'
  <2>1. point.file = Current'
    BY DEF StillCurrent
  <2> QED BY <2>1, FilesType, FilesTypeAfter DEF FilesGo
<1>2. point.file \in Nat /\ point.version \in Nat /\ point.offset \in Nat
  BY PointType
<1>3. point.file = Current /\ Current' = Current /\ Current \in DOMAIN files
  BY <1>1, <1>2, FilesType DEF PointSound
<1>4. /\ files[Current].version \in Nat /\ Len(Rows(Current)) \in Nat /\ point.version <= files[Current].version
      /\ files[Current].version <= files'[Current].version
      /\ point.version = files[Current].version => point.offset <= Len(Rows(Current))
  BY <1>1, <1>3, FilesType DEF PointSound, FilesGo
<1>5. point.offset > 0 => point.version = files'[Current].version
  BY <1>1, <1>3 DEF StillCurrent, Names
<1>6. files'[Current].version \in Nat
  BY <1>3, FilesTypeAfter DEF FilesGo
<1>7. point.offset = 0 \/ (point.version = files[Current].version /\ files'[Current].version = files[Current].version)
  <2> HIDE DEF point
  <2> QED BY <1>2, <1>4, <1>5, <1>6
<1>8. point.offset <= Len(Rows(Current)) /\ (point.offset > 0 => point.version = files[Current].version)
  <2> HIDE DEF point
  <2> QED BY <1>2, <1>4, <1>7
<1> QED BY <1>3, <1>7, <1>8 DEF Names, Rows, StillCurrent

------------------------------------------------------------------------------
(* The hooks. *)
HookVersions == \A p \in Procs : proc[p].cmd = "hook" => proc[p].version <= files[proc[p].file].version

(* The checkpoint is to be replaced. *)
Decides(p) ==
  /\ Decide(p) /\ StillCurrent(Value(p)) /\ ~ Newer(p) /\ Goto(p, "rename")

(* The other steps that leave a hook what it has. *)
Keeps(p) ==
  LET h == proc[p]
      g == proc'[p]
  IN /\ h.cmd = "hook" /\ h.pc \in {"wait", "steal", "held", "auth", "asking", "saving"}
     /\ g.pc \notin {"read", "answered", "rename"} /\ g.lock \in {h.lock, "credentials"}
     /\ g.file = h.file /\ g.version = h.version /\ g.from = h.from /\ g.upto = h.upto

LEMMA HookStep ==
  ASSUME TypeOK, HookFiles, NEW p \in Procs, PlaceSound(proc[p]), Step(p), proc'[p].cmd = "hook"
  PROVE  \/ StartHook(p) \/ Read(p) \/ Ingest(p) \/ Anchor(p) \/ Keeps(p) \/ Decides(p)
         \/ (MoveOn(p) /\ (Decide(p) \/ Rename(p)))
<1> USE DEF At
<1>1. proc[p] \in Processes /\ proc \in [Procs -> Processes]
  BY RowOf DEF TypeOK
<1>2. Idle.cmd = "none"
  BY DEF Idle
<1>3. ~ Quit(p)
  BY <1>1, <1>2 DEF Quit
<1>4. ASSUME NEW pc \in {"wait", "steal", "held"}, Goto(p, pc), proc[p].pc \in {"wait", "steal", "held"}
      PROVE  Keeps(p)
  BY <1>1, <1>4 DEF Goto, Keeps, Processes
<1>5. ASSUME NEW user, Ready(p, user), proc[p].pc \in {"wait", "auth", "held", "asking", "saving"} PROVE Keeps(p)
  <2>1. /\ proc'[p].pc = "ready" /\ proc'[p].lock = proc[p].lock /\ proc'[p].file = proc[p].file
        /\ proc'[p].version = proc[p].version /\ proc'[p].from = proc[p].from /\ proc'[p].upto = proc[p].upto
        /\ proc'[p].cmd = proc[p].cmd
    BY <1>1, <1>5 DEF Ready, Processes
  <2> QED BY <1>5, <2>1 DEF Keeps
<1>6. CASE TakeLock(p) \/ SeeStale(p) \/ RemoveStale(p)
  BY <1>4, <1>6 DEF TakeLock, SeeStale, RemoveStale
<1>7. CASE GiveUp(p)
  <2>1. CASE proc[p].cmd = "logout" /\ Goto(p, "clear")
    BY <1>1, <2>1, EndsAt
  <2>2. CASE WithoutRefresh(p)
    BY <1>3, <1>5, <1>7, <2>2 DEF GiveUp, WithoutRefresh
  <2> QED BY <1>3, <1>7, <2>1, <2>2 DEF GiveUp
<1>8. CASE \/ Crash(p) \/ Unauthenticated(p) \/ Done(p) \/ SignInFails(p) \/ SaveLogin(p) \/ SaveService(p)
           \/ ClearService(p) \/ IngestLost(p)
  BY <1>3, <1>8 DEF Crash, Unauthenticated, Done, SignInFails, SaveLogin, SaveService, ClearService, IngestLost
<1>9. CASE StartCall(p) \/ StartLogin(p) \/ StartLogout(p) \/ StartAuth(p)
  <2>1. PICK cmd \in {"call", "login", "logout", "set", "unset"}, first \in Processes :
             proc' = [proc EXCEPT ![p] = [first EXCEPT !.cmd = cmd]]
    <3>1. \A pc \in {"auth", "browser", "wait", "clear"} : [Idle EXCEPT !.pc = pc] \in Processes
      BY IdleRow DEF Processes
    <3> QED BY <1>9, <3>1 DEF StartCall, StartLogin, StartLogout, StartAuth, Start
  <2>2. proc'[p].cmd = cmd
    BY <1>1, <2>1 DEF Processes
  <2> QED BY <2>2
<1>10. CASE Authorized(p)
  BY <1>5, <1>10 DEF Authorized
<1>11. CASE NeedsRefresh(p)
  <2> DEFINE r == [proc[p] EXCEPT !.pc = "wait", !.lock = "credentials", !.seen = creds]
  <2>1. proc'[p] = r
    BY <1>1, <1>11 DEF NeedsRefresh, Processes
  <2>2. /\ r.pc = "wait" /\ r.lock = "credentials" /\ r.cmd = proc[p].cmd
        /\ r.file = proc[p].file /\ r.version = proc[p].version /\ r.from = proc[p].from /\ r.upto = proc[p].upto
    BY <1>1 DEF Processes
  <2> HIDE DEF r
  <2> QED BY <1>11, <2>1, <2>2 DEF NeedsRefresh, Keeps
<1>12. CASE Latest(p)
  <2>1. CASE WithoutRefresh(p)
    BY <1>3, <1>5, <1>12, <2>1 DEF Latest, WithoutRefresh
  <2>2. CASE \E user : Ready(p, user)
    BY <1>5, <1>12, <2>2 DEF Latest
  <2>3. CASE proc' = [proc EXCEPT ![p].pc = "asking", ![p].grant = creds]
    BY <1>1, <1>12, <2>3 DEF Latest, Keeps, Processes
  <2> QED BY <1>12, <2>1, <2>2, <2>3 DEF Latest
<1>13. CASE Rotate(p)
  BY <1>1, <1>13 DEF Rotate, Keeps, Processes
<1>14. CASE Refuse(p) \/ RefreshLost(p)
  BY <1>3, <1>5, <1>14 DEF Refuse, RefreshLost, WithoutRefresh
<1>15. CASE SaveRefreshed(p)
  BY <1>5, <1>15 DEF SaveRefreshed
<1>16. CASE Exchange(p) \/ LogoutHeld(p) \/ Revoke(p) \/ RevokeLost(p)
  <2>1. proc'[p].cmd = proc[p].cmd
    BY <1>1, <1>16 DEF Exchange, LogoutHeld, Revoke, RevokeLost, Goto, Processes
  <2> QED BY <1>16, <2>1 DEF Exchange, LogoutHeld, Revoke, RevokeLost, PlaceSound
<1>17. CASE Clear(p)
  BY <1>1, <1>17 DEF Clear, Idle
<1>18. CASE Decide(p) \/ Rename(p)
  BY <1>18 DEF Decide, Decides, Rename
<1> QED BY <1>6, <1>7, <1>8, <1>9, <1>10, <1>11, <1>12, <1>13, <1>14, <1>15, <1>16, <1>17, <1>18 DEF Step

LEMMA StartedHook ==
  ASSUME TypeOK, NEW p \in Procs, StartHook(p)
  PROVE  LET point == points[Identity]
         IN  /\ proc'[p].pc = "read" /\ proc'[p].lock = "credentials" /\ proc'[p].file = Current
             /\ proc'[p].version = 0
             /\ proc'[p].from = IF Names(point, Current) THEN point.offset ELSE 0
<1> DEFINE from == IF Names(points[Identity], Current) THEN points[Identity].offset ELSE 0
           first == [Idle EXCEPT !.pc = "read", !.for = Identity, !.file = Current,
                                 !.size = Len(Rows(Current)), !.from = from]
<1>1. proc' = [proc EXCEPT ![p] = [first EXCEPT !.cmd = "hook"]] /\ proc \in [Procs -> Processes]
  BY DEF StartHook, Start, TypeOK
<1>2. /\ first.pc = "read" /\ first.lock = "credentials" /\ first.file = Current /\ first.version = 0
      /\ first.from = from
  BY DEF Idle
<1>3. proc'[p] = [first EXCEPT !.cmd = "hook"]
  BY <1>1
<1>4. LET r == [first EXCEPT !.cmd = "hook"]
      IN  r.pc = "read" /\ r.lock = "credentials" /\ r.file = Current /\ r.version = 0 /\ r.from = from
  BY <1>2 DEF Idle
<1> HIDE DEF first
<1> QED BY <1>3, <1>4

LEMMA ReadHook ==
  ASSUME TypeOK, NEW p \in Procs, Read(p), proc'[p].cmd = "hook"
  PROVE  /\ proc'[p].pc \in {"auth", "wait"} /\ proc'[p].file = proc[p].file /\ proc'[p].from = proc[p].from
         /\ proc'[p].version = files[proc[p].file].version
         /\ proc'[p].upto = Batch(p)
         /\ proc'[p].lock = proc[p].lock \/ Messages(proc[p].file, proc[p].from, Batch(p)) = {}
<1> DEFINE h == proc[p]
           next == [h EXCEPT !.upto = Batch(p), !.version = files[h.file].version]
<1>1. h \in Processes /\ proc \in [Procs -> Processes]
  BY RowOf DEF TypeOK
<1>2. ~ Quit(p)
  <2>1. Idle.cmd = "none"
    BY DEF Idle
  <2> QED BY <1>1, <2>1 DEF Quit
<1>3. /\ next.pc = h.pc /\ next.lock = h.lock /\ next.file = h.file /\ next.from = h.from
      /\ next.version = files[h.file].version /\ next.upto = Batch(p) /\ next.cmd = h.cmd
      /\ DOMAIN next = DOMAIN h
  BY <1>1 DEF Processes
<1>4. CASE proc' = [proc EXCEPT ![p] = [next EXCEPT !.pc = "auth"]]
  <2>1. proc'[p] = [next EXCEPT !.pc = "auth"]
    BY <1>1, <1>4
  <2>2. LET r == [next EXCEPT !.pc = "auth"]
        IN  r.pc = "auth" /\ r.lock = h.lock /\ r.file = h.file /\ r.from = h.from
            /\ r.version = files[h.file].version /\ r.upto = Batch(p)
    BY <1>1, <1>3 DEF Processes
  <2> HIDE DEF next
  <2> QED BY <2>1, <2>2
<1>5. CASE Messages(h.file, h.from, Batch(p)) = {} /\ proc' = [proc EXCEPT ![p] = [next EXCEPT !.pc = "wait", !.lock = h.for]]
  <2>1. proc'[p] = [next EXCEPT !.pc = "wait", !.lock = h.for]
    BY <1>1, <1>5
  <2>2. LET r == [next EXCEPT !.pc = "wait", !.lock = h.for]
        IN  r.pc = "wait" /\ r.file = h.file /\ r.from = h.from
            /\ r.version = files[h.file].version /\ r.upto = Batch(p)
    BY <1>1, <1>3 DEF Processes
  <2> HIDE DEF next
  <2> QED BY <1>5, <2>1, <2>2
<1> QED BY <1>2, <1>4, <1>5 DEF Read

LEMMA AnchoredHook ==
  ASSUME TypeOK, NEW p \in Procs, Anchor(p), proc'[p].cmd = "hook"
  PROVE  /\ proc'[p].pc = "wait" /\ proc'[p].file = proc[p].file /\ proc'[p].from = proc[p].from
         /\ proc'[p].upto = proc[p].upto /\ proc'[p].version = files[proc[p].file].version
         /\ ~ (Len(Rows(proc[p].file)) < proc[p].upto)
<1> DEFINE h == proc[p]
           r == [h EXCEPT !.pc = "wait", !.lock = h.for, !.as = NoUser, !.version = files[h.file].version]
<1>1. h \in Processes /\ proc \in [Procs -> Processes]
  BY RowOf DEF TypeOK
<1>2. ~ Quit(p)
  <2>1. Idle.cmd = "none"
    BY DEF Idle
  <2> QED BY <1>1, <2>1 DEF Quit
<1>3. ~ (Len(Rows(h.file)) < h.upto) /\ proc'[p] = r
  BY <1>1, <1>2 DEF Anchor, Processes
<1>4. r.pc = "wait" /\ r.file = h.file /\ r.from = h.from /\ r.upto = h.upto /\ r.version = files[h.file].version
  BY <1>1 DEF Processes
<1> HIDE DEF r
<1> QED BY <1>3, <1>4

LEMMA MovedHook ==
  ASSUME TypeOK, NEW p \in Procs, MoveOn(p)
  PROVE  /\ proc'[p].pc = "read" /\ proc'[p].file = proc[p].file /\ proc'[p].from = proc[p].upto
         /\ proc'[p].lock = "credentials" /\ proc'[p].version = 0 /\ proc'[p].cmd = proc[p].cmd
<1> DEFINE h == proc[p]
           r == [h EXCEPT !.pc = "read", !.from = h.upto, !.lock = "credentials", !.version = 0]
<1>1. h \in Processes /\ proc \in [Procs -> Processes]
  BY RowOf DEF TypeOK
<1>2. proc'[p] = r
  BY <1>1 DEF MoveOn, Processes
<1>3. /\ r.pc = "read" /\ r.file = h.file /\ r.from = h.upto /\ r.lock = "credentials" /\ r.version = 0
      /\ r.cmd = h.cmd
  BY <1>1 DEF Processes
<1> HIDE DEF r
<1> QED BY <1>2, <1>3

LEMMA IngestedHook ==
  ASSUME TypeOK, NEW p \in Procs, Ingest(p)
  PROVE  /\ proc'[p].pc = "answered" /\ proc'[p].file = proc[p].file /\ proc'[p].from = proc[p].from
         /\ proc'[p].upto = proc[p].upto /\ proc'[p].version = proc[p].version /\ proc'[p].lock = proc[p].lock
BY RowOf DEF Ingest, Goto, TypeOK, Processes

LEMMA DecidedHook ==
  ASSUME TypeOK, NEW p \in Procs, Decides(p)
  PROVE  /\ proc'[p].pc = "rename" /\ proc'[p].file = proc[p].file /\ proc'[p].from = proc[p].from
         /\ proc'[p].upto = proc[p].upto /\ proc'[p].version = proc[p].version /\ proc'[p].lock = proc[p].lock
         /\ proc'[p].for = proc[p].for /\ proc'[p].cmd = proc[p].cmd
BY RowOf DEF Decides, Goto, TypeOK, Processes

(* The hooks name files, and versions that the files have had. *)
LEMMA HooksKeep ==
  ASSUME TypeOK, PlacesSound, HookFiles, HookVersions, [Next]_vars, TypeOK'
  PROVE  HookFiles' /\ HookVersions'
<1> DEFINE Good(r, fs) == r.file \in DOMAIN fs /\ r.version <= fs[r.file].version
<1>1. ASSUME NEW p \in Procs, proc[p].cmd = "hook", proc'[p] = proc[p] PROVE Good(proc'[p], files')
  <2>1. proc[p].file \in DOMAIN files /\ proc[p].version <= files[proc[p].file].version
    BY <1>1 DEF HookFiles, HookVersions
  <2>2. /\ proc[p].file \in DOMAIN files'
        /\ files[proc[p].file].version <= files'[proc[p].file].version
    BY <2>1, FilesStep DEF FilesGo
  <2>3. /\ proc[p].version \in Nat /\ files[proc[p].file].version \in Nat
        /\ files'[proc[p].file].version \in Nat
    BY <2>1, <2>2, RowOf, FilesType, FilesTypeAfter DEF Processes
  <2> QED BY <1>1, <2>1, <2>2, <2>3
<1>2. ASSUME NEW p \in Procs, Step(p), proc'[p].cmd = "hook" PROVE Good(proc'[p], files')
  <2>1. PlaceSound(proc[p]) /\ UNCHANGED files
    BY <1>2, OthersTyped DEF PlacesSound
  <2>2. \A f \in DOMAIN files : files[f].version \in Nat
    BY FilesType
  <2>3. CASE StartHook(p)
    <3>1. proc'[p].file = Current /\ proc'[p].version = 0 /\ Current \in DOMAIN files
      BY <2>3, StartedHook, FilesType
    <3> QED BY <2>1, <2>2, <3>1
  <2>4. CASE Read(p)
    <3>1. proc'[p].file = proc[p].file /\ proc'[p].version = files[proc[p].file].version
      BY <1>2, <2>4, ReadHook
    <3>2. proc[p].file \in DOMAIN files
      BY <2>1, <2>4 DEF HookFiles, PlaceSound, Read, At
    <3> QED BY <2>1, <2>2, <3>1, <3>2
  <2>5. CASE Anchor(p)
    <3>1. proc'[p].file = proc[p].file /\ proc'[p].version = files[proc[p].file].version
      BY <1>2, <2>5, AnchoredHook
    <3>2. proc[p].file \in DOMAIN files
      BY <2>1, <2>5 DEF HookFiles, PlaceSound, Anchor, At
    <3> QED BY <2>1, <2>2, <3>1, <3>2
  <2>6. CASE MoveOn(p)
    <3>1. proc'[p].file = proc[p].file /\ proc'[p].version = 0 /\ proc[p].cmd = "hook"
      BY <1>2, <2>6, MovedHook
    <3> QED BY <2>1, <2>2, <3>1 DEF HookFiles
  <2>7. CASE Ingest(p) \/ Keeps(p) \/ Decides(p)
    <3>1. proc'[p].file = proc[p].file /\ proc'[p].version = proc[p].version /\ proc[p].cmd = "hook"
      BY <1>2, <2>7, IngestedHook, DecidedHook DEF Ingest, Keeps
    <3> QED BY <2>1, <3>1 DEF HookFiles, HookVersions
  <2> QED BY <1>2, <2>1, <2>3, <2>4, <2>5, <2>6, <2>7, HookStep
<1>3. ASSUME NEW p \in Procs, proc'[p].cmd = "hook" PROVE Good(proc'[p], files')
  <2>1. CASE \E q \in Procs : Step(q)
    <3>1. PICK q \in Procs : Step(q)
      BY <2>1
    <3>2. PlaceSound(proc[q])
      BY DEF PlacesSound
    <3>3. CASE p = q
      BY <1>2, <1>3, <3>1, <3>3
    <3>4. CASE p # q
      BY <1>1, <1>3, <3>1, <3>2, <3>4, RowsStep
    <3> QED BY <3>3, <3>4
  <2>2. CASE Age \/ Grow \/ Replace \/ Rewrite \/ UNCHANGED vars
    <3>1. UNCHANGED proc
      BY <2>2 DEF Age, Grow, Replace, Rewrite, vars
    <3> QED BY <1>1, <1>3, <3>1
  <2> QED BY <2>1, <2>2 DEF Next
<1> QED BY <1>3 DEF HookFiles, HookVersions

(* The checkpoints name files, and rows that their versions have had. *)
LEMMA PointsStep ==
  ASSUME NEW p \in Procs, Step(p)
  PROVE  UNCHANGED points \/ Rename(p)
BY DEF Step, transcript, TakeLock, SeeStale, RemoveStale, GiveUp, Crash, StartCall, Authorized, NeedsRefresh,
       Unauthenticated, Latest, Rotate, Refuse, RefreshLost, SaveRefreshed, Done, StartLogin, Exchange,
       SignInFails, SaveLogin, StartLogout, LogoutHeld, Revoke, RevokeLost, Clear, StartAuth, SaveService,
       ClearService, StartHook, Read, Ingest, IngestLost, Anchor, Decide

LEMMA PointsKeep ==
  ASSUME TypeOK, PlacesSound, HookFiles, HookVersions, PointsSound, [Next]_vars, TypeOK'
  PROVE  PointsSound'
<1>0. UNCHANGED Destinations
  BY DEF Destinations
<1>1. ASSUME NEW d \in Destinations, points'[d] = points[d] PROVE PointSound(d)'
  <2>1. PICK f \in Nat, v \in Nat, n \in Nat : f = points[d].file /\ v = points[d].version /\ n = points[d].offset
    BY PointType
  <2>2. f <= Current /\ Current <= Current' /\ Current \in Nat /\ Current' \in Nat
    BY <2>1, FilesStep, FilesType, FilesTypeAfter DEF PointsSound, PointSound, FilesGo
  <2>3. CASE f # 0
    <3>1. /\ f \in DOMAIN files /\ v <= files[f].version
          /\ v = files[f].version => n <= Len(Rows(f))
      BY <2>1, <2>2, <2>3, PointType DEF PointsSound, PointSound
    <3>2. /\ f \in DOMAIN files' /\ files[f].version <= files'[f].version
          /\ files'[f].version = files[f].version => Len(Rows(f)) <= Len(Rows(f)')
      BY <3>1, FilesStep DEF FilesGo
    <3>3. /\ files[f].version \in Nat /\ files'[f].version \in Nat
          /\ Len(Rows(f)) \in Nat /\ Len(Rows(f)') \in Nat
      BY <3>1, <3>2, FilesType, FilesTypeAfter
    <3>4. v <= files'[f].version /\ (v = files'[f].version => n <= Len(Rows(f)'))
      BY <3>1, <3>2, <3>3
    <3>5. f <= Current'
      BY <2>2
    <3> QED BY <1>1, <2>1, <3>4, <3>5 DEF PointSound, Rows
  <2>4. CASE f = 0
    BY <1>1, <2>1, <2>2, <2>4 DEF PointSound
  <2> QED BY <2>3, <2>4
<1>2. ASSUME NEW p \in Procs, Rename(p), NEW d \in Destinations, points'[d] # points[d] PROVE PointSound(d)'
  <2>1. points'[d] = Value(p) /\ StillCurrent(Value(p)) /\ UNCHANGED files
    BY <1>2 DEF Rename, TypeOK
  <2>2. proc[p].cmd = "hook" /\ proc[p].version <= files[proc[p].file].version
    BY <1>2 DEF Rename, At, PlacesSound, PlaceSound, HookVersions
  <2>3. proc[p].file = Current /\ proc[p].upto <= Len(files[proc[p].file].rows)
    BY <2>1 DEF StillCurrent, Names, Value
  <2>4. Current <= Current /\ Current' = Current
    BY <2>1, FilesType DEF Current
  <2> QED BY <2>1, <2>2, <2>3, <2>4 DEF PointSound, Value, Rows
<1>3. CASE \E p \in Procs : Step(p)
  BY <1>0, <1>1, <1>2, <1>3, PointsStep DEF PointsSound
<1>4. CASE Age \/ Grow \/ Replace \/ Rewrite \/ UNCHANGED vars
  <2>1. UNCHANGED points
    BY <1>4 DEF Age, Grow, Replace, Rewrite, transcript, vars
  <2> QED BY <1>0, <1>1, <2>1 DEF PointsSound
<1> QED BY <1>3, <1>4 DEF Next

(* As long as nobody dies, a checkpoint that is to be replaced is not newer. *)
RenamesSound == \A p \in Procs : proc[p].pc = "rename" => ~ Newer(p)

LEMMA RenamesKeep ==
  ASSUME TypeOK, PlacesSound, HookFiles, PointsSound, LocksSound, RenamesSound, [Next]_vars, TypeOK', PlacesSound',
         faults' = 0
  PROVE  RenamesSound'
<1>1. ASSUME NEW p \in Procs, Step(p), NEW q \in Procs, proc'[q].pc = "rename" PROVE ~ Newer(q)'
  <2>1. PlaceSound(proc[p]) /\ UNCHANGED files /\ proc'[q].cmd = "hook"
    BY <1>1, OthersTyped DEF PlacesSound, PlaceSound
  <2>2. CASE q = p
    <3>1. Decides(p)
      BY <1>1, <2>1, <2>2, HookStep, StartedHook, ReadHook, AnchoredHook, MovedHook, IngestedHook DEF Keeps
    <3>2. UNCHANGED <<files, points>> /\ ~ Newer(p)
      BY <3>1 DEF Decides, Decide, transcript
    <3> QED BY <2>2, <3>1, <3>2, DecidedHook DEF Newer, StillCurrent, Names, Current
  <2>3. CASE q # p
    <3>1. proc'[q] = proc[q] /\ proc[q].pc = "rename"
      BY <1>1, <2>1, <2>3, RowsStep
    <3>2. ~ Newer(q) /\ locks[proc[q].lock] = q /\ proc[q].lock = proc[q].for
      BY <3>1 DEF RenamesSound, LocksSound, InLock, PlacesSound, PlaceSound
    <3>3. points'[proc[q].for] = points[proc[q].for]
      <4>1. CASE Rename(p)
        <5>1. proc[p].pc = "rename"
          BY <4>1 DEF Rename, At
        <5>2. locks[proc[p].lock] = p /\ proc[p].lock = proc[p].for
          BY <5>1 DEF LocksSound, InLock, PlacesSound, PlaceSound
        <5>3. proc[p].for # proc[q].for /\ proc[q].for \in Destinations
          BY <2>3, <3>2, <5>2, RowOf DEF Processes
        <5> QED BY <4>1, <5>3 DEF Rename, TypeOK
      <4> QED BY <1>1, <4>1, PointsStep
    <3> QED BY <2>1, <3>1, <3>2, <3>3 DEF Newer, StillCurrent, Names, Current
  <2> QED BY <2>2, <2>3
<1>2. ASSUME Age \/ Grow \/ Replace \/ Rewrite \/ UNCHANGED vars, NEW q \in Procs, proc'[q].pc = "rename", Newer(q)'
      PROVE  FALSE
  <2>1. UNCHANGED <<proc, points>>
    BY <1>2 DEF Age, Grow, Replace, Rewrite, transcript, vars
  <2>2. proc[q].for \in Destinations /\ PointSound(proc[q].for) /\ ~ Newer(q)
    BY <1>2, <2>1, RowOf DEF PointsSound, RenamesSound, Processes
  <2>3. StillCurrent(points[proc[q].for])'
    BY <1>2 DEF Newer
  <2> DEFINE d == proc[q].for
  <2>4. PICK e \in Destinations : e = d
    BY <2>2
  <2>5. PointSound(e) /\ StillCurrent(points[e])'
    BY <2>1, <2>2, <2>3, <2>4 DEF StillCurrent, Names, Current
  <2>6. StillCurrent(points[e])
    BY <2>1, <2>5, FilesStep, HeldBefore
  <2> QED BY <1>2, <2>1, <2>2, <2>4, <2>6 DEF Newer
<1> QED BY <1>1, <1>2 DEF RenamesSound, Next

------------------------------------------------------------------------------
(* What the memory server has accepted, unless a file is rewritten under a hook. *)
Accepted(f, n) ==
  \A i \in Messages(f, 0, n) : \E e \in Destinations : <<e, f, files[f].version, i>> \in ingested

(* Everything before a hook's batch was accepted, and the batch once it is answered. *)
HookSound(p) ==
  LET h == proc[p] IN
  /\ h.from <= Len(Rows(h.file)) /\ Accepted(h.file, h.from)
  /\ h.pc # "read" => h.version = files[h.file].version /\ h.from <= h.upto /\ h.upto <= Len(Rows(h.file))
  /\ h.pc = "answered" \/ h.lock # "credentials" => Accepted(h.file, h.upto)

HooksSound == \A p \in Procs : proc[p].cmd = "hook" => HookSound(p)

LEMMA IngestedGrows == ASSUME [Next]_vars PROVE ingested \subseteq ingested'
<1>1. ASSUME NEW p \in Procs, Step(p) PROVE ingested \subseteq ingested'
  BY <1>1
     DEF Step, transcript, TakeLock, SeeStale, RemoveStale, GiveUp, Crash, StartCall, Authorized, NeedsRefresh,
         Unauthenticated, Latest, Rotate, Refuse, RefreshLost, SaveRefreshed, Done, StartLogin, Exchange,
         SignInFails, SaveLogin, StartLogout, LogoutHeld, Revoke, RevokeLost, Clear, StartAuth, SaveService,
         ClearService, StartHook, Read, Ingest, IngestLost, Anchor, Decide, Rename
<1>2. CASE Age \/ Grow \/ Replace \/ Rewrite \/ UNCHANGED vars
  BY <1>2 DEF Age, Grow, Replace, Rewrite, transcript, vars
<1> QED BY <1>1, <1>2 DEF Next

(* What was accepted of a version stays accepted. *)
LEMMA AcceptedKeeps ==
  ASSUME TypeOK, [Next]_vars, NEW f \in DOMAIN files, NEW n \in Nat, n <= Len(Rows(f)), Accepted(f, n),
         files'[f].version = files[f].version
  PROVE  Accepted(f, n)'
<1>1. ASSUME NEW i \in Messages(f, 0, n)' PROVE i \in Messages(f, 0, n)
  <2>1. Len(Rows(f)) \in Nat
    BY FilesType
  <2>2. i \in 1..n /\ Rows(f)'[i] = "message"
    BY DEF Messages, Rows
  <2>3. i \in 1..Len(Rows(f))
    BY <2>1, <2>2
  <2>4. Rows(f)'[i] = Rows(f)[i]
    BY <2>3, FilesStep DEF FilesGo
  <2> QED BY <2>2, <2>4 DEF Messages
<1> QED BY <1>1, IngestedGrows DEF Accepted, Destinations

LEMMA NoRows == \A f : Accepted(f, 0)
BY DEF Accepted, Messages

LEMMA VersionsStay ==
  ASSUME TypeOK, ~ InFlight, NEW p \in Procs, proc[p].cmd = "hook", [Next]_vars
  PROVE  \A f \in DOMAIN files : files'[f].version = files[f].version
<1>1. ~ Rewrite
  BY DEF Rewrite
<1>2. ASSUME NEW q \in Procs, Step(q) PROVE \A f \in DOMAIN files : files'[f].version = files[f].version
  <2>1. UNCHANGED files
    BY <1>2
       DEF Step, transcript, TakeLock, SeeStale, RemoveStale, GiveUp, Crash, StartCall, Authorized, NeedsRefresh,
           Unauthenticated, Latest, Rotate, Refuse, RefreshLost, SaveRefreshed, Done, StartLogin, Exchange,
           SignInFails, SaveLogin, StartLogout, LogoutHeld, Revoke, RevokeLost, Clear, StartAuth, SaveService,
           ClearService, StartHook, Read, Ingest, IngestLost, Anchor, Decide, Rename
  <2> QED BY <2>1
<1>3. CASE Age \/ UNCHANGED vars
  BY <1>3 DEF Age, transcript, vars
<1>4. CASE Grow
  <2>1. PICK kind : files' = [files EXCEPT ![Current].rows = Append(@, kind)]
    BY <1>4 DEF Grow
  <2>2. files \in Seq(FileType) /\ files[Current] \in FileType
    BY FilesType
  <2> QED BY <2>1, <2>2 DEF FileType
<1>5. CASE Replace
  <2>1. files \in Seq(FileType) /\ files' = Append(files, [version |-> 1, rows |-> <<"message">>])
    BY <1>5, FilesType DEF Replace
  <2> QED BY <2>1
<1> QED BY <1>1, <1>2, <1>3, <1>4, <1>5 DEF Next

LEMMA HookNumbers ==
  ASSUME TypeOK, NEW p \in Procs, proc[p].file \in DOMAIN files
  PROVE  /\ proc[p].from \in Nat /\ proc[p].upto \in Nat /\ proc[p].version \in Nat
         /\ Len(Rows(proc[p].file)) \in Nat /\ proc[p].file \in Nat
BY RowOf, FilesType DEF Processes

(* A hook that does not move. *)
LEMMA HookSoundStays ==
  ASSUME TypeOK, ~ InFlight, NEW p \in Procs, proc[p].cmd = "hook", HookFiles, PlaceSound(proc[p]), HookSound(p),
         [Next]_vars,
         proc'[p] = proc[p], TypeOK'
  PROVE  HookSound(p)'
<1>1. PICK f, from, upto : f = proc[p].file /\ from = proc[p].from /\ upto = proc[p].upto
  OBVIOUS
<1>2. f \in DOMAIN files /\ from \in Nat /\ upto \in Nat /\ Len(Rows(f)) \in Nat
  BY <1>1, HookNumbers DEF HookFiles
<1>3. files'[f].version = files[f].version
  BY <1>2, VersionsStay
<1>4. f \in DOMAIN files' /\ Len(Rows(f)) <= Len(Rows(f)')
  BY <1>2, <1>3, FilesStep DEF FilesGo
<1>5. Len(Rows(f)') \in Nat
  BY <1>4, FilesTypeAfter
<1>6. from <= Len(Rows(f)) /\ Accepted(f, from)
  BY <1>1 DEF HookSound
<1>7. from <= Len(Rows(f)') /\ Accepted(f, from)'
  BY <1>2, <1>3, <1>4, <1>5, <1>6, AcceptedKeeps
<1>8. proc[p].pc # "read" => /\ proc[p].version = files'[f].version /\ from <= upto
                             /\ upto <= Len(Rows(f)) /\ upto <= Len(Rows(f)')
  BY <1>1, <1>2, <1>3, <1>4, <1>5 DEF HookSound
<1>9. ASSUME proc[p].pc = "answered" \/ proc[p].lock # "credentials" PROVE Accepted(f, upto)'
  <2>1. Accepted(f, upto) /\ upto <= Len(Rows(f))
    BY <1>1, <1>8, <1>9 DEF HookSound, PlaceSound
  <2> QED BY <1>2, <1>3, <2>1, AcceptedKeeps
<1> QED BY <1>1, <1>7, <1>8, <1>9 DEF HookSound, Accepted, Messages, Rows

(* A hook that moves. *)
LEMMA HookSoundMoves ==
  ASSUME TypeOK, ~ InFlight, HookFiles, HooksSound, NothingSkipped, NEW p \in Procs, PlaceSound(proc[p]), Step(p),
         proc'[p].cmd = "hook"
  PROVE  HookSound(p)'
<1> USE DEF At
<1>1. UNCHANGED files /\ ingested \subseteq ingested'
  BY OthersTyped, IngestedGrows DEF Next
<1>2. ASSUME NEW f, NEW n, Accepted(f, n) PROVE Accepted(f, n)'
  BY <1>1, <1>2 DEF Accepted, Messages, Rows, Destinations
<1>3. ASSUME NEW f, f = proc'[p].file,
             NEW from, from = proc'[p].from, from <= Len(Rows(f)), Accepted(f, from),
             NEW upto, upto = proc'[p].upto,
             proc'[p].pc # "read" => proc'[p].version = files[f].version /\ from <= upto /\ upto <= Len(Rows(f)),
             proc'[p].pc = "answered" \/ proc'[p].lock # "credentials" => Accepted(f, upto)'
      PROVE  HookSound(p)'
  BY <1>1, <1>2, <1>3 DEF HookSound, Rows, Accepted, Messages
<1>4. PICK f, from, upto : f = proc[p].file /\ from = proc[p].from /\ upto = proc[p].upto
  OBVIOUS
<1>5. proc[p].cmd = "hook" => /\ f \in DOMAIN files /\ from \in Nat /\ upto \in Nat /\ Len(Rows(f)) \in Nat
                              /\ from <= Len(Rows(f)) /\ Accepted(f, from)
                              /\ proc[p].pc # "read" => proc[p].version = files[f].version /\ from <= upto
                                                        /\ upto <= Len(Rows(f))
                              /\ proc[p].pc = "answered" \/ proc[p].lock # "credentials" => Accepted(f, upto)
  BY <1>4, HookNumbers DEF HooksSound, HookSound, HookFiles
<1>6. CASE StartHook(p)
  <2>1. PICK d \in Destinations : d = Identity
    BY IdentityType
  <2>2. PICK k : k = IF Names(points[d], Current) THEN points[d].offset ELSE 0
    OBVIOUS
  <2>3. /\ proc'[p].pc = "read" /\ proc'[p].lock = "credentials" /\ proc'[p].file = Current
        /\ proc'[p].from = k
    BY <1>6, <2>1, <2>2, StartedHook
  <2>4. k <= Len(Rows(Current)) /\ Accepted(Current, k)
    <3>1. CASE Names(points[d], Current)
      <4>1. k = points[d].offset /\ points[d].offset <= Len(Rows(Current))
        BY <2>2, <3>1 DEF Names, Rows
      <4>2. Accepted(Current, points[d].offset)
        BY <3>1 DEF NothingSkipped, Accepted
      <4> QED BY <4>1, <4>2
    <3>2. CASE ~ Names(points[d], Current)
      BY <2>2, <3>2, NoRows, FilesType
    <3> QED BY <3>1, <3>2
  <2> QED BY <1>3, <2>3, <2>4
<1>7. CASE Read(p)
  <2>1. proc[p].cmd = "hook" /\ proc[p].lock = "credentials"
    BY <1>7 DEF Read, PlaceSound
  <2>2. PICK k : k = Batch(p)
    OBVIOUS
  <2>3. k \in Nat /\ from <= k /\ k <= Len(Rows(f))
    BY <1>4, <1>5, <2>1, <2>2, BatchBounds
  <2>4. /\ proc'[p].pc \in {"auth", "wait"} /\ proc'[p].file = f /\ proc'[p].from = from
        /\ proc'[p].version = files[f].version /\ proc'[p].upto = k
        /\ proc'[p].lock = "credentials" \/ Messages(f, from, k) = {}
    BY <1>4, <1>7, <2>1, <2>2, ReadHook
  <2>5. ASSUME Messages(f, from, k) = {} PROVE Accepted(f, k)
    <3>1. \A i \in Messages(f, 0, k) : i \in Messages(f, 0, from) \/ i \in Messages(f, from, k)
      BY <1>5, <2>1, <2>3 DEF Messages
    <3> QED BY <1>5, <2>1, <2>5, <3>1 DEF Accepted
  <2>6. proc'[p].lock # "credentials" => Accepted(f, k)'
    BY <1>2, <2>4, <2>5
  <2> QED BY <1>3, <1>5, <2>1, <2>3, <2>4, <2>6
<1>8. CASE Ingest(p)
  <2>1. proc[p].cmd = "hook" /\ proc[p].pc = "ready" /\ ingested' = ingested \cup Sent(p)
    BY <1>8 DEF Ingest
  <2>2. proc[p].as \in Destinations /\ proc[p].lock = "credentials"
    BY <2>1, RowOf DEF Processes, PlaceSound
  <2>3. ASSUME NEW i \in Messages(f, 0, upto) PROVE \E e \in Destinations : <<e, f, files[f].version, i>> \in ingested'
    <3>1. CASE i \in Messages(f, 0, from)
      BY <1>1, <1>5, <2>1, <3>1 DEF Accepted
    <3>2. CASE i \notin Messages(f, 0, from)
      <4>1. i \in (from + 1)..upto
        BY <1>5, <2>1, <3>2 DEF Messages
      <4>2. <<proc[p].as, f, files[f].version, i>> \in Sent(p)
        BY <1>4, <1>5, <2>1, <4>1 DEF Sent
      <4> QED BY <2>1, <2>2, <4>2
    <3> QED BY <3>1, <3>2
  <2>4. Accepted(f, upto)'
    BY <1>1, <2>3 DEF Accepted, Messages, Rows, Destinations
  <2> QED BY <1>3, <1>4, <1>5, <1>8, <2>1, <2>4, IngestedHook
<1>9. CASE Anchor(p)
  <2>1. proc[p].cmd = "hook" /\ proc[p].pc = "answered"
    BY <1>9 DEF Anchor, PlaceSound
  <2>2. /\ proc'[p].pc = "wait" /\ proc'[p].file = f /\ proc'[p].from = from
        /\ proc'[p].upto = upto /\ proc'[p].version = files[f].version
    BY <1>4, <1>9, AnchoredHook
  <2>3. Accepted(f, upto)'
    BY <1>2, <1>5, <2>1
  <2> QED BY <1>3, <1>5, <2>1, <2>2, <2>3
<1>10. CASE MoveOn(p) /\ (Decide(p) \/ Rename(p))
  <2>1. proc[p].cmd = "hook" /\ proc[p].lock # "credentials" /\ proc[p].pc # "read"
    <3>1. CASE Decide(p)
      BY <3>1 DEF Decide, PlaceSound
    <3>2. CASE Rename(p)
      BY <3>2, RowOf, Names0 DEF Rename, PlaceSound, Processes
    <3> QED BY <1>10, <3>1, <3>2
  <2>2. /\ proc'[p].pc = "read" /\ proc'[p].file = f /\ proc'[p].from = upto
        /\ proc'[p].lock = "credentials"
    BY <1>4, <1>10, MovedHook
  <2>3. upto <= Len(Rows(f)) /\ Accepted(f, upto)
    BY <1>5, <2>1
  <2> QED BY <1>3, <2>2, <2>3
<1>11. CASE Keeps(p)
  <2>1. /\ proc[p].cmd = "hook" /\ proc[p].pc # "read"
        /\ proc'[p].pc # "answered" /\ (proc'[p].lock # "credentials" => proc[p].lock # "credentials")
        /\ proc'[p].file = f /\ proc'[p].version = proc[p].version /\ proc'[p].from = from /\ proc'[p].upto = upto
    BY <1>4, <1>11 DEF Keeps
  <2>2. proc'[p].lock # "credentials" => Accepted(f, upto)'
    BY <1>2, <1>5, <2>1
  <2> QED BY <1>3, <1>5, <2>1, <2>2
<1>12. CASE Decides(p)
  <2>1. proc[p].pc = "held" /\ proc[p].lock # "credentials" /\ proc[p].cmd = "hook"
    BY <1>12 DEF Decides, Decide, PlaceSound
  <2>2. Accepted(f, upto)'
    BY <1>2, <1>5, <2>1
  <2> QED BY <1>3, <1>4, <1>5, <1>12, <2>1, <2>2, DecidedHook
<1> QED BY <1>6, <1>7, <1>8, <1>9, <1>10, <1>11, <1>12, HookStep

LEMMA HooksSoundKeep ==
  ASSUME TypeOK, ~ InFlight, PlacesSound, HookFiles, HooksSound, NothingSkipped, [Next]_vars, TypeOK'
  PROVE  HooksSound'
<1>1. ASSUME NEW p \in Procs, Step(p), NEW q \in Procs, proc'[q].cmd = "hook" PROVE HookSound(q)'
  <2>1. PlaceSound(proc[p]) /\ PlaceSound(proc[q])
    BY DEF PlacesSound
  <2>2. CASE q = p
    BY <1>1, <2>1, <2>2, HookSoundMoves
  <2>3. CASE q # p
    <3>1. proc'[q] = proc[q]
      BY <1>1, <2>1, <2>3, RowsStep
    <3> QED BY <1>1, <2>1, <3>1, HookSoundStays DEF HooksSound
  <2> QED BY <2>2, <2>3
<1>2. ASSUME Age \/ Grow \/ Replace \/ Rewrite \/ UNCHANGED vars, NEW q \in Procs, proc'[q].cmd = "hook"
      PROVE  HookSound(q)'
  <2>1. PlaceSound(proc[q]) /\ proc'[q] = proc[q]
    BY <1>2 DEF PlacesSound, Age, Grow, Replace, Rewrite, vars
  <2> QED BY <1>2, <2>1, HookSoundStays DEF HooksSound
<1> QED BY <1>1, <1>2 DEF HooksSound, Next

(* The checkpoints follow what was accepted. *)
LEMMA NothingSkippedKeeps ==
  ASSUME TypeOK, ~ InFlight, PlacesSound, HookFiles, HooksSound, PointsSound, NothingSkipped, [Next]_vars, TypeOK'
  PROVE  NothingSkipped'
<1>0. UNCHANGED Destinations
  BY DEF Destinations
<1>1. ASSUME NEW d \in Destinations, Names(points[d], Current)', points'[d] = points[d],
             NEW n \in Nat, n = points[d].offset, NEW c, c = Current'
      PROVE  Accepted(c, n)'
  <2>1. StillCurrent(points[d])'
    BY <1>1 DEF StillCurrent, Names, Current
  <2>2. /\ StillCurrent(points[d]) /\ Current = c
        /\ n = 0 \/ files'[Current].version = files[Current].version
    BY <1>1, <2>1, FilesStep, HeldBefore DEF PointsSound
  <2>3. Names(points[d], Current) /\ n <= Len(Rows(Current))
    BY <1>1, <2>2 DEF StillCurrent, Names, Rows
  <2>4. Accepted(Current, n)
    BY <1>1, <2>3 DEF NothingSkipped, Accepted
  <2>5. c \in DOMAIN files
    BY <2>2, FilesType
  <2>6. CASE n = 0
    <3>1. Messages(c, 0, 0)' = {}
      BY DEF Messages
    <3> QED BY <2>6, <3>1 DEF Accepted
  <2>7. CASE n # 0
    BY <1>1, <2>2, <2>3, <2>4, <2>5, <2>7, AcceptedKeeps
  <2> QED BY <2>6, <2>7
<1>2. ASSUME NEW d \in Destinations, NEW p \in Procs, Rename(p), points'[d] # points[d],
             NEW n, n = points'[d].offset, NEW c, c = Current'
      PROVE  Accepted(c, n)'
  <2>1. points'[d] = Value(p) /\ StillCurrent(Value(p)) /\ UNCHANGED <<files, ingested>> /\ proc[p].pc = "rename"
    BY <1>2 DEF Rename, TypeOK, At
  <2>2. proc[p].cmd = "hook" /\ proc[p].lock # "credentials"
    BY <2>1, RowOf, Names0 DEF PlacesSound, PlaceSound, Processes
  <2>3. Accepted(proc[p].file, proc[p].upto) /\ proc[p].file = Current
    BY <2>1, <2>2 DEF HooksSound, HookSound, StillCurrent, Value
  <2>4. n = proc[p].upto /\ c = proc[p].file
    BY <1>2, <2>1, <2>3 DEF Value, Current
  <2>5. Accepted(c, n)
    BY <2>3, <2>4
  <2> QED BY <2>1, <2>5 DEF Accepted, Messages, Rows, Destinations
<1>3. ASSUME NEW d \in Destinations, Names(points[d], Current)', NEW n, n = points'[d].offset, NEW c, c = Current'
      PROVE  Accepted(c, n)'
  <2>1. CASE points'[d] = points[d]
    <3>1. n \in Nat /\ n = points[d].offset
      BY <1>3, <2>1, PointType
    <3> QED BY <1>1, <1>3, <2>1, <3>1
  <2>2. CASE points'[d] # points[d]
    <3>1. PICK p \in Procs : Rename(p)
      BY <2>2, PointsStep DEF Next, Age, Grow, Replace, Rewrite, transcript, vars
    <3> QED BY <1>2, <1>3, <2>2, <3>1
  <2> QED BY <2>1, <2>2
<1>4. ASSUME NEW d \in Destinations, Names(points[d], Current)',
             NEW n, n = points'[d].offset, NEW c, c = Current', NEW i \in Messages(c, 0, n)'
      PROVE  \E e \in Destinations : <<e, c, files'[c].version, i>> \in ingested'
  BY <1>0, <1>3, <1>4 DEF Accepted
<1> QED BY <1>0, <1>4 DEF NothingSkipped

------------------------------------------------------------------------------
(* The inductive invariant. *)
FilesSound == HookFiles /\ HookVersions /\ PointsSound
SessionsSound == SessionsBorn /\ SignInsOwn
Trusted == faults = 0 => LocksSound /\ TokensSound /\ RenamesSound
NoneSkipped == ~ InFlight => HooksSound /\ NothingSkipped

ClientInv == TypeOK /\ PlacesSound /\ FilesSound /\ SessionsSound /\ Trusted /\ NoneSkipped

LEMMA FaultsGrow == ASSUME TypeOK, [Next]_vars, faults' = 0 PROVE faults = 0
<1>1. ASSUME NEW p \in Procs, Step(p) PROVE Fault \/ UNCHANGED faults
  BY <1>1
     DEF Step, TakeLock, SeeStale, RemoveStale, GiveUp, Crash, StartCall, Authorized, NeedsRefresh,
         Unauthenticated, Latest, Rotate, Refuse, RefreshLost, SaveRefreshed, Done, StartLogin, Exchange,
         SignInFails, SaveLogin, StartLogout, LogoutHeld, Revoke, RevokeLost, Clear, StartAuth, SaveService,
         ClearService, StartHook, Read, Ingest, IngestLost, Anchor, Decide, Rename
<1>2. CASE Age \/ Grow \/ Replace \/ Rewrite \/ UNCHANGED vars
  BY <1>2 DEF Age, Grow, Replace, Rewrite, vars
<1> QED BY <1>1, <1>2, NoFault DEF Next

LEMMA InitSound == Init => ClientInv
<1> SUFFICES ASSUME Init PROVE ClientInv
  OBVIOUS
<1>1. TypeOK /\ PlacesSound
  BY InitTyped
<1>2. \A p \in Procs : proc[p] = Idle
  BY DEF Init
<1>3. Idle.pc = "idle" /\ Idle.cmd = "none" /\ Idle.grant.session = 0
  BY DEF Idle, NoCreds
<1>4. \A d \in Destinations : points[d] = NoPoint
  BY DEF Init
<1>5. FilesSound
  <2>1. PointsSound
    BY <1>1, <1>4, FilesType DEF PointsSound, PointSound, NoPoint
  <2> QED BY <1>2, <1>3, <2>1 DEF FilesSound, HookFiles, HookVersions
<1>6. SessionsSound
  <2>1. creds.session = 1 /\ issuer[1].state = "live"
    BY ClientAssumption DEF Init
  <2>2. SessionsBorn
    BY <1>2, <1>3, <2>1 DEF SessionsBorn
  <2> QED BY <1>2, <1>3, <2>2 DEF SessionsSound, SignInsOwn, SignedIn
<1>7. Trusted
  <2>1. \A l \in LockNames : locks[l] = "free"
    BY DEF Init
  <2>2. LocksSound
    BY <1>2, <1>3, <2>1, ClientAssumption DEF LocksSound, InLock
  <2>3. issuer[1].gen = 1 /\ creds.session = 1 /\ creds.gen = 1
    BY ClientAssumption DEF Init
  <2>4. ~ replayed
    BY DEF Init
  <2>5. TokensSound
    BY <1>2, <1>3, <2>3, <2>4 DEF TokensSound, Refreshes
  <2>6. RenamesSound
    BY <1>2, <1>3 DEF RenamesSound
  <2> QED BY <2>2, <2>5, <2>6 DEF Trusted
<1>8. NoneSkipped
  <2>1. HooksSound
    BY <1>2, <1>3 DEF HooksSound
  <2>2. \A d \in Destinations : points[d].offset = 0
    BY <1>4 DEF NoPoint
  <2>3. NothingSkipped
    BY <2>2 DEF NothingSkipped, Messages
  <2> QED BY <2>1, <2>3 DEF NoneSkipped
<1> QED BY <1>1, <1>5, <1>6, <1>7, <1>8 DEF ClientInv

LEMMA ClientKeeps == ClientInv /\ [Next]_vars => ClientInv'
<1> SUFFICES ASSUME ClientInv, [Next]_vars PROVE ClientInv'
  OBVIOUS
<1>1. TypeOK /\ PlacesSound /\ HookFiles /\ HookVersions /\ PointsSound /\ SessionsBorn /\ SignInsOwn
  BY DEF ClientInv, FilesSound, SessionsSound
<1>2. TypeOK' /\ PlacesSound'
  BY <1>1, TypeKeeps
<1>3. FilesSound'
  BY <1>1, <1>2, HooksKeep, PointsKeep DEF FilesSound
<1>4. SessionsSound'
  BY <1>1, BornKeeps, OwnKeeps DEF SessionsSound
<1>5. ASSUME faults' = 0 PROVE LocksSound' /\ TokensSound' /\ RenamesSound'
  <2>1. LocksSound /\ TokensSound /\ RenamesSound
    BY <1>1, <1>5, FaultsGrow DEF ClientInv, Trusted
  <2>2. LocksSound'
    BY <1>1, <1>5, <2>1, LocksKeep
  <2>3. TokensSound'
    BY <1>1, <1>5, <2>1, TokensKeep
  <2>4. RenamesSound'
    BY <1>1, <1>2, <1>5, <2>1, RenamesKeep
  <2> QED BY <2>2, <2>3, <2>4
<1>6. ASSUME ~ InFlight PROVE HooksSound' /\ NothingSkipped'
  <2>1. HooksSound /\ NothingSkipped
    BY <1>6 DEF ClientInv, NoneSkipped
  <2>2. HooksSound'
    BY <1>1, <1>2, <1>6, <2>1, HooksSoundKeep
  <2>3. NothingSkipped'
    BY <1>1, <1>2, <1>6, <2>1, NothingSkippedKeeps
  <2> QED BY <2>2, <2>3
<1> QED BY <1>2, <1>3, <1>4, <1>5, <1>6 DEF ClientInv, Trusted, NoneSkipped

(* The machine: every process stands where its command takes it, every hook and every checkpoint names a file and *)
(* rows that it has had; without a death or a lost answer the locks exclude each other and every process that     *)
(* refreshes has the newest token; and without a rewrite under a hook what lies before a checkpoint was accepted. *)
THEOREM ClientSound == Spec => []ClientInv
<1> QED BY InitSound, ClientKeeps, PTL DEF Spec

(* The files, the locks, the processes and the issuer have the types the scripts give them. *)
THEOREM ClientTypeCorrect == Spec => []TypeOK
<1>1. ClientInv => TypeOK
  BY DEF ClientInv
<1> QED BY <1>1, ClientSound, PTL

(* As long as nobody dies and no answer is lost, no refresh token is presented twice, whatever number of commands *)
(* and hooks find it due at once (performTokenRefresh).                                                           *)
THEOREM OncePresented == Spec => []PresentedOnce
<1>1. ClientInv => PresentedOnce
  <2> SUFFICES ASSUME ClientInv, replayed PROVE faults > 0
    BY DEF PresentedOnce
  <2>1. faults # 0 /\ faults \in 0..MaxFaults
    BY DEF ClientInv, Trusted, TokensSound, TypeOK
  <2> QED BY <2>1, ClientAssumption
<1> QED BY <1>1, ClientSound, PTL

(* What a refresh of the session finds stored. *)
Replaceable(session) == creds.session = session \/ (creds.session = 0 /\ session \in removed)

(* Unless somebody died, a refresh writes only a session that is live at the issuer, over the credentials of that *)
(* very session or, where a logout that waited for the lock in vain has just removed these, over nothing: it       *)
(* never replaces a sign-in, nor undoes a logout that had the lock.                                               *)
THEOREM RefreshesReplaceTheirOwn == Spec => RefreshReplacesItsOwn
<1>1. ASSUME ClientInv, [Next]_vars, creds' # creds, creds'.gen > 1, creds'.age = "fresh", ~ (faults > 0)
      PROVE  Replaceable(creds'.session) /\ issuer[creds'.session].state = "live"
  <2>1. faults = 0
    BY <1>1, ClientAssumption DEF ClientInv, TypeOK
  <2>2. TypeOK /\ PlacesSound /\ TokensSound
    BY <1>1, <2>1 DEF ClientInv, Trusted
  <2>3. ASSUME NEW p \in Procs, Step(p)
        PROVE  Replaceable(creds'.session) /\ issuer[creds'.session].state = "live"
    <3>1. CASE SaveRefreshed(p)
      <4>1. Refreshes(p) /\ proc[p].pc = "saving" /\ proc[p].grant \in Credentials
        BY <2>2, <3>1, RowOf DEF SaveRefreshed, At, Refreshes, Processes
      <4>2. RefreshSound(p) /\ creds'.session = proc[p].grant.session
        BY <2>2, <3>1, <4>1 DEF TokensSound, SaveRefreshed, Credentials
      <4> QED BY <4>1, <4>2 DEF RefreshSound, Replaceable
    <3>2. CASE SaveLogin(p)
      <4>1. creds' = proc[p].grant /\ proc[p].grant.gen \in {0, 1}
        BY <2>2, <3>2 DEF SaveLogin, At, PlacesSound, PlaceSound
      <4> QED BY <1>1, <4>1
    <3>3. CASE Clear(p)
      BY <1>1, <3>3 DEF Clear, NoCreds
    <3> QED BY <1>1, <2>3, <3>1, <3>2, <3>3, CredsStep
  <2>4. CASE Age
    <3>1. creds \in Credentials
      BY <2>2 DEF TypeOK
    <3>2. creds'.age \in {"due", "expired"}
      BY <2>4, <3>1 DEF Age, Credentials
    <3> QED BY <1>1, <3>2
  <2>5. CASE Grow \/ Replace \/ Rewrite \/ UNCHANGED vars
    BY <1>1, <2>5 DEF Grow, Replace, Rewrite, machine, vars
  <2> QED BY <1>1, <2>3, <2>4, <2>5 DEF Next
<1>2. ClientInv /\ [Next]_vars =>
        [(creds' # creds /\ creds'.gen > 1 /\ creds'.age = "fresh") =>
         \/ faults > 0
         \/ /\ \/ creds.session = creds'.session
               \/ creds.session = 0 /\ creds'.session \in removed
            /\ issuer[creds'.session].state = "live"]_vars
  BY <1>1 DEF Replaceable
<1> QED BY <1>2, ClientSound, PTL DEF Spec, RefreshReplacesItsOwn

(* A hook that ends late does not move a checkpoint that still holds backwards, unless somebody died. *)
THEOREM CheckpointsForward == Spec => NeverBackward
<1>1. ASSUME ClientInv, [Next]_vars, NEW d \in Destinations, points'[d] # points[d], StillCurrent(points[d]),
             ~ (faults > 0)
      PROVE  points'[d].offset > points[d].offset
  <2>1. faults = 0
    BY <1>1, ClientAssumption DEF ClientInv, TypeOK
  <2>2. TypeOK /\ RenamesSound
    BY <1>1, <2>1 DEF ClientInv, Trusted
  <2>3. PICK p \in Procs : Rename(p)
    BY <1>1, PointsStep DEF Next, Age, Grow, Replace, Rewrite, transcript, vars
  <2>4. points'[d] = Value(p) /\ d = proc[p].for /\ StillCurrent(Value(p)) /\ proc[p].pc = "rename"
    BY <1>1, <2>2, <2>3 DEF Rename, TypeOK, At
  <2>5. ~ Newer(p)
    BY <2>2, <2>4 DEF RenamesSound
  <2>6. ~ (points[d].offset >= proc[p].upto)
    BY <1>1, <2>4, <2>5 DEF Newer, StillCurrent, Value
  <2>7. points[d].offset \in Nat /\ proc[p].upto \in Nat
    BY <2>2, PointType, RowOf DEF Processes
  <2> QED BY <2>4, <2>6, <2>7 DEF Value
<1>2. ClientInv /\ [Next]_vars =>
        [\A d \in Destinations :
           points'[d] # points[d] /\ StillCurrent(points[d]) =>
             \/ faults > 0
             \/ points'[d].offset > points[d].offset]_vars
  BY <1>1
<1> QED BY <1>2, ClientSound, PTL DEF Spec, NeverBackward

(* A failed, overtaken, repeated or dying hook skips no message of the transcript, as long as no file is rewritten *)
(* under a running hook.                                                                                           *)
THEOREM NoMessageSkipped == ~ InFlight => (Spec => []NothingSkipped)
<1> SUFFICES ASSUME ~ InFlight PROVE Spec => []NothingSkipped
  OBVIOUS
<1>1. ClientInv => NothingSkipped
  BY DEF ClientInv, NoneSkipped
<1> QED BY <1>1, ClientSound, PTL
==============================================================================
