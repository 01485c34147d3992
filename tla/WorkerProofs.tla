------------------------------ MODULE WorkerProofs ------------------------------
(* Proofs about the personal product, for any users, browsers, keys, scopes,  *)
(* memories and page size.  BrowserSession: what the refresh tokens of one    *)
(* family can be and who may hold them, from which no browser that stays      *)
(* quiet is told that its session ended, cookies never go back, a tab that    *)
(* was signed out stays out and only dead sessions are cleared.               *)
(* PersonalMemory: what authentication makes of the credentials of a request, *)
(* and what a view shows for the request it waits for.                        *)
EXTENDS BrowserSession, PersonalMemory, FiniteSetTheorems, TLAPS

(***************************************************************************)
(* Types.                                                                  *)
(***************************************************************************)
(* What a token is made of.                                                *)
LEMMA TokenParts ==
  ASSUME NEW t \in Tokens
  PROVE  /\ t # None /\ t[1] \in Families /\ t[2] \in 1 .. MaxRotations
         /\ t = <<t[1], t[2]>>
BY SessionAssumption DEF Tokens

LEMMA TokenMade ==
  ASSUME NEW f \in Families, NEW i \in 1 .. MaxRotations
  PROVE  <<f, i>> \in Tokens /\ <<f, i>> # None /\ <<f, i>>[1] = f /\ <<f, i>>[2] = i
BY SessionAssumption DEF Tokens

(* The issuer's rows after a rotation and after a revocation.              *)
Turned(row, n, grace, missed) == [row EXCEPT !.newest = n, !.grace = grace, !.missed = missed]

LEMMA TurnedRow ==
  ASSUME NEW row \in FamilyType, NEW n \in 0 .. MaxRotations, NEW grace \in BOOLEAN, NEW missed \in BOOLEAN
  PROVE  /\ Turned(row, n, grace, missed) \in FamilyType
         /\ Turned(row, n, grace, missed).user = row.user /\ Turned(row, n, grace, missed).live = row.live
         /\ Turned(row, n, grace, missed).newest = n
         /\ Turned(row, n, grace, missed).grace <=> grace
         /\ Turned(row, n, grace, missed).missed <=> missed
BY DEF FamilyType, Turned

LEMMA RotatedRow ==
  ASSUME SessionTypeOK, NEW f \in Families, issuer[f].newest < MaxRotations
  PROVE  /\ Rotated(f) \in [Families -> FamilyType]
         /\ \A g \in Families : g # f => Rotated(f)[g] = issuer[g]
         /\ Rotated(f)[f].user = issuer[f].user /\ Rotated(f)[f].live = issuer[f].live
         /\ Rotated(f)[f].newest = issuer[f].newest + 1 /\ Rotated(f)[f].grace
         /\ Rotated(f)[f].missed <=> issuer[f].missed \/ OnItsWay(f, issuer[f].newest - 1)
<1>1. issuer \in [Families -> FamilyType] /\ MaxRotations \in Nat
  BY SessionAssumption DEF SessionTypeOK
<1>5. issuer[f] \in FamilyType /\ issuer[f].newest + 1 \in 0 .. MaxRotations
  BY <1>1 DEF FamilyType
<1> DEFINE m == issuer[f].missed \/ OnItsWay(f, issuer[f].newest - 1)
<1>6. m \in BOOLEAN /\ TRUE \in BOOLEAN
  OBVIOUS
<1>7. Rotated(f) = [issuer EXCEPT ![f].newest = @ + 1, ![f].grace = TRUE, ![f].missed = m]
  BY DEF Rotated
<1> HIDE DEF m
<1> DEFINE n == issuer[f].newest + 1
           b == TRUE
           row == Turned(issuer[f], n, b, m)
<1>3. Rotated(f) = [issuer EXCEPT ![f] = row]
  BY <1>1, <1>5, <1>7 DEF FamilyType, Turned
<1>9. n \in 0 .. MaxRotations /\ b \in BOOLEAN
  BY <1>5
<1>10. issuer[f] \in FamilyType /\ m \in BOOLEAN
  BY <1>5, <1>6
<1> HIDE DEF n, b
<1>4. /\ row \in FamilyType /\ row.user = issuer[f].user /\ row.live = issuer[f].live
      /\ row.newest = n /\ (row.grace <=> b) /\ (row.missed <=> m)
  BY <1>9, <1>10, TurnedRow, SMTT(30)
<1> HIDE DEF row
<1>8. /\ [issuer EXCEPT ![f] = row] \in [Families -> FamilyType] /\ [issuer EXCEPT ![f] = row][f] = row
      /\ \A g \in Families : g # f => [issuer EXCEPT ![f] = row][g] = issuer[g]
  BY <1>1, <1>4
<1> QED BY <1>3, <1>4, <1>8, Zenon DEF m, n, b

LEMMA RevokedRow ==
  ASSUME SessionTypeOK, NEW f \in Families
  PROVE  /\ Revoked(f) \in [Families -> FamilyType]
         /\ \A g \in Families : g # f => Revoked(f)[g] = issuer[g]
         /\ Revoked(f)[f].user = issuer[f].user /\ ~ Revoked(f)[f].live
         /\ Revoked(f)[f].newest = issuer[f].newest /\ Revoked(f)[f].missed = issuer[f].missed
<1>1. issuer \in [Families -> FamilyType]
  BY DEF SessionTypeOK
<1>2. PICK row \in FamilyType : row = [issuer[f] EXCEPT !.live = FALSE, !.grace = FALSE]
  BY <1>1 DEF FamilyType
<1>3. Revoked(f) = [issuer EXCEPT ![f] = row]
  BY <1>1, <1>2 DEF Revoked, FamilyType
<1>4. /\ row.user = issuer[f].user /\ row.live = FALSE /\ row.newest = issuer[f].newest
      /\ row.missed = issuer[f].missed
  BY <1>1, <1>2 DEF FamilyType
<1> QED BY <1>1, <1>3, <1>4

LEMMA GraceRow ==
  ASSUME SessionTypeOK, NEW f \in Families, GraceEnds(f)
  PROVE  /\ issuer' \in [Families -> FamilyType]
         /\ \A g \in Families : /\ issuer'[g].user = issuer[g].user /\ issuer'[g].live = issuer[g].live
                               /\ issuer'[g].newest = issuer[g].newest
         /\ \A g \in Families : g # f => issuer'[g] = issuer[g]
         /\ issuer'[f].missed <=> \/ issuer[f].missed \/ OnItsWay(f, issuer[f].newest - 1)
                                 \/ jar.refresh = <<f, issuer[f].newest - 1>>
<1>1. issuer \in [Families -> FamilyType] /\ issuer[f] \in FamilyType
  BY DEF SessionTypeOK
<1> DEFINE m == \/ issuer[f].missed \/ OnItsWay(f, issuer[f].newest - 1)
                \/ jar.refresh = <<f, issuer[f].newest - 1>>
<1>6. m \in BOOLEAN /\ FALSE \in BOOLEAN
  OBVIOUS
<1>7. issuer' = [issuer EXCEPT ![f].grace = FALSE, ![f].missed = m]
  BY DEF GraceEnds
<1> HIDE DEF m
<1>2. ASSUME NEW e \in BOOLEAN, NEW b \in BOOLEAN
      PROVE  /\ [issuer[f] EXCEPT !.grace = b, !.missed = e] \in FamilyType
             /\ [issuer[f] EXCEPT !.grace = b, !.missed = e].user = issuer[f].user
             /\ [issuer[f] EXCEPT !.grace = b, !.missed = e].live = issuer[f].live
             /\ [issuer[f] EXCEPT !.grace = b, !.missed = e].newest = issuer[f].newest
             /\ [issuer[f] EXCEPT !.grace = b, !.missed = e].missed = e
  BY <1>1 DEF FamilyType
<1> DEFINE row == [issuer[f] EXCEPT !.grace = FALSE, !.missed = m]
<1>4. /\ row \in FamilyType /\ row.user = issuer[f].user /\ row.live = issuer[f].live
      /\ row.newest = issuer[f].newest /\ row.missed = m
  BY <1>2, <1>6, Zenon
<1>3. issuer' = [issuer EXCEPT ![f] = row]
  BY <1>1, <1>7 DEF FamilyType
<1> HIDE DEF row
<1>8. issuer' \in [Families -> FamilyType] /\ issuer'[f] = row /\ \A g \in Families : g # f => issuer'[g] = issuer[g]
  BY <1>1, <1>3, <1>4
<1> QED BY <1>4, <1>8, Zenon DEF m

(* The rows of a page after an answer and after a request.                 *)
LEMMA ReplyRow ==
  ASSUME SessionTypeOK, NEW p \in Pages, NEW r \in Replied, Replies(p, r)
  PROVE  /\ shared' \in [Pages -> SharedType]
         /\ \A q \in Pages : q # p => shared'[q] = shared[q]
         /\ shared'[p].step = "answered" /\ shared'[p].reply = r
         /\ shared'[p].token = shared[p].token /\ shared'[p].next = shared[p].next
<1>1. shared \in [Pages -> SharedType]
  BY DEF SessionTypeOK
<1>2. PICK row \in SharedType : row = [shared[p] EXCEPT !.step = "answered", !.reply = r]
  BY <1>1 DEF SharedType
<1>3. shared' = [shared EXCEPT ![p] = row]
  BY <1>1, <1>2 DEF Replies, SharedType
<1>4. row.step = "answered" /\ row.reply = r /\ row.token = shared[p].token /\ row.next = shared[p].next
  BY <1>1, <1>2 DEF SharedType
<1> QED BY <1>1, <1>3, <1>4

LEMMA NoneShared ==
  /\ NoShared \in SharedType
  /\ NoShared.step = "idle" /\ NoShared.token = None /\ NoShared.next = None
BY DEF NoShared, SharedType, Maybe, Replied

LEMMA FetchRow ==
  ASSUME SessionTypeOK, NEW a \in 1 .. 2
  PROVE  /\ Fetch(a) \in SharedType
         /\ Fetch(a).step = "sent" /\ Fetch(a).token = jar.refresh /\ Fetch(a).next = None
<1>1. jar.refresh \in Maybe(Tokens) /\ a \in 0 .. 2
  BY DEF SessionTypeOK, JarType
<1>2. Fetch(a) \in SharedType /\ Fetch(a).step = "sent" /\ Fetch(a).token = jar.refresh
      /\ Fetch(a).next = NoShared.next
  BY <1>1, NoneShared DEF Fetch, SharedType
<1> QED BY <1>2, NoneShared

LEMMA FaultTyped == ASSUME SessionTypeOK, UNCHANGED faults \/ Fault PROVE faults' \in 0 .. MaxFaults
BY SessionAssumption DEF SessionTypeOK, Fault

LEMMA WorkerIssuer ==
  ASSUME SessionTypeOK, NEW p \in Pages, Worker(p)
  PROVE  issuer' \in [Families -> FamilyType]
<1>1. CASE UNCHANGED issuer
  BY <1>1 DEF SessionTypeOK
<1>2. CASE \E f \in Families : issuer' = Revoked(f)
  BY <1>2, RevokedRow
<1>3. CASE \E f \in Families : issuer[f].newest < MaxRotations /\ issuer' = Rotated(f)
  BY <1>3, RotatedRow
<1>4. shared[p].token # None => shared[p].token[1] \in Families
  BY TokenParts DEF SessionTypeOK, SharedType, Maybe
<1>5. out[p].token # None => out[p].token[1] \in Families
  BY TokenParts DEF SessionTypeOK, OutType, Maybe
<1> QED
  BY <1>1, <1>2, <1>3, <1>4, <1>5 DEF Worker, RefreshAbsent, RefreshRotates, RefreshUnverified, RefreshBusy, RefreshRefused,
       RefreshFails, RefreshThrottled, Logout, Newest

LEMMA SharedStep ==
  ASSUME SessionTypeOK, NEW p \in Pages, Page(p)
  PROVE  shared' \in [Pages -> SharedType]
<1>1. shared \in [Pages -> SharedType]
  BY DEF SessionTypeOK
<1>2. CASE UNCHANGED shared
  BY <1>1, <1>2
<1>3. CASE \E a \in 1 .. 2 : shared' = [shared EXCEPT ![p] = Fetch(a)]
  BY <1>1, <1>3, FetchRow
<1>4. CASE shared' = [shared EXCEPT ![p] = NoShared]
  BY <1>1, <1>4, NoneShared
<1>5. 1 \in 1 .. 2 /\ 2 \in 1 .. 2
  OBVIOUS
<1> QED
  BY <1>2, <1>3, <1>4, <1>5 DEF Page, Open, Refresh, Joined, TakeInstalled, TakeCleared, TakeBusy, TakeFailed, LoseRefresh,
       Failed, Call, CallRefreshes, CallInvalidates, SignOut, SendLogout, TakeLogout, LoseLogout

LEMMA RotatesTyped ==
  ASSUME SessionTypeOK, NEW p \in Pages, RefreshRotates(p)
  PROVE  /\ shared' \in [Pages -> SharedType]
         /\ \A q \in Pages : q # p => shared'[q] = shared[q]
         /\ shared'[p].step = "answered" /\ shared'[p].reply = "installed" /\ shared'[p].token = shared[p].token
         /\ shared'[p].next = <<shared[p].token[1], shared[p].token[2] + 1>>
<1>1. shared \in [Pages -> SharedType] /\ shared[p].token \in Tokens /\ issuer \in [Families -> FamilyType]
  BY DEF SessionTypeOK, RefreshRotates, SharedType, Maybe
<1>2. shared[p].token[1] \in Families /\ shared[p].token[2] + 1 \in 1 .. MaxRotations
  BY <1>1, TokenParts, SessionAssumption DEF RefreshRotates
<1> DEFINE t == <<shared[p].token[1], shared[p].token[2] + 1>>
           u == issuer[shared[p].token[1]].user
<1>3. t \in Maybe(Tokens) /\ u \in Maybe(Users) /\ "installed" \in Replied
  BY <1>1, <1>2, TokenMade DEF FamilyType, Maybe, Replied
<1>4. shared' = [shared EXCEPT ![p].step = "answered", ![p].reply = "installed", ![p].user = u, ![p].next = t]
  BY DEF RefreshRotates
<1> HIDE DEF t, u
<1>5. PICK row \in SharedType : row = [shared[p] EXCEPT !.step = "answered", !.reply = "installed", !.user = u, !.next = t]
  BY <1>1, <1>3 DEF SharedType
<1>6. row.step = "answered" /\ row.reply = "installed" /\ row.token = shared[p].token /\ row.next = t
  BY <1>1, <1>5 DEF SharedType
<1>7. shared' = [shared EXCEPT ![p] = row]
  BY <1>1, <1>4, <1>5 DEF SharedType
<1> QED BY <1>1, <1>6, <1>7 DEF t

LEMMA WorkerShared ==
  ASSUME SessionTypeOK, NEW p \in Pages, Worker(p)
  PROVE  shared' \in [Pages -> SharedType]
<1>1. CASE RefreshRotates(p)
  BY <1>1, RotatesTyped
<1>2. CASE Logout(p)
  BY <1>2 DEF Logout, SessionTypeOK
<1>3. CASE \E r \in Replied : Replies(p, r)
  BY <1>3, ReplyRow
<1>4. {"absent", "unverified", "busy", "refused", "failed"} \subseteq Replied
  BY DEF Replied, Clears
<1> QED
  BY <1>1, <1>2, <1>3, <1>4 DEF Worker, RefreshAbsent, RefreshUnverified, RefreshBusy, RefreshRefused, RefreshFails, RefreshThrottled

LEMMA OutStep ==
  ASSUME SessionTypeOK, NEW p \in Pages, Page(p) \/ Worker(p)
  PROVE  out' \in [Pages -> OutType]
<1>1. out \in [Pages -> OutType] /\ jar.refresh \in Maybe(Tokens)
  BY DEF SessionTypeOK, JarType
<1>2. NoOut \in OutType
  BY DEF NoOut, OutType, Maybe
<1>3. CASE UNCHANGED out
  BY <1>1, <1>3
<1>4. CASE SendLogout(p)
  BY <1>1, <1>4 DEF SendLogout, OutType
<1>5. CASE Logout(p)
  BY <1>1, <1>5 DEF Logout, OutType
<1>6. CASE TakeLogout(p) \/ LoseLogout(p)
  BY <1>1, <1>2, <1>6 DEF TakeLogout, LoseLogout
<1> QED
  BY <1>3, <1>4, <1>5, <1>6 DEF Page, Open, Refresh, TakeInstalled, TakeCleared, TakeBusy, TakeFailed, LoseRefresh,
       Call, CallRefreshes, CallInvalidates, SignOut, Worker, RefreshAbsent, RefreshRotates, RefreshUnverified, RefreshBusy,
       RefreshRefused, RefreshFails, RefreshThrottled

LEMMA ApiStep ==
  ASSUME SessionTypeOK, NEW p \in Pages, Page(p)
  PROVE  /\ api' \in [Pages -> {"idle", "denied", "waiting", "refused"}]
         /\ \A q \in Pages : q # p => api'[q] = api[q]
         /\ api'[p] = "refused" => api[p] = "refused" \/ Fault
<1>1. api \in [Pages -> {"idle", "denied", "waiting", "refused"}]
  BY DEF SessionTypeOK
<1>2. CASE UNCHANGED api
  BY <1>1, <1>2
<1>3. CASE GivesUp(p)
  BY <1>1, <1>3 DEF GivesUp
<1>4. CASE SendsAgain(p)
  BY <1>1, <1>4 DEF SendsAgain
<1>5. CASE Call(p) \/ CallRefreshes(p) \/ CallInvalidates(p)
  BY <1>1, <1>5 DEF Call, CallRefreshes, CallInvalidates
<1> QED
  BY <1>2, <1>3, <1>4, <1>5 DEF Page, Open, Refresh, TakeInstalled, TakeCleared, TakeBusy, TakeFailed, LoseRefresh, Failed,
       SignOut, SendLogout, TakeLogout, LoseLogout

DeadTabs ==
  \A p \in Pages : tab[p].dead => tab[p].shown = None /\ ~ (tab[p].waits /\ tab[p].current)

DeadRow(s) == s.dead => s.shown = None /\ ~ (s.waits /\ s.current)

(* What the provider makes of its row keeps a row a row, and a dead tab    *)
(* without a user and without a refresh that could bring one back.         *)
LEMMA ClosedRow ==
  ASSUME NEW user \in Maybe(Users), NEW leaves \in BOOLEAN
  PROVE  /\ [Closed EXCEPT !.leaves = leaves] \in TabType /\ ~ [Closed EXCEPT !.leaves = leaves].dead
         /\ [Closed EXCEPT !.leaves = leaves].signing = "no"
         /\ [Closed EXCEPT !.open = TRUE, !.shown = user, !.leaves = leaves].signing = "no"
         /\ [Closed EXCEPT !.open = TRUE, !.shown = user, !.leaves = leaves].leaves = leaves
         /\ [Closed EXCEPT !.open = TRUE, !.shown = user, !.leaves = leaves] \in TabType
         /\ ~ [Closed EXCEPT !.open = TRUE, !.shown = user, !.leaves = leaves].dead
BY DEF Closed, TabType, Maybe

LEMMA InvalidatedRow ==
  ASSUME NEW s \in TabType
  PROVE  /\ Invalidated(s) \in TabType /\ DeadRow(Invalidated(s)) /\ Invalidated(s).dead
         /\ Invalidated(s).leaves = s.leaves /\ Invalidated(s).signing = s.signing
BY DEF TabType, Invalidated, DeadRow, Maybe

LEMMA ShowsRow ==
  ASSUME NEW s \in TabType, DeadRow(s), NEW user \in Maybe(Users)
  PROVE  Shows(s, user) \in TabType /\ DeadRow(Shows(s, user)) /\ (Shows(s, user).dead => s.dead)
         /\ (s.dead => Shows(s, user).shown = None)
         /\ Shows(s, user).leaves = s.leaves /\ Shows(s, user).signing = s.signing
BY DEF TabType, Shows, DeadRow

LEMMA RetriesRow ==
  ASSUME NEW s \in TabType, DeadRow(s)
  PROVE  /\ Retries(s) \in TabType /\ DeadRow(Retries(s)) /\ (Retries(s).dead => s.dead) /\ Retries(s).shown = s.shown
         /\ Retries(s).leaves = s.leaves /\ Retries(s).signing = s.signing
BY DEF TabType, Retries, DeadRow

RowMoves(s, t) ==
  /\ t \in TabType /\ DeadRow(t) /\ (t.dead => s.dead)
  /\ t.leaves = s.leaves /\ (t.signing # "no" => s.signing # "no" \/ s.leaves)

LEMMA OpenRow ==
  ASSUME SessionTypeOK, DeadTabs, NEW p \in Pages, Open(p) \/ Refresh(p) \/ SignOut(p) \/ SendLogout(p) \/ TakeLogout(p) \/ LoseLogout(p)
  PROVE  \E row \in TabType : RowMoves(tab[p], row) /\ tab' = [tab EXCEPT ![p] = row]
<1>1. tab \in [Pages -> TabType] /\ jar.access \in Maybe(Users) /\ DeadRow(tab[p]) /\ tab[p] \in TabType
  BY DEF SessionTypeOK, JarType, DeadTabs, DeadRow
<1>2. CASE Open(p)
  <2>1. tab[p].leaves \in BOOLEAN
    BY <1>1 DEF TabType
  <2> DEFINE row == [Closed EXCEPT !.open = TRUE, !.shown = jar.access, !.leaves = tab[p].leaves]
  <2>2. row \in TabType /\ ~ row.dead /\ row.leaves = tab[p].leaves /\ row.signing = "no"
    BY <1>1, <2>1, ClosedRow, Zenon
  <2>3. tab' = [tab EXCEPT ![p] = row]
    BY <1>2 DEF Open
  <2> QED BY <2>2, <2>3 DEF RowMoves, DeadRow
<1>3. CASE Refresh(p)
  <2> DEFINE row == [tab[p] EXCEPT !.waits = TRUE, !.current = TRUE, !.retry = FALSE, !.tried = TRUE]
  <2>1. row \in TabType /\ row.dead = tab[p].dead /\ row.leaves = tab[p].leaves /\ row.signing = tab[p].signing
    BY <1>1 DEF TabType
  <2>2. ~ row.dead
    BY <1>3, <2>1 DEF Refresh
  <2>3. tab' = [tab EXCEPT ![p] = row]
    BY <1>1, <1>3 DEF Refresh, TabType
  <2> QED BY <2>1, <2>2, <2>3 DEF RowMoves, DeadRow
<1>4. CASE SignOut(p)
  <2> DEFINE row == [tab[p] EXCEPT !.signing = "settling", !.retry = FALSE, !.current = FALSE]
  <2>1. row \in TabType /\ row.dead = tab[p].dead /\ row.shown = tab[p].shown /\ ~ row.current
        /\ row.leaves = tab[p].leaves
    BY <1>1 DEF TabType
  <2>3. tab[p].leaves
    BY <1>4 DEF SignOut
  <2>2. tab' = [tab EXCEPT ![p] = row]
    BY <1>1, <1>4 DEF SignOut, TabType
  <2> QED BY <1>1, <2>1, <2>2, <2>3 DEF RowMoves, DeadRow
<1>5. CASE SendLogout(p)
  <2>3. tab[p].signing # "no"
    BY <1>5 DEF SendLogout
  <2> DEFINE row == [tab[p] EXCEPT !.signing = "sent"]
  <2>1. row \in TabType /\ row.dead = tab[p].dead /\ row.shown = tab[p].shown /\ row.waits = tab[p].waits
        /\ row.current = tab[p].current /\ row.leaves = tab[p].leaves
    BY <1>1 DEF TabType
  <2>2. tab' = [tab EXCEPT ![p] = row]
    BY <1>1, <1>5 DEF SendLogout, TabType
  <2> QED BY <1>1, <2>1, <2>2, <2>3 DEF RowMoves, DeadRow
<1>6. CASE LoseLogout(p)
  <2> DEFINE row == [tab[p] EXCEPT !.signing = "no"]
  <2>3. row.signing = "no"
    BY <1>1 DEF TabType
  <2>1. row \in TabType /\ row.dead = tab[p].dead /\ row.shown = tab[p].shown /\ row.waits = tab[p].waits
        /\ row.current = tab[p].current /\ row.leaves = tab[p].leaves
    BY <1>1 DEF TabType
  <2>2. tab' = [tab EXCEPT ![p] = row]
    BY <1>1, <1>6 DEF LoseLogout, TabType
  <2> QED BY <1>1, <2>1, <2>2, <2>3 DEF RowMoves, DeadRow
<1>7. CASE TakeLogout(p)
  <2> DEFINE row == [tab[p] EXCEPT !.signing = "no", !.shown = None]
  <2>1. row \in TabType /\ row.dead = tab[p].dead /\ row.shown = None /\ row.waits = tab[p].waits
        /\ row.current = tab[p].current /\ row.leaves = tab[p].leaves /\ row.signing = "no"
    BY <1>1 DEF TabType, Maybe
  <2>2. tab' = [tab EXCEPT ![p] = row]
    BY <1>1, <1>7 DEF TakeLogout, TabType
  <2> QED BY <1>1, <2>1, <2>2 DEF RowMoves, DeadRow
<1> QED BY <1>2, <1>3, <1>4, <1>5, <1>6, <1>7

(* The tab of a page after a step of the page.                             *)
LEMMA TabStep ==
  ASSUME SessionTypeOK, DeadTabs, NEW p \in Pages, Page(p)
  PROVE  /\ tab' \in [Pages -> TabType]
         /\ \A q \in Pages : q # p => tab'[q] = tab[q]
         /\ DeadRow(tab'[p])
         /\ tab'[p].dead => tab[p].dead \/ TakeCleared(p) \/ CallInvalidates(p)
         /\ tab'[p].leaves = tab[p].leaves
         /\ tab'[p].signing # "no" => tab[p].signing # "no" \/ tab[p].leaves
<1>1. tab \in [Pages -> TabType] /\ tab[p] \in TabType /\ DeadRow(tab[p]) /\ shared[p].user \in Maybe(Users)
      /\ None \in Maybe(Users)
  BY DEF SessionTypeOK, SharedType, DeadTabs, DeadRow, Maybe
<1>2. CASE \E row \in TabType : RowMoves(tab[p], row) /\ tab' = [tab EXCEPT ![p] = row]
  BY <1>1, <1>2 DEF RowMoves
<1>3. CASE UNCHANGED tab
  BY <1>1, <1>3
<1>4. CASE TakeInstalled(p)
  BY <1>1, <1>4, ShowsRow DEF TakeInstalled
<1>5. CASE TakeCleared(p)
  BY <1>1, <1>5, ShowsRow, InvalidatedRow DEF TakeCleared
<1>6. CASE CallInvalidates(p)
  BY <1>1, <1>6, InvalidatedRow DEF CallInvalidates
<1>7. CASE Failed(p)
  BY <1>1, <1>7, RetriesRow DEF Failed
<1> QED
  BY <1>2, <1>3, <1>4, <1>5, <1>6, <1>7, OpenRow DEF Page, TakeBusy, TakeFailed, LoseRefresh, Call, CallRefreshes

LEMMA JarStep ==
  ASSUME SessionTypeOK, SessionNext
  PROVE  jar' \in JarType
<1>1. jar \in JarType /\ None \in Maybe(Users) /\ None \in Maybe(Tokens) /\ None \in Maybe(Families)
  BY DEF SessionTypeOK, Maybe
<1>2. \A u \in Maybe(Users), t \in Maybe(Tokens) : WithSession(u, t) \in JarType
  BY <1>1 DEF WithSession, JarType
<1>3. WithoutSession \in JarType
  BY <1>1 DEF WithoutSession, JarType
<1>4. \A j \in JarType : WithoutFlow(j) \in JarType
  BY <1>1 DEF WithoutFlow, JarType
<1>5. CASE UNCHANGED jar
  BY <1>1, <1>5
<1>6. CASE \E p \in Pages : TakeInstalled(p)
  <2>1. PICK p \in Pages : TakeInstalled(p)
    BY <1>6
  <2>2. shared[p].user \in Maybe(Users) /\ shared[p].next \in Maybe(Tokens)
    BY DEF SessionTypeOK, SharedType
  <2> QED BY <1>2, <2>1, <2>2 DEF TakeInstalled
<1>7. CASE \E p \in Pages : TakeCleared(p) \/ TakeLogout(p)
  BY <1>3, <1>4, <1>7 DEF TakeCleared, TakeLogout
<1>8. CASE AccessExpires
  BY <1>1, <1>8 DEF AccessExpires, JarType
<1>9. CASE \E f \in Families, ui \in BOOLEAN : SsoStart(f, ui)
  <2>1. PICK f \in Families, ui \in BOOLEAN : SsoStart(f, ui)
    BY <1>9
  <2>2. f \in Maybe(Families)
    BY DEF Maybe
  <2> QED BY <1>1, <2>1, <2>2 DEF SsoStart, JarType
<1>10. CASE \E f \in Families, u \in Users : Callback(f, u)
  BY <1>1, <1>4, <1>10 DEF Callback
<1>11. CASE \E f \in Families : TakeCallback(f)
  <2>1. PICK f \in Families : TakeCallback(f)
    BY <1>11
  <2>2. flow[f].user \in Maybe(Users) /\ <<f, 1>> \in Maybe(Tokens)
    BY TokenMade, SessionAssumption DEF SessionTypeOK, FlowType, Maybe
  <2>3. [jar EXCEPT !.access = flow[f].user] \in JarType
    BY <1>1, <2>2 DEF JarType
  <2> QED BY <1>1, <1>2, <1>4, <2>1, <2>2, <2>3 DEF TakeCallback
<1> QED
  BY ZenonT(60), <1>5, <1>6, <1>7, <1>8, <1>9, <1>10, <1>11 DEF SessionNext, SignIn, Exchange, ExchangeFails, RevokePrior, GraceEnds,
     Page, Open, Refresh, TakeBusy, TakeFailed, LoseRefresh, Call, CallRefreshes, CallInvalidates, SignOut, SendLogout,
     LoseLogout, Worker, RefreshAbsent, RefreshRotates, RefreshUnverified, RefreshBusy, RefreshRefused, RefreshFails,
     RefreshThrottled, Logout

(* The row of a sign-in after each of its steps.                           *)
LEMMA FlowRow ==
  ASSUME SessionTypeOK, NEW f \in Families, SignIn(f)
  PROVE  \E row \in FlowType :
           /\ flow' = [flow EXCEPT ![f] = row]
           /\ row.prior = flow[f].prior \/ row.prior = None \/ row.prior = jar.refresh
           /\ \/ row.step = "away" /\ issuer[f].user = None /\ UNCHANGED issuer
              \/ row.step = "exchanging" /\ row.user \in Users /\ flow[f].step = "away"
              \/ row.step \in {"over", "failed"}
              \/ /\ row.step \in {"revoking", "done"} /\ row.user = flow[f].user
                 /\ flow[f].step \in {"exchanging", "revoking"}
                 /\ flow[f].step = "exchanging" => \E renews \in Contracts : Exchange(f, renews)
<1>1. flow \in [Families -> FlowType] /\ flow[f] \in FlowType /\ jar.refresh \in Maybe(Tokens) /\ jar.ui \in BOOLEAN
  BY DEF SessionTypeOK, JarType
<1>2. CASE \E ui \in BOOLEAN : SsoStart(f, ui)
  <2> DEFINE row == [flow[f] EXCEPT !.step = "away"]
  <2>1. row \in FlowType /\ row.step = "away" /\ row.prior = flow[f].prior
    BY <1>1 DEF FlowType
  <2>2. flow' = [flow EXCEPT ![f] = row]
    BY <1>1, <1>2 DEF SsoStart, FlowType
  <2> QED BY <1>2, <2>1, <2>2 DEF SsoStart
<1>3. CASE \E u \in Users : Callback(f, u)
  <2>1. PICK u \in Users : Callback(f, u)
    BY <1>3
  <2>2. CASE jar.state = f
    <3> DEFINE t == IF jar.ui THEN jar.refresh ELSE None
               row == [flow[f] EXCEPT !.step = "exchanging", !.user = u, !.ui = jar.ui, !.prior = t]
    <3>1. t \in Maybe(Tokens) /\ (t = None \/ t = jar.refresh) /\ u \in Maybe(Users)
      BY <1>1 DEF Maybe
    <3>2. flow' = [flow EXCEPT ![f].step = "exchanging", ![f].user = u, ![f].ui = jar.ui, ![f].prior = t]
      BY <2>1, <2>2 DEF Callback
    <3> HIDE DEF t
    <3>3. row \in FlowType /\ row.step = "exchanging" /\ row.user = u /\ row.prior = t
      BY <1>1, <3>1 DEF FlowType
    <3>4. flow' = [flow EXCEPT ![f] = row]
      BY <1>1, <3>2 DEF FlowType
    <3> QED BY <2>1, <3>1, <3>3, <3>4 DEF Callback
  <2>3. CASE jar.state # f
    <3> DEFINE row == [flow[f] EXCEPT !.step = "over"]
    <3>1. row \in FlowType /\ row.step = "over" /\ row.prior = flow[f].prior
      BY <1>1 DEF FlowType
    <3>2. flow' = [flow EXCEPT ![f] = row]
      BY <1>1, <2>1, <2>3 DEF Callback, FlowType
    <3> QED BY <3>1, <3>2
  <2> QED BY <2>2, <2>3
<1>4. CASE \E renews \in Contracts : Exchange(f, renews)
  <2>1. PICK renews \in Contracts : Exchange(f, renews)
    BY <1>4
  <2> DEFINE next == IF flow[f].ui THEN "revoking" ELSE "done"
             row == [flow[f] EXCEPT !.step = next, !.renews = renews]
  <2>2. next \in {"revoking", "done"} /\ renews \in BOOLEAN
    BY SessionAssumption
  <2>3. flow' = [flow EXCEPT ![f].step = next, ![f].renews = renews]
    BY <2>1 DEF Exchange
  <2> HIDE DEF next
  <2>4. row \in FlowType /\ row.step = next /\ row.user = flow[f].user /\ row.prior = flow[f].prior
    BY <1>1, <2>2 DEF FlowType
  <2>5. flow' = [flow EXCEPT ![f] = row]
    BY <1>1, <2>3 DEF FlowType
  <2> QED BY <2>1, <2>2, <2>4, <2>5 DEF Exchange
<1>5. CASE ExchangeFails(f)
  <2> DEFINE row == [flow[f] EXCEPT !.step = "failed"]
  <2>1. row \in FlowType /\ row.step = "failed" /\ row.prior = flow[f].prior
    BY <1>1 DEF FlowType
  <2>2. flow' = [flow EXCEPT ![f] = row]
    BY <1>1, <1>5 DEF ExchangeFails, FlowType
  <2> QED BY <2>1, <2>2
<1>6. CASE RevokePrior(f)
  <2> DEFINE row == [flow[f] EXCEPT !.step = "done"]
  <2>1. row \in FlowType /\ row.step = "done" /\ row.prior = flow[f].prior /\ row.user = flow[f].user
    BY <1>1 DEF FlowType
  <2>2. flow' = [flow EXCEPT ![f] = row] /\ flow[f].step = "revoking"
    BY <1>1, <1>6 DEF RevokePrior, FlowType
  <2> QED BY <2>1, <2>2
<1>7. CASE TakeCallback(f)
  <2> DEFINE row == [NoFlow EXCEPT !.step = "over"]
  <2>1. row \in FlowType /\ row.step = "over" /\ row.prior = None
    BY DEF NoFlow, FlowType, Maybe
  <2>2. flow' = [flow EXCEPT ![f] = row]
    BY <1>7 DEF TakeCallback
  <2> QED BY <2>1, <2>2
<1> QED BY <1>2, <1>3, <1>4, <1>5, <1>6, <1>7 DEF SignIn

LEMMA ExchangedRow ==
  ASSUME SessionTypeOK, NEW f \in Families, NEW renews \in Contracts, Exchange(f, renews)
  PROVE  /\ issuer' \in [Families -> FamilyType]
         /\ \A g \in Families : g # f => issuer'[g] = issuer[g]
         /\ issuer'[f].user = flow[f].user /\ issuer'[f].newest = 1
<1>1. issuer \in [Families -> FamilyType] /\ flow[f].user \in Maybe(Users) /\ renews \in BOOLEAN
  BY SessionAssumption DEF SessionTypeOK, FlowType
<1>2. 1 \in 0 .. MaxRotations
  BY SessionAssumption
<1>3. PICK row \in FamilyType : row = [issuer[f] EXCEPT !.user = flow[f].user, !.live = renews, !.newest = 1]
  BY <1>1, <1>2 DEF FamilyType
<1>4. row.user = flow[f].user /\ row.newest = 1
  BY <1>1, <1>3 DEF FamilyType
<1>5. issuer' = [issuer EXCEPT ![f] = row]
  BY <1>1, <1>3 DEF Exchange, FamilyType
<1> QED BY <1>1, <1>4, <1>5

(* The issuer's rows after a step of a sign-in.                            *)
LEMMA SignInIssuer ==
  ASSUME SessionTypeOK, NEW f \in Families, SignIn(f)
  PROVE  issuer' \in [Families -> FamilyType]
<1>1. CASE UNCHANGED issuer
  BY <1>1 DEF SessionTypeOK
<1>2. CASE \E g \in Families : issuer' = Revoked(g)
  BY <1>2, RevokedRow
<1>3. CASE \E renews \in Contracts : Exchange(f, renews)
  BY <1>3, ExchangedRow
<1>4. flow[f].prior # None => flow[f].prior[1] \in Families
  BY TokenParts DEF SessionTypeOK, FlowType, Maybe
<1> QED BY <1>1, <1>2, <1>3, <1>4 DEF SignIn, SsoStart, Callback, ExchangeFails, RevokePrior, TakeCallback

(* Every step keeps the types, and a dead tab dead to old answers.         *)
LEMMA SessionTyped ==
  ASSUME SessionTypeOK, DeadTabs, SessionNext
  PROVE  SessionTypeOK' /\ DeadTabs'
<1>1. jar' \in JarType
  BY JarStep
<1>2. CASE \E p \in Pages : Page(p)
  <2>1. PICK p \in Pages : Page(p)
    BY <1>2
  <2>2. UNCHANGED flow /\ UNCHANGED issuer /\ (UNCHANGED faults \/ Fault)
    BY <2>1 DEF Page, Open, Refresh, TakeInstalled, TakeCleared, TakeBusy, TakeFailed, LoseRefresh, Call, CallRefreshes,
       CallInvalidates, SignOut, SendLogout, TakeLogout, LoseLogout, SendsAgain
  <2>3. faults' \in 0 .. MaxFaults
    BY <2>2, FaultTyped
  <2>4. DeadTabs'
    BY <2>1, TabStep DEF DeadTabs, DeadRow
  <2> QED BY <1>1, <2>1, <2>2, <2>3, <2>4, SharedStep, TabStep, ApiStep, OutStep DEF SessionTypeOK
<1>3. CASE \E p \in Pages : Worker(p)
  <2>1. PICK p \in Pages : Worker(p)
    BY <1>3
  <2>2. UNCHANGED <<flow, tab, api>> /\ (UNCHANGED faults \/ Fault)
    BY <2>1 DEF Worker, RefreshAbsent, RefreshRotates, RefreshUnverified, RefreshBusy, RefreshRefused,
       RefreshFails, RefreshThrottled, Logout
  <2>3. faults' \in 0 .. MaxFaults
    BY <2>2, FaultTyped
  <2> QED BY <1>1, <2>1, <2>2, <2>3, WorkerShared, WorkerIssuer, OutStep DEF SessionTypeOK, DeadTabs
<1>4. CASE \E f \in Families : SignIn(f)
  <2>1. PICK f \in Families : SignIn(f)
    BY <1>4
  <2>2. UNCHANGED <<shared, tab, api, out>> /\ (UNCHANGED faults \/ Fault)
    BY <2>1 DEF SignIn, SsoStart, Callback, Exchange, ExchangeFails, RevokePrior, TakeCallback
  <2>3. faults' \in 0 .. MaxFaults
    BY <2>2, FaultTyped
  <2>4. flow' \in [Families -> FlowType]
    BY <2>1, FlowRow DEF SessionTypeOK
  <2> QED BY <1>1, <2>1, <2>2, <2>3, <2>4, SignInIssuer DEF SessionTypeOK, DeadTabs
<1>5. CASE \E f \in Families : GraceEnds(f)
  <2>1. issuer' \in [Families -> FamilyType]
    BY <1>5, GraceRow
  <2> QED BY <1>1, <1>5, <2>1 DEF GraceEnds, SessionTypeOK, DeadTabs
<1>6. CASE AccessExpires
  BY <1>1, <1>6 DEF AccessExpires, SessionTypeOK, DeadTabs
<1> QED BY <1>2, <1>3, <1>4, <1>5, <1>6 DEF SessionNext

(* A refresh token anybody holds is one its family has issued, and the     *)
(* sign-in that started the family is over.                                *)
Known(t) ==
  t # None => /\ issuer[t[1]].user # None
              /\ t[2] <= issuer[t[1]].newest
              /\ flow[t[1]].step \notin {"away", "exchanging", "revoking", "done"}

HoldersKnown ==
  /\ Known(jar.refresh)
  /\ \A p \in Pages : Known(shared[p].token) /\ Known(shared[p].next) /\ Known(out[p].token)
  /\ \A f \in Families : Known(flow[f].prior)

FlowsSound ==
  \A f \in Families :
    /\ flow[f].step \in {"exchanging", "revoking", "done"} => flow[f].user # None
    /\ flow[f].step \in {"revoking", "done"} => issuer[f].user # None /\ issuer[f].newest = 1

(* What the answer on its way to a page says of the token it was for.      *)
RepliesSound ==
  \A p \in Pages :
    /\ shared[p].step = "idle" => shared[p].token = None
    /\ shared[p].next # None => shared[p].step = "answered" /\ shared[p].reply = "installed"
    /\ shared[p].step = "answered" /\ shared[p].reply = "installed" => shared[p].next # None
    /\ shared[p].step = "answered" /\ shared[p].reply = "absent" => shared[p].token = None
    /\ shared[p].step = "answered" /\ shared[p].reply = "refused" =>
         shared[p].token # None /\ ~ issuer[shared[p].token[1]].live

Older(t, u) == t # None /\ t[1] = u[1] => t[2] < u[2]

(* A successor on its way to the jar is the newest token of its family, and *)
(* nobody else has it.                                                     *)
SoleSuccessor ==
  \A p \in Pages : shared[p].next # None =>
    /\ shared[p].next[2] = issuer[shared[p].next[1]].newest
    /\ Older(jar.refresh, shared[p].next)
    /\ \A q \in Pages : Older(shared[q].token, shared[p].next)
    /\ \A q \in Pages \ {p} : Older(shared[q].next, shared[p].next)

Core == HoldersKnown /\ FlowsSound /\ RepliesSound /\ SoleSuccessor

Pending == {"away", "exchanging", "revoking", "done"}

(* A step that issues no token: who held one holds it or none, a tab may   *)
(* take what the jar holds, and the answer of the worker is no success.    *)
Slot(s, t) ==
  \/ t = s
  \/ t.step = "idle" /\ t.token = None /\ t.next = None
  \/ t.step = "sent" /\ t.token = jar.refresh /\ t.next = None
  \/ /\ s.next = None
     /\ t.step = "answered" /\ t.reply # "installed" /\ t.token = s.token /\ t.next = None
     /\ t.reply = "absent" => t.token = None
     /\ t.reply = "refused" => t.token # None /\ ~ issuer'[t.token[1]].live

Shrinks ==
  /\ \A f \in Families : /\ issuer'[f].user = issuer[f].user /\ issuer'[f].newest = issuer[f].newest
                         /\ issuer'[f].live => issuer[f].live
  /\ jar'.refresh = jar.refresh \/ jar'.refresh = None
  /\ \A p \in Pages : Slot(shared[p], shared'[p])
  /\ \A p \in Pages : out'[p].token \in {out[p].token, None, jar.refresh}
  /\ \A f \in Families :
       /\ flow'[f].prior \in {flow[f].prior, None, jar.refresh}
       /\ flow'[f].step \in Pending => flow[f].step \in Pending \/ issuer[f].user = None

LEMMA KnownStays ==
  ASSUME SessionTypeOK, Shrinks, NEW t \in Maybe(Tokens), Known(t)
  PROVE  Known(t)'
<1>1. CASE t = None
  BY <1>1 DEF Known
<1>2. CASE t # None
  <2>1. t[1] \in Families
    BY <1>2, TokenParts DEF Maybe
  <2> QED BY <1>2, <2>1 DEF Known, Shrinks, Pending
<1> QED BY <1>1, <1>2

LEMMA ShrinksKeeps ==
  ASSUME SessionTypeOK, SessionTypeOK', Core, Shrinks, FlowsSound'
  PROVE  Core'
<1>0. /\ jar.refresh \in Maybe(Tokens) /\ \A p \in Pages : shared[p].token \in Maybe(Tokens) /\ shared[p].next \in Maybe(Tokens)
      /\ \A p \in Pages : out[p].token \in Maybe(Tokens)
      /\ \A f \in Families : flow[f].prior \in Maybe(Tokens)
  BY DEF SessionTypeOK, JarType, SharedType, OutType, FlowType
<1>1. \A t \in Maybe(Tokens) : Known(t) => Known(t)'
  BY KnownStays
<1>2. Known(None)'
  BY DEF Known
<1>3. Known(jar.refresh)' /\ \A p \in Pages : Known(shared[p].token)' /\ Known(shared[p].next)' /\ Known(out[p].token)'
  <2>1. jar'.refresh \in {jar.refresh, None}
    BY DEF Shrinks
  <2>2. \A p \in Pages : /\ shared'[p].token \in {shared[p].token, None, jar.refresh}
                         /\ shared'[p].next \in {shared[p].next, None}
                         /\ out'[p].token \in {out[p].token, None, jar.refresh}
    BY DEF Shrinks, Slot
  <2> QED BY <1>0, <1>1, <1>2, <2>1, <2>2 DEF Core, HoldersKnown
<1>4. HoldersKnown'
  BY <1>0, <1>1, <1>2, <1>3 DEF Core, HoldersKnown, Shrinks
<1>5. RepliesSound'
  <2> SUFFICES ASSUME NEW p \in Pages
               PROVE  /\ shared'[p].step = "idle" => shared'[p].token = None
                      /\ shared'[p].next # None => shared'[p].step = "answered" /\ shared'[p].reply = "installed"
                      /\ shared'[p].step = "answered" /\ shared'[p].reply = "installed" => shared'[p].next # None
                      /\ shared'[p].step = "answered" /\ shared'[p].reply = "absent" => shared'[p].token = None
                      /\ shared'[p].step = "answered" /\ shared'[p].reply = "refused" =>
                           shared'[p].token # None /\ ~ issuer'[shared'[p].token[1]].live
    BY DEF RepliesSound
  <2>1. Slot(shared[p], shared'[p])
    BY DEF Shrinks
  <2>2. CASE shared'[p] = shared[p]
    <3>1. shared[p].token # None => shared[p].token[1] \in Families
      BY <1>0, TokenParts DEF Maybe
    <3> QED BY <2>2, <3>1 DEF Core, RepliesSound, Shrinks
  <2> QED BY <2>1, <2>2 DEF Slot
<1>6. SoleSuccessor'
  <2> SUFFICES ASSUME NEW p \in Pages, shared'[p].next # None
               PROVE  /\ shared'[p].next[2] = issuer'[shared'[p].next[1]].newest
                      /\ Older(jar'.refresh, shared'[p].next)
                      /\ \A q \in Pages : Older(shared'[q].token, shared'[p].next)
                      /\ \A q \in Pages \ {p} : Older(shared'[q].next, shared'[p].next)
    BY DEF SoleSuccessor, Older
  <2>1. shared'[p] = shared[p] /\ shared[p].next # None
    BY DEF Shrinks, Slot
  <2>2. shared[p].next[1] \in Families
    BY <1>0, <2>1, TokenParts DEF Maybe
  <2>3. \A t : Older(None, t)
    BY DEF Older
  <2>4. \A q \in Pages : shared'[q].token \in {shared[q].token, None, jar.refresh} /\ shared'[q].next \in {shared[q].next, None}
    BY DEF Shrinks, Slot
  <2> QED BY <2>1, <2>2, <2>3, <2>4 DEF Core, SoleSuccessor, Shrinks
<1> QED BY <1>4, <1>5, <1>6 DEF Core

SameFlow == flow' = flow /\ jar' = jar /\ out' = out

(* A rotation whose answer is not on its way to the jar: the token is lost. *)
LEMMA LostKeeps ==
  ASSUME SessionTypeOK, SessionTypeOK', Core, UNCHANGED <<jar, flow, out>>,
         NEW p \in Pages, shared[p].step = "sent", shared[p].token # None, Newest(shared[p].token),
         shared[p].token[2] < MaxRotations, issuer' = Rotated(shared[p].token[1]),
         NEW r \in {"unverified", "failed"}, Replies(p, r)
  PROVE  Core'
<1> DEFINE t == shared[p].token
<1>0. /\ t \in Tokens /\ t[1] \in Families /\ t[2] = issuer[t[1]].newest /\ issuer[t[1]].newest \in Nat
      /\ issuer[t[1]].newest < MaxRotations
      /\ \A f \in Families : issuer[f].newest \in Nat
  BY TokenParts, SessionAssumption DEF SessionTypeOK, SharedType, FamilyType, Maybe, Newest
<1>1. /\ \A f \in Families : f # t[1] => issuer'[f] = issuer[f]
      /\ issuer'[t[1]].user = issuer[t[1]].user /\ issuer'[t[1]].live = issuer[t[1]].live
      /\ issuer'[t[1]].newest = issuer[t[1]].newest + 1
  BY <1>0, RotatedRow
<1>2. /\ \A q \in Pages : q # p => shared'[q] = shared[q]
      /\ shared'[p].step = "answered" /\ shared'[p].reply = r /\ shared'[p].token = t /\ shared'[p].next = shared[p].next
  BY ReplyRow DEF Replied, Clears
<1>3. shared[p].next = None
  BY DEF Core, RepliesSound
<1>4. \A q \in Pages : shared'[q].token = shared[q].token /\ shared'[q].next = shared[q].next
  BY <1>2
<1> HIDE DEF t
<1>5. ASSUME NEW u \in Maybe(Tokens), Known(u) PROVE Known(u)'
  <2>1. u # None => u[1] \in Families /\ u[2] \in Nat
    BY TokenParts, SessionAssumption DEF Maybe
  <2> QED BY <1>0, <1>1, <1>5, <2>1 DEF Known
<1>6. HoldersKnown'
  <2>1. /\ jar.refresh \in Maybe(Tokens)
        /\ \A q \in Pages : shared[q].token \in Maybe(Tokens) /\ shared[q].next \in Maybe(Tokens) /\ out[q].token \in Maybe(Tokens)
        /\ \A f \in Families : flow[f].prior \in Maybe(Tokens)
    BY DEF SessionTypeOK, JarType, SharedType, OutType, FlowType
  <2> QED BY <1>4, <1>5, <2>1 DEF Core, HoldersKnown
<1>7. FlowsSound'
  <2>1. flow[t[1]].step \notin Pending
    BY DEF Core, HoldersKnown, Known, Pending, t
  <2> QED BY <1>1, <2>1 DEF Core, FlowsSound, Pending
<1>8. RepliesSound'
  <2>1. \A q \in Pages : shared[q].token # None => shared[q].token[1] \in Families
    BY TokenParts DEF SessionTypeOK, SharedType, Maybe
  <2>2. \A f \in Families : issuer'[f].live = issuer[f].live
    BY <1>1
  <2> QED BY <1>2, <1>3, <2>1, <2>2 DEF Core, RepliesSound
<1>9. SoleSuccessor'
  <2>1. \A q \in Pages : shared[q].next # None => shared[q].next[1] \in Families /\ shared[q].next[1] # t[1]
    <3> SUFFICES ASSUME NEW q \in Pages, shared[q].next # None PROVE shared[q].next[1] \in Families /\ shared[q].next[1] # t[1]
      OBVIOUS
    <3>1. shared[q].next[1] \in Families
      BY TokenParts DEF SessionTypeOK, SharedType, Maybe
    <3>2. shared[q].next[2] = issuer[shared[q].next[1]].newest /\ (t[1] = shared[q].next[1] => t[2] < shared[q].next[2])
      BY DEF Core, SoleSuccessor, Older, t
    <3> QED BY <1>0, <3>1, <3>2
  <2>2. \A q \in Pages : shared[q].next # None =>
          issuer'[shared[q].next[1]].newest = issuer[shared[q].next[1]].newest
    BY <1>1, <2>1
  <2>3. jar' = jar
    BY <1>1
  <2>4. SoleSuccessor
    BY DEF Core
  <2> SUFFICES ASSUME NEW q \in Pages, shared'[q].next # None
      PROVE  /\ shared'[q].next[2] = issuer'[shared'[q].next[1]].newest
             /\ Older(jar'.refresh, shared'[q].next)
             /\ \A o \in Pages : Older(shared'[o].token, shared'[q].next)
             /\ \A o \in Pages \ {q} : Older(shared'[o].next, shared'[q].next)
    BY DEF SoleSuccessor, Older
  <2>5. shared'[q].next = shared[q].next
    BY <1>4
  <2>6. shared[q].next[2] = issuer[shared[q].next[1]].newest /\ Older(jar.refresh, shared[q].next)
    BY <2>4, <2>5 DEF SoleSuccessor
  <2>7. \A o \in Pages : Older(shared[o].token, shared[q].next)
    BY <2>4, <2>5 DEF SoleSuccessor
  <2>8. \A o \in Pages \ {q} : Older(shared[o].next, shared[q].next)
    BY <2>4, <2>5 DEF SoleSuccessor
  <2> QED BY <1>4, <2>2, <2>3, <2>5, <2>6, <2>7, <2>8
<1> QED BY <1>6, <1>7, <1>8, <1>9 DEF Core

(* A rotation whose answer brings the successor.                           *)
LEMMA RotatesKeeps ==
  ASSUME SessionTypeOK, SessionTypeOK', Core, NEW p \in Pages, RefreshRotates(p)
  PROVE  Core'
<1> DEFINE t == shared[p].token
           n == <<t[1], t[2] + 1>>
<1>0. /\ t \in Tokens /\ t[1] \in Families /\ t[2] = issuer[t[1]].newest /\ issuer[t[1]].newest \in Nat
      /\ issuer[t[1]].newest < MaxRotations
      /\ \A f \in Families : issuer[f].newest \in Nat
      /\ n \in Tokens
  <2>1. t \in Tokens /\ t[1] \in Families /\ t[2] \in 1 .. MaxRotations
    BY TokenParts DEF SessionTypeOK, SharedType, Maybe, RefreshRotates
  <2>2. \A f \in Families : issuer[f].newest \in Nat
    BY SessionAssumption DEF SessionTypeOK, FamilyType
  <2>3. t[2] = issuer[t[1]].newest /\ issuer[t[1]].newest < MaxRotations
    BY DEF RefreshRotates, Newest
  <2>4. t[2] + 1 \in 1 .. MaxRotations
    BY <2>1, <2>3, SessionAssumption
  <2> QED BY <2>1, <2>2, <2>3, <2>4, TokenMade
<1>1. /\ \A f \in Families : f # t[1] => issuer'[f] = issuer[f]
      /\ issuer'[t[1]].user = issuer[t[1]].user /\ issuer'[t[1]].live = issuer[t[1]].live
      /\ issuer'[t[1]].newest = issuer[t[1]].newest + 1
  BY <1>0, RotatedRow DEF RefreshRotates
<1>2. /\ \A q \in Pages : q # p => shared'[q] = shared[q]
      /\ shared'[p].step = "answered" /\ shared'[p].reply = "installed" /\ shared'[p].token = t /\ shared'[p].next = n
      /\ UNCHANGED <<jar, flow, out>>
  BY RotatesTyped DEF RefreshRotates
<1>3. shared[p].next = None
  BY DEF Core, RepliesSound, RefreshRotates, Asked
<1>4. /\ \A q \in Pages : shared'[q].token = shared[q].token
      /\ \A q \in Pages \ {p} : shared'[q].next = shared[q].next
  BY <1>2
<1>10. n # None /\ n[1] = t[1] /\ n[2] = issuer[t[1]].newest + 1
  BY <1>0, TokenParts
<1>11. flow[t[1]].step \notin Pending /\ issuer[t[1]].user # None /\ t # None
  BY DEF Core, HoldersKnown, Known, Pending, RefreshRotates
<1>12. /\ jar.refresh \in Maybe(Tokens)
       /\ \A q \in Pages : shared[q].token \in Maybe(Tokens) /\ shared[q].next \in Maybe(Tokens) /\ out[q].token \in Maybe(Tokens)
       /\ \A f \in Families : flow[f].prior \in Maybe(Tokens)
  BY DEF SessionTypeOK, JarType, SharedType, OutType, FlowType
<1>13. \A q \in Pages : (shared[q].next # None => shared[q].next[1] \in Families /\ shared[q].next[1] # t[1])
  <2> SUFFICES ASSUME NEW q \in Pages, shared[q].next # None PROVE shared[q].next[1] \in Families /\ shared[q].next[1] # t[1]
    OBVIOUS
  <2>1. shared[q].next[1] \in Families
    BY TokenParts DEF SessionTypeOK, SharedType, Maybe
  <2>2. shared[q].next[2] = issuer[shared[q].next[1]].newest /\ (t[1] = shared[q].next[1] => t[2] < shared[q].next[2])
    BY <1>11 DEF Core, SoleSuccessor, Older
  <2> QED BY <1>0, <2>1, <2>2
<1> HIDE DEF t, n
<1>5. ASSUME NEW u \in Maybe(Tokens), Known(u) PROVE Known(u)'
  <2>1. u # None => u[1] \in Families /\ u[2] \in Nat
    BY TokenParts, SessionAssumption DEF Maybe
  <2> QED BY <1>0, <1>1, <1>2, <1>5, <2>1 DEF Known
<1>14. ASSUME NEW u \in Tokens, u = n PROVE Known(u)'
  BY <1>0, <1>1, <1>2, <1>10, <1>11, <1>14 DEF Known, Pending
<1>6. HoldersKnown'
  <2>1. Known(jar.refresh)' /\ \A f \in Families : Known(flow[f].prior)'
    BY <1>2, <1>5, <1>12 DEF Core, HoldersKnown
  <2>2. \A q \in Pages : Known(shared[q].token)' /\ Known(out[q].token)'
    BY <1>2, <1>4, <1>5, <1>12 DEF Core, HoldersKnown
  <2>3. \A q \in Pages : Known(shared[q].next)'
    BY <1>0, <1>2, <1>4, <1>5, <1>12, <1>14 DEF Core, HoldersKnown
  <2> QED BY <2>1, <2>2, <2>3 DEF HoldersKnown
<1>7. FlowsSound'
  BY <1>1, <1>2, <1>11 DEF Core, FlowsSound, Pending
<1>8. RepliesSound'
  <2>1. \A q \in Pages : shared[q].token # None => shared[q].token[1] \in Families
    BY TokenParts DEF SessionTypeOK, SharedType, Maybe
  <2>2. \A f \in Families : issuer'[f].live = issuer[f].live
    BY <1>1
  <2> QED BY <1>2, <1>3, <1>10, <2>1, <2>2 DEF Core, RepliesSound
<1>9. SoleSuccessor'
  <2>1. \A u \in Maybe(Tokens) : Known(u) => Older(u, n)
    <3> SUFFICES ASSUME NEW u \in Maybe(Tokens), Known(u), u # None, u[1] = n[1] PROVE u[2] < n[2]
      BY DEF Older
    <3>1. u[2] \in Nat /\ u[2] <= issuer[t[1]].newest
      BY <1>10, TokenParts, SessionAssumption DEF Maybe, Known
    <3> QED BY <1>0, <1>10, <3>1
  <2>2. Older(jar.refresh, n) /\ \A q \in Pages : Older(shared[q].token, n) /\ Older(shared[q].next, n)
    BY <1>12, <2>1 DEF Core, HoldersKnown
  <2>3. \A q \in Pages : shared[q].next # None => Older(n, shared[q].next)
    BY <1>10, <1>13 DEF Older
  <2> SUFFICES ASSUME NEW q \in Pages, shared'[q].next # None
               PROVE  /\ shared'[q].next[2] = issuer'[shared'[q].next[1]].newest
                      /\ Older(jar'.refresh, shared'[q].next)
                      /\ \A o \in Pages : Older(shared'[o].token, shared'[q].next)
                      /\ \A o \in Pages \ {q} : Older(shared'[o].next, shared'[q].next)
    BY DEF SoleSuccessor, Older
  <2>4. CASE q = p
    BY <1>1, <1>2, <1>4, <1>10, <2>2, <2>4
  <2>5. CASE q # p
    <3>1. shared'[q].next = shared[q].next
      BY <1>4, <2>5
    <3>2. shared'[q].next[2] = issuer'[shared'[q].next[1]].newest
      BY <1>1, <1>13, <3>1 DEF Core, SoleSuccessor
    <3>3. Older(n, shared'[q].next)
      BY <2>3, <3>1
    <3> QED BY <1>2, <1>4, <3>1, <3>2, <3>3 DEF Core, SoleSuccessor
  <2> QED BY <2>4, <2>5
<1> QED BY <1>6, <1>7, <1>8, <1>9 DEF Core

(* The successor reaches the jar.                                          *)
LEMMA InstalledKeeps ==
  ASSUME SessionTypeOK, SessionTypeOK', Core, NEW p \in Pages, TakeInstalled(p)
  PROVE  Core'
<1> DEFINE n == shared[p].next
<1>0. n # None /\ n \in Maybe(Tokens) /\ jar'.refresh = n /\ UNCHANGED <<issuer, flow, out>>
  BY DEF TakeInstalled, Core, RepliesSound, SessionTypeOK, SharedType, WithSession, JarType
<1>1. /\ \A q \in Pages : q # p => shared'[q] = shared[q]
      /\ shared'[p].step = "idle" /\ shared'[p].token = None /\ shared'[p].next = None
  BY NoneShared DEF TakeInstalled, SessionTypeOK
<1>2. Known(None)' /\ \A u : Older(None, u)
  BY DEF Known, Older
<1>3. ASSUME NEW u \in Maybe(Tokens), Known(u) PROVE Known(u)'
  BY <1>0, <1>3 DEF Known
<1>8. /\ jar.refresh \in Maybe(Tokens)
      /\ \A q \in Pages : shared[q].token \in Maybe(Tokens) /\ shared[q].next \in Maybe(Tokens) /\ out[q].token \in Maybe(Tokens)
      /\ \A f \in Families : flow[f].prior \in Maybe(Tokens)
  BY DEF SessionTypeOK, JarType, SharedType, OutType, FlowType
<1>4. HoldersKnown'
  <2>1. Known(jar.refresh)'
    BY <1>0, <1>3 DEF Core, HoldersKnown
  <2>2. \A q \in Pages : Known(shared[q].token)' /\ Known(shared[q].next)' /\ Known(out[q].token)'
    BY <1>0, <1>1, <1>2, <1>3, <1>8 DEF Core, HoldersKnown
  <2>3. \A f \in Families : Known(flow[f].prior)'
    BY <1>0, <1>3, <1>8 DEF Core, HoldersKnown
  <2> QED BY <2>1, <2>2, <2>3 DEF HoldersKnown
<1>5. FlowsSound'
  BY <1>0 DEF Core, FlowsSound
<1>6. RepliesSound'
  BY <1>0, <1>1 DEF Core, RepliesSound
<1>7. SoleSuccessor'
  <2> SUFFICES ASSUME NEW q \in Pages, shared'[q].next # None
               PROVE  /\ shared'[q].next[2] = issuer'[shared'[q].next[1]].newest
                      /\ Older(jar'.refresh, shared'[q].next)
                      /\ \A o \in Pages : Older(shared'[o].token, shared'[q].next)
                      /\ \A o \in Pages \ {q} : Older(shared'[o].next, shared'[q].next)
    BY DEF SoleSuccessor, Older
  <2>1. q # p /\ shared'[q] = shared[q]
    BY <1>1
  <2> QED BY <1>0, <1>1, <1>2, <2>1 DEF Core, SoleSuccessor
<1> QED BY <1>4, <1>5, <1>6, <1>7 DEF Core

LEMMA Holders ==
  ASSUME SessionTypeOK
  PROVE  /\ jar.refresh \in Maybe(Tokens)
         /\ \A q \in Pages : shared[q].token \in Maybe(Tokens) /\ shared[q].next \in Maybe(Tokens) /\ out[q].token \in Maybe(Tokens)
         /\ \A f \in Families : flow[f].prior \in Maybe(Tokens)
BY DEF SessionTypeOK, JarType, SharedType, OutType, FlowType

(* The first token of a new family reaches the jar.                        *)
LEMMA SignedKeeps ==
  ASSUME SessionTypeOK, Core, NEW f \in Families, TakeCallback(f),
         flow[f].step = "done", flow[f].ui, flow[f].renews
  PROVE  Core'
<1> USE DEF Pending
<1>0. 1 \in 1 .. MaxRotations
  BY SessionAssumption
<1>1. PICK n \in Tokens : n = <<f, 1>> /\ n[1] = f /\ n[2] = 1 /\ n # None
  BY <1>0, TokenMade
<1>2. jar'.refresh = n /\ UNCHANGED <<issuer, shared, out>>
  BY <1>1 DEF TakeCallback, WithoutFlow, WithSession, SessionTypeOK, JarType
<1>3. /\ flow'[f].step = "over" /\ flow'[f].prior = None
      /\ \A g \in Families : g # f => flow'[g] = flow[g]
  BY DEF TakeCallback, NoFlow, SessionTypeOK
<1>4. issuer[f].user # None /\ issuer[f].newest = 1
  BY DEF Core, FlowsSound
<1>5. ASSUME NEW u \in Maybe(Tokens), Known(u) PROVE Known(u)' /\ (u # None => u[1] # f)
  <2>1. u # None => u[1] \in Families
    BY TokenParts DEF Maybe
  <2> QED BY <1>2, <1>3, <1>5, <2>1 DEF Known
<1>6. Known(None)' /\ Known(n)'
  BY <1>1, <1>2, <1>3, <1>4 DEF Known
<1>7. HoldersKnown'
  <2>1. Known(jar.refresh)'
    BY <1>2, <1>6
  <2>2. \A q \in Pages : Known(shared[q].token)' /\ Known(shared[q].next)' /\ Known(out[q].token)'
    BY <1>2, <1>5, Holders DEF Core, HoldersKnown
  <2>3. \A g \in Families : Known(flow[g].prior)'
    BY <1>3, <1>5, <1>6, Holders DEF Core, HoldersKnown
  <2> QED BY <2>1, <2>2, <2>3 DEF HoldersKnown
<1>8. FlowsSound'
  BY <1>2, <1>3 DEF Core, FlowsSound
<1>9. RepliesSound'
  BY <1>2 DEF Core, RepliesSound
<1>10. SoleSuccessor'
  <2>1. \A q \in Pages : shared[q].next # None => shared[q].next[1] # f
    BY <1>5, Holders DEF Core, HoldersKnown
  <2>2. \A q \in Pages : shared[q].next # None => Older(n, shared[q].next)
    BY <1>1, <2>1 DEF Older
  <2> QED BY <1>2, <2>2 DEF Core, SoleSuccessor
<1> QED BY <1>7, <1>8, <1>9, <1>10 DEF Core

(* The family of a sign-in is created.                                     *)
LEMMA ExchangeKeeps ==
  ASSUME SessionTypeOK, Core, NEW f \in Families, NEW renews \in Contracts, Exchange(f, renews)
  PROVE  Core'
<1> USE DEF Pending
<1>1. /\ \A g \in Families : g # f => issuer'[g] = issuer[g]
      /\ issuer'[f].user = flow[f].user /\ issuer'[f].newest = 1 /\ flow[f].user # None
      /\ UNCHANGED <<jar, shared, out>>
  BY ExchangedRow DEF Exchange, Core, FlowsSound
<1>2. /\ \A g \in Families : g # f => flow'[g] = flow[g]
      /\ flow'[f].step \in {"revoking", "done"} /\ flow'[f].user = flow[f].user /\ flow'[f].prior = flow[f].prior
  BY DEF Exchange, SessionTypeOK, FlowType
<1>3. ASSUME NEW u \in Maybe(Tokens), Known(u) PROVE Known(u)' /\ (u # None => u[1] \in Families /\ u[1] # f)
  <2>1. u # None => u[1] \in Families
    BY TokenParts DEF Maybe
  <2>2. flow[f].step = "exchanging"
    BY DEF Exchange
  <2> QED BY <1>1, <1>2, <1>3, <2>1, <2>2 DEF Known
<1>4. HoldersKnown'
  <2>1. Known(jar.refresh)'
    BY <1>1, <1>3, Holders DEF Core, HoldersKnown
  <2>2. \A q \in Pages : Known(shared[q].token)' /\ Known(shared[q].next)' /\ Known(out[q].token)'
    BY <1>1, <1>3, Holders DEF Core, HoldersKnown
  <2>3. \A g \in Families : Known(flow[g].prior)'
    BY <1>2, <1>3, Holders DEF Core, HoldersKnown
  <2> QED BY <2>1, <2>2, <2>3 DEF HoldersKnown
<1>5. FlowsSound'
  BY <1>1, <1>2 DEF Core, FlowsSound
<1>6. \A q \in Pages : /\ shared[q].token # None => shared[q].token[1] \in Families /\ shared[q].token[1] # f
                       /\ shared[q].next # None => shared[q].next[1] \in Families /\ shared[q].next[1] # f
  BY <1>3, Holders DEF Core, HoldersKnown
<1>7. RepliesSound'
  BY <1>1, <1>6 DEF Core, RepliesSound
<1>8. SoleSuccessor'
  BY <1>1, <1>6 DEF Core, SoleSuccessor
<1> QED BY <1>4, <1>5, <1>7, <1>8 DEF Core

(* The other steps of a sign-in issue no token.                            *)
LEMMA SignInKeeps ==
  ASSUME SessionTypeOK, SessionTypeOK', Core, NEW f \in Families, SignIn(f)
  PROVE  Core'
<1>1. CASE \E renews \in Contracts : Exchange(f, renews)
  BY <1>1, ExchangeKeeps
<1>2. CASE TakeCallback(f) /\ flow[f].step = "done" /\ flow[f].ui /\ flow[f].renews
  BY <1>2, SignedKeeps
<1>3. ASSUME ~ \E renews \in Contracts : Exchange(f, renews),
             ~ (TakeCallback(f) /\ flow[f].step = "done" /\ flow[f].ui /\ flow[f].renews)
      PROVE  Core'
  <2>1. PICK row \in FlowType :
           /\ flow' = [flow EXCEPT ![f] = row]
           /\ row.prior = flow[f].prior \/ row.prior = None \/ row.prior = jar.refresh
           /\ \/ row.step = "away" /\ issuer[f].user = None /\ UNCHANGED issuer
              \/ row.step = "exchanging" /\ row.user \in Users /\ flow[f].step = "away"
              \/ row.step \in {"over", "failed"}
              \/ row.step \in {"revoking", "done"} /\ row.user = flow[f].user /\ flow[f].step = "revoking"
    BY <1>3, FlowRow
  <2>2. /\ \A g \in Families : g # f => flow'[g] = flow[g]
        /\ flow'[f] = row
    BY <2>1 DEF SessionTypeOK
  <2>3. \/ UNCHANGED issuer
        \/ \E g \in Families : issuer' = Revoked(g)
    <3>1. flow[f].prior # None => flow[f].prior[1] \in Families
      BY TokenParts, Holders DEF Maybe
    <3> QED BY <1>3, <3>1 DEF SignIn, SsoStart, Callback, ExchangeFails, RevokePrior, TakeCallback
  <2>4. \A g \in Families : /\ issuer'[g].user = issuer[g].user /\ issuer'[g].newest = issuer[g].newest
                            /\ issuer'[g].live => issuer[g].live
    BY <2>3, RevokedRow
  <2>5. UNCHANGED <<shared, out>> /\ jar'.refresh = jar.refresh
    BY <1>3 DEF SignIn, SsoStart, Callback, ExchangeFails, RevokePrior, TakeCallback, WithoutFlow, WithSession, SessionTypeOK,
       JarType
  <2>6. FlowsSound'
    <3>1. None \notin Users
      BY UserAssumption
    <3> QED BY <2>1, <2>2, <2>4, <3>1 DEF Core, FlowsSound
  <2>7. Shrinks
    <3>1. \A g \in Families : /\ flow'[g].prior \in {flow[g].prior, None, jar.refresh}
                              /\ flow'[g].step \in Pending => flow[g].step \in Pending \/ issuer[g].user = None
      BY <2>1, <2>2 DEF Pending
    <3> QED BY <2>4, <2>5, <3>1 DEF Shrinks, Slot
  <2> QED BY <2>6, <2>7, ShrinksKeeps
<1> QED BY <1>1, <1>2, <1>3

(* The replies that bring no token.                                        *)
LEMMA WorkerKeeps ==
  ASSUME SessionTypeOK, SessionTypeOK', Core, NEW p \in Pages, Worker(p)
  PROVE  Core'
<1> DEFINE t == shared[p].token
<1>0. (t # None => t[1] \in Families) /\ (out[p].token # None => out[p].token[1] \in Families)
  BY TokenParts, Holders DEF Maybe
<1>1. CASE RefreshRotates(p)
  BY <1>1, RotatesKeeps
<1>2. CASE \E r \in {"unverified", "failed"} :
             /\ shared[p].step = "sent" /\ t # None /\ Newest(t) /\ t[2] < MaxRotations
             /\ issuer' = Rotated(t[1]) /\ Replies(p, r) /\ UNCHANGED <<jar, flow, out>>
  BY <1>2, LostKeeps
<1>3. CASE /\ UNCHANGED <<jar, flow>>
           /\ \A f \in Families : /\ issuer'[f].user = issuer[f].user /\ issuer'[f].newest = issuer[f].newest
                                  /\ issuer'[f].live => issuer[f].live
           /\ \A q \in Pages : out'[q].token = out[q].token
           /\ \/ UNCHANGED shared
              \/ /\ shared[p].step = "sent"
                 /\ \E r \in Replied : /\ Replies(p, r) /\ r # "installed"
                                       /\ r = "absent" => t = None
                                       /\ r = "refused" => t # None /\ ~ issuer'[t[1]].live
  <2>1. FlowsSound'
    BY <1>3 DEF Core, FlowsSound
  <2>2. \A q \in Pages : Slot(shared[q], shared'[q])
    <3>1. CASE UNCHANGED shared
      BY <3>1 DEF Slot
    <3>2. CASE shared[p].step = "sent" /\ ~ UNCHANGED shared
      <4>1. PICK r \in Replied : /\ Replies(p, r) /\ r # "installed"
                                 /\ r = "absent" => t = None
                                 /\ r = "refused" => t # None /\ ~ issuer'[t[1]].live
        BY <1>3, <3>2
      <4>2. shared[p].next = None
        BY <3>2 DEF Core, RepliesSound
      <4> QED BY <4>1, <4>2, ReplyRow DEF Slot
    <3> QED BY <1>3, <3>1, <3>2
  <2>3. Shrinks
    BY <1>3, <2>2 DEF Shrinks
  <2> QED BY <2>1, <2>3, ShrinksKeeps
<1> HIDE DEF t
<1>4. /\ \A f \in Families : Revoked(f)[f].live = FALSE
      /\ \A f, g \in Families : /\ Revoked(f)[g].user = issuer[g].user /\ Revoked(f)[g].newest = issuer[g].newest
                                /\ Revoked(f)[g].live => issuer[g].live
  BY RevokedRow
<1>5. CASE RefreshAbsent(p) \/ RefreshBusy(p) \/ RefreshThrottled(p)
  <2>1. /\ \A f \in Families : /\ issuer'[f].user = issuer[f].user /\ issuer'[f].newest = issuer[f].newest
                               /\ issuer'[f].live => issuer[f].live
        /\ UNCHANGED <<jar, flow, out>> /\ shared[p].step = "sent"
    BY <1>5 DEF RefreshAbsent, RefreshBusy, RefreshThrottled, Asked
  <2>2. \E r \in Replied : Replies(p, r) /\ r # "installed" /\ (r = "absent" => t = None) /\ r # "refused"
    BY <1>5 DEF RefreshAbsent, RefreshBusy, RefreshThrottled, Replied, Clears, t
  <2> QED BY <1>3, <2>1, <2>2
<1>6. CASE RefreshRefused(p)
  <2>1. Replies(p, "refused") /\ t # None /\ issuer' = Revoked(t[1]) /\ "refused" \in Replied /\ shared[p].step = "sent"
        /\ UNCHANGED <<jar, flow, out>>
    BY <1>6 DEF RefreshRefused, Replied, Clears, Asked, t
  <2>2. /\ ~ issuer'[t[1]].live
        /\ \A f \in Families : /\ issuer'[f].user = issuer[f].user /\ issuer'[f].newest = issuer[f].newest
                               /\ issuer'[f].live => issuer[f].live
    BY <1>0, <1>4, <2>1
  <2> QED BY <1>3, <2>1, <2>2
<1>7. CASE RefreshUnverified(p)
  BY <1>2, <1>7 DEF RefreshUnverified, Asked, t
<1>8. CASE RefreshFails(p)
  <2>1. CASE UNCHANGED issuer
    <3>1. Replies(p, "failed") /\ "failed" \in Replied /\ shared[p].step = "sent" /\ UNCHANGED <<jar, flow, out>>
      BY <1>8 DEF RefreshFails, Asked, Replied
    <3> QED BY <1>3, <2>1, <3>1
  <2>2. CASE ~ UNCHANGED issuer
    BY <1>2, <1>8, <2>2 DEF RefreshFails, Asked, t
  <2> QED BY <2>1, <2>2
<1>9. CASE Logout(p)
  <2>1. /\ \A f \in Families : /\ issuer'[f].user = issuer[f].user /\ issuer'[f].newest = issuer[f].newest
                               /\ issuer'[f].live => issuer[f].live
    BY <1>0, <1>4, <1>9 DEF Logout
  <2>2. \A q \in Pages : out'[q].token = out[q].token
    BY <1>9 DEF Logout, SessionTypeOK, OutType
  <2> QED BY <1>3, <1>9, <2>1, <2>2 DEF Logout
<1> QED BY <1>1, <1>5, <1>6, <1>7, <1>8, <1>9 DEF Worker

(* The steps of a tab that bring no token to the jar.                      *)
LEMMA PageKeeps ==
  ASSUME SessionTypeOK, SessionTypeOK', Core, NEW p \in Pages, Page(p)
  PROVE  Core'
<1>1. CASE TakeInstalled(p)
  BY <1>1, InstalledKeeps
<1>2. CASE ~ TakeInstalled(p)
  <2>1. UNCHANGED <<issuer, flow>>
    BY <1>2 DEF Page, Open, Refresh, TakeCleared, TakeBusy, TakeFailed, LoseRefresh, Call, CallRefreshes,
       CallInvalidates, SignOut, SendLogout, TakeLogout, LoseLogout
  <2>2. jar'.refresh \in {jar.refresh, None}
    BY <1>2 DEF Page, Open, Refresh, TakeCleared, TakeBusy, TakeFailed, LoseRefresh, Call, CallRefreshes,
       CallInvalidates, SignOut, SendLogout, TakeLogout, LoseLogout, WithoutFlow, WithoutSession, SessionTypeOK, JarType
  <2>3. \A q \in Pages : out'[q].token \in {out[q].token, None, jar.refresh}
    BY SMTT(60), <1>2 DEF Page, Open, Refresh, TakeCleared, TakeBusy, TakeFailed, LoseRefresh, Call, CallRefreshes,
       CallInvalidates, SignOut, SendLogout, TakeLogout, LoseLogout, NoOut, SessionTypeOK, OutType
  <2>4. \/ UNCHANGED shared
        \/ shared' = [shared EXCEPT ![p] = NoShared]
        \/ \E a \in {1, 2} : shared' = [shared EXCEPT ![p] = Fetch(a)]
    BY <1>2 DEF Page, Open, Refresh, TakeCleared, TakeBusy, TakeFailed, LoseRefresh, Call, CallRefreshes, Failed, Joined,
       CallInvalidates, SignOut, SendLogout, TakeLogout, LoseLogout
  <2>5. \A q \in Pages : Slot(shared[q], shared'[q])
    BY <2>4, NoneShared, FetchRow DEF Slot, SessionTypeOK
  <2>6. FlowsSound'
    BY <2>1 DEF Core, FlowsSound
  <2>7. Shrinks
    BY <2>1, <2>2, <2>3, <2>5 DEF Shrinks
  <2> QED BY <2>6, <2>7, ShrinksKeeps
<1> QED BY <1>1, <1>2

LEMMA CoreKeeps ==
  ASSUME SessionTypeOK, SessionTypeOK', Core, SessionNext
  PROVE  Core'
<1>1. CASE \E f \in Families : GraceEnds(f)
  <2>1. PICK f \in Families : GraceEnds(f)
    BY <1>1
  <2>4. /\ \A g \in Families : /\ issuer'[g].user = issuer[g].user /\ issuer'[g].live = issuer[g].live
                              /\ issuer'[g].newest = issuer[g].newest
        /\ UNCHANGED <<jar, flow, shared, out>>
    BY <2>1, GraceRow DEF GraceEnds
  <2>2. FlowsSound'
    BY <2>4 DEF Core, FlowsSound
  <2>3. Shrinks
    BY <2>4 DEF Shrinks, Slot
  <2> QED BY <2>2, <2>3, ShrinksKeeps
<1>2. CASE AccessExpires
  <2>1. FlowsSound'
    BY <1>2 DEF AccessExpires, Core, FlowsSound
  <2>2. Shrinks
    BY <1>2 DEF AccessExpires, Shrinks, Slot, SessionTypeOK, JarType
  <2> QED BY <2>1, <2>2, ShrinksKeeps
<1> QED BY <1>1, <1>2, SignInKeeps, WorkerKeeps, PageKeeps DEF SessionNext

(* While nothing fails, nobody signs out or in and no grace is missed, the jar *)
(* and every refresh request hold the newest token of one living family or the *)
(* one before it within its grace, and a request never holds a newer one than  *)
(* the jar.                                                                    *)
Quiet == faults = 0 /\ Leaving = {} /\ \A f \in Families : flow[f].step = "none" /\ ~ issuer[f].missed

Honoured(t) == Newest(t) \/ JustRotated(t)

Waiting(p) ==
  shared[p].step = "sent" =>
    /\ shared[p].token # None /\ Honoured(shared[p].token)
    /\ shared[p].token[1] = jar.refresh[1] /\ shared[p].token[2] <= jar.refresh[2]

Kept(p) ==
  /\ ~ tab[p].dead /\ tab[p].signing = "no" /\ api[p] # "refused" /\ out[p].step = "idle"
  /\ shared[p].step = "answered" => shared[p].reply \notin Clears
  /\ shared[p].next # None => shared[p].next[1] = jar.refresh[1]

QuietSound ==
  Quiet => /\ jar.refresh # None /\ Honoured(jar.refresh)
           /\ \A p \in Pages : Kept(p) /\ Waiting(p)

LEMMA FaultCounts == ASSUME SessionTypeOK, Fault PROVE faults' # 0
BY DEF SessionTypeOK, Fault

(* A missed grace is not forgotten.                                        *)
LEMMA MissedStays ==
  ASSUME SessionTypeOK, SessionNext, ~ \E f \in Families : SignIn(f), NEW g \in Families, ~ issuer'[g].missed
  PROVE  ~ issuer[g].missed
<1>1. CASE UNCHANGED issuer
  BY <1>1
<1>2. CASE \E f \in Families : issuer' = Revoked(f)
  BY <1>2, RevokedRow
<1>3. CASE \E f \in Families : issuer[f].newest < MaxRotations /\ issuer' = Rotated(f)
  BY <1>3, RotatedRow
<1>4. CASE \E f \in Families : GraceEnds(f)
  BY <1>4, GraceRow
<1>5. \A p \in Pages : shared[p].token # None => shared[p].token[1] \in Families
  BY TokenParts DEF SessionTypeOK, SharedType, Maybe
<1>6. \A p \in Pages : out[p].token # None => out[p].token[1] \in Families
  BY TokenParts DEF SessionTypeOK, OutType, Maybe
<1>7. CASE \E p \in Pages : Worker(p)
  BY <1>1, <1>2, <1>3, <1>5, <1>6, <1>7 DEF Worker, RefreshAbsent, RefreshRotates, RefreshUnverified, RefreshBusy, RefreshRefused,
       RefreshFails, RefreshThrottled, Logout, Newest
<1>8. CASE \E p \in Pages : Page(p)
  BY <1>1, <1>8 DEF Page, Open, Refresh, TakeInstalled, TakeCleared, TakeBusy, TakeFailed, LoseRefresh, Call, CallRefreshes,
     CallInvalidates, SignOut, SendLogout, TakeLogout, LoseLogout
<1>9. CASE AccessExpires
  BY <1>1, <1>9 DEF AccessExpires
<1> QED BY <1>4, <1>7, <1>8, <1>9 DEF SessionNext

LEMMA QuietBefore ==
  ASSUME SessionTypeOK, DeadTabs, SessionNext, Quiet'
  PROVE  Quiet /\ ~ Fault /\ ~ \E f \in Families : SignIn(f)
<1>1. faults' = 0 /\ \A f \in Families : flow'[f].step = "none" /\ ~ issuer'[f].missed
  BY DEF Quiet
<1>2. ~ Fault
  BY <1>1, FaultCounts
<1>3. ~ \E f \in Families : SignIn(f)
  <2> SUFFICES ASSUME NEW f \in Families, SignIn(f) PROVE FALSE
    OBVIOUS
  <2>1. PICK row : /\ flow' = [flow EXCEPT ![f] = row]
                   /\ row.step \in {"away", "exchanging", "over", "failed", "revoking", "done"}
    BY FlowRow
  <2>2. flow'[f].step = row.step
    BY <2>1 DEF SessionTypeOK
  <2> QED BY <1>1, <2>1, <2>2
<1>4. UNCHANGED <<flow, faults>>
  BY ZenonT(60), <1>2, <1>3 DEF SessionNext, GraceEnds, AccessExpires,
     Page, Open, Refresh, TakeInstalled, TakeCleared, TakeBusy, TakeFailed, LoseRefresh, Call, CallRefreshes,
     CallInvalidates, SignOut, SendLogout, TakeLogout, LoseLogout, SendsAgain,
     Worker, RefreshAbsent, RefreshRotates, RefreshUnverified, RefreshBusy, RefreshRefused, RefreshFails, RefreshThrottled, Logout
<1>5. \A f \in Families : ~ issuer[f].missed
  BY <1>1, <1>3, MissedStays
<1>6. Leaving = {}
  <2>1. \A p \in Pages : ~ tab'[p].leaves
    BY DEF Quiet, Leaving
  <2>2. UNCHANGED tab \/ \E p \in Pages : Page(p)
    BY <1>3 DEF SessionNext, GraceEnds, AccessExpires, Worker, RefreshAbsent, RefreshRotates, RefreshUnverified, RefreshBusy,
       RefreshRefused, RefreshFails, RefreshThrottled, Logout
  <2>3. \A p \in Pages : tab'[p].leaves = tab[p].leaves
    BY <2>2, TabStep
  <2> QED BY <2>1, <2>3 DEF Leaving
<1> QED BY <1>1, <1>2, <1>3, <1>4, <1>5, <1>6 DEF Quiet

(* What the tokens of a quiet browser are made of.                         *)
LEMMA QuietParts ==
  ASSUME SessionTypeOK, jar.refresh # None, Honoured(jar.refresh), \A p \in Pages : Waiting(p)
  PROVE  /\ jar.refresh \in Tokens /\ jar.refresh[1] \in Families /\ jar.refresh[2] \in Nat
         /\ jar.refresh = <<jar.refresh[1], jar.refresh[2]>>
         /\ issuer[jar.refresh[1]].newest \in Nat /\ issuer[jar.refresh[1]].live
         /\ \A p \in Pages : shared[p].step = "sent" => shared[p].token \in Tokens /\ shared[p].token[2] \in Nat
<1>1. jar.refresh \in Tokens
  BY DEF SessionTypeOK, JarType, Maybe
<1>2. \A p \in Pages : shared[p].step = "sent" => shared[p].token \in Tokens
  BY DEF SessionTypeOK, SharedType, Maybe, Waiting
<1>3. \A t \in Tokens : t[2] \in Nat
  BY TokenParts, SessionAssumption
<1>4. \A f \in Families : issuer[f].newest \in Nat
  BY SessionAssumption DEF SessionTypeOK, FamilyType
<1> QED BY <1>1, <1>2, <1>3, <1>4, TokenParts DEF Honoured, Newest, JustRotated

(* The worker's part: it refuses nobody, and a rotation leaves every other *)
(* request within the new grace.                                           *)
LEMMA WorkerQuiet ==
  ASSUME SessionTypeOK, RepliesSound, NEW p \in Pages, Worker(p), ~ Fault, Quiet',
         jar.refresh # None, Honoured(jar.refresh), \A q \in Pages : Kept(q) /\ Waiting(q)
  PROVE  /\ jar'.refresh # None /\ Honoured(jar.refresh)'
         /\ \A q \in Pages : (Kept(q) /\ Waiting(q))'
<1> DEFINE g == jar.refresh[1]
<1>0. /\ jar.refresh \in Tokens /\ g \in Families /\ jar.refresh[2] \in Nat /\ issuer[g].newest \in Nat /\ issuer[g].live
      /\ \A q \in Pages : shared[q].step = "sent" => shared[q].token \in Tokens /\ shared[q].token[2] \in Nat
  BY QuietParts
<1>1. UNCHANGED <<jar, tab, api>>
  BY DEF Worker, RefreshAbsent, RefreshRotates, RefreshUnverified, RefreshBusy, RefreshRefused,
     RefreshFails, RefreshThrottled, Logout
<1>2. CASE RefreshRotates(p)
  <2>1. /\ shared[p].step = "sent" /\ shared[p].token # None /\ shared[p].token[1] = g /\ UNCHANGED out
        /\ issuer[g].newest = shared[p].token[2] /\ issuer[g].newest < MaxRotations /\ issuer' = Rotated(g)
    BY <1>0, <1>2 DEF RefreshRotates, Asked, Waiting, Newest
  <2>2. /\ issuer'[g].live /\ issuer'[g].newest = issuer[g].newest + 1 /\ issuer'[g].grace
        /\ ~ OnItsWay(g, issuer[g].newest - 1)
    BY <1>0, <2>1, RotatedRow DEF Quiet
  <2>3. /\ \A q \in Pages : q # p => shared'[q] = shared[q]
        /\ shared'[p].step = "answered" /\ shared'[p].reply = "installed" /\ shared'[p].token = shared[p].token
        /\ shared'[p].next[1] = g
    <3>1. \A a, b : <<a, b>>[1] = a
      OBVIOUS
    <3> QED BY <1>2, <2>1, <3>1, RotatesTyped
  <2>4. "installed" \notin Clears
    BY DEF Clears
  <2>5. \A q \in Pages : Kept(q)'
    BY <1>1, <2>1, <2>3, <2>4 DEF Kept
  <2>6. jar.refresh[2] = issuer[g].newest
    BY <1>0, <2>1 DEF Waiting, Honoured, Newest, JustRotated
  <2>7. ASSUME NEW q \in Pages, q # p, shared[q].step = "sent" PROVE shared[q].token[2] = issuer[g].newest
    <3>1. shared[q].token # None /\ shared[q].token[1] = g /\ Honoured(shared[q].token) /\ shared[q].token[2] \in Nat
      BY <1>0, <2>7 DEF Waiting
    <3>2. ~ (shared[q].token[2] <= issuer[g].newest - 1)
      BY <2>2, <2>7, <3>1 DEF OnItsWay
    <3> QED BY <1>0, <3>1, <3>2 DEF Honoured, Newest, JustRotated
  <2>8. Honoured(jar.refresh)'
    BY <1>1, <2>2, <2>6 DEF Honoured, JustRotated
  <2>9. ASSUME NEW q \in Pages PROVE Waiting(q)'
    <3>1. CASE q = p
      BY <2>3, <3>1 DEF Waiting
    <3>2. CASE q # p /\ shared[q].step = "sent"
      <4>1. shared'[q] = shared[q] /\ shared[q].token # None /\ shared[q].token[1] = g /\ shared[q].token[2] <= jar.refresh[2]
        BY <2>3, <3>2 DEF Waiting
      <4>2. JustRotated(shared[q].token)'
        BY <2>2, <2>7, <3>2, <4>1 DEF JustRotated
      <4> QED BY <1>1, <4>1, <4>2 DEF Waiting, Honoured
    <3>3. CASE q # p /\ shared[q].step # "sent"
      BY <2>3, <3>3 DEF Waiting
    <3> QED BY <3>1, <3>2, <3>3
  <2> QED BY <1>1, <2>5, <2>8, <2>9
<1>3. ~ RefreshRefused(p) /\ ~ RefreshAbsent(p) /\ ~ Logout(p)
  BY DEF RefreshRefused, RefreshAbsent, Logout, Asked, Waiting, Honoured, Kept
<1>4. CASE RefreshBusy(p) \/ RefreshThrottled(p)
  <2>1. UNCHANGED <<issuer, out>> /\ \E r \in Replied \ Clears : Replies(p, r)
    BY <1>4 DEF RefreshBusy, RefreshThrottled, Replied, Clears
  <2>2. PICK r \in Replied \ Clears : Replies(p, r)
    BY <2>1
  <2>3. /\ \A q \in Pages : q # p => shared'[q] = shared[q]
        /\ shared'[p].step = "answered" /\ shared'[p].reply = r
        /\ shared'[p].token = shared[p].token /\ shared'[p].next = shared[p].next
    BY <2>2, ReplyRow
  <2>4. \A q \in Pages : Kept(q)'
    BY <1>1, <2>1, <2>2, <2>3 DEF Kept
  <2>5. \A q \in Pages : Waiting(q)'
    BY <1>1, <2>1, <2>3 DEF Waiting, Honoured, Newest, JustRotated
  <2> QED BY <1>1, <2>1, <2>4, <2>5 DEF Honoured, Newest, JustRotated
<1> QED BY <1>2, <1>3, <1>4 DEF Worker, RefreshUnverified, RefreshFails

(* The tabs' part: the jar moves on to the newest token only.              *)
LEMMA PageQuiet ==
  ASSUME SessionTypeOK, RepliesSound, SoleSuccessor, DeadTabs, NEW p \in Pages, Page(p), ~ Fault, Leaving = {},
         jar.refresh # None, Honoured(jar.refresh), \A q \in Pages : Kept(q) /\ Waiting(q)
  PROVE  /\ jar'.refresh # None /\ Honoured(jar.refresh)'
         /\ \A q \in Pages : (Kept(q) /\ Waiting(q))'
<1>0. /\ jar.refresh \in Tokens /\ jar.refresh[2] \in Nat /\ issuer[jar.refresh[1]].newest \in Nat /\ issuer[jar.refresh[1]].live
      /\ \A q \in Pages : shared[q].step = "sent" => shared[q].token \in Tokens /\ shared[q].token[2] \in Nat
  BY QuietParts
<1>1. UNCHANGED issuer
  BY DEF Page, Open, Refresh, TakeInstalled, TakeCleared, TakeBusy, TakeFailed, LoseRefresh, Call, CallRefreshes,
     CallInvalidates, SignOut, SendLogout, TakeLogout, LoseLogout
<1>2. ~ TakeCleared(p) /\ ~ CallInvalidates(p) /\ ~ SignOut(p) /\ ~ SendLogout(p) /\ ~ TakeLogout(p)
  BY DEF Kept, Leaving, TakeCleared, CallInvalidates, SignOut, SendLogout, TakeLogout
<1>3. \/ jar'.refresh = jar.refresh
      \/ TakeInstalled(p) /\ jar'.refresh = shared[p].next /\ shared[p].next # None
  <2>1. TakeInstalled(p) => shared[p].next # None
    BY DEF RepliesSound, TakeInstalled
  <2> QED
    BY <1>2, <2>1 DEF Page, Open, Refresh, TakeInstalled, TakeBusy, TakeFailed, LoseRefresh, Call, CallRefreshes,
       LoseLogout, WithSession, SessionTypeOK, JarType
<1>4. \A q \in Pages : out'[q].step = "idle"
  <2>1. UNCHANGED out \/ out' = [out EXCEPT ![p] = NoOut]
    BY <1>2 DEF Page, Open, Refresh, TakeInstalled, TakeBusy, TakeFailed, LoseRefresh, Call, CallRefreshes, LoseLogout
  <2> QED BY <2>1 DEF Kept, NoOut, SessionTypeOK
<1>5. \A q \in Pages : ~ tab'[q].dead /\ tab'[q].signing = "no" /\ api'[q] # "refused"
  BY <1>2, TabStep, ApiStep DEF Kept, Leaving
<1>6. /\ \A q \in Pages : q # p => shared'[q] = shared[q]
      /\ \/ shared'[p] = shared[p] /\ ~ TakeInstalled(p)
         \/ shared'[p].step = "idle" /\ shared'[p].next = None
         \/ shared'[p].step = "sent" /\ shared'[p].token = jar.refresh /\ shared'[p].next = None /\ ~ TakeInstalled(p)
  <2>1. \/ UNCHANGED shared /\ ~ TakeInstalled(p)
        \/ shared' = [shared EXCEPT ![p] = NoShared]
        \/ (\E a \in {1, 2} : shared' = [shared EXCEPT ![p] = Fetch(a)]) /\ ~ TakeInstalled(p)
    <3>1. CASE TakeInstalled(p)
      BY <3>1 DEF TakeInstalled
    <3>2. CASE ~ TakeInstalled(p)
      BY <1>2, <3>2 DEF Page, Open, Refresh, TakeBusy, TakeFailed, LoseRefresh, Call, CallRefreshes, Failed, Joined, LoseLogout
    <3> QED BY <3>1, <3>2
  <2> QED BY <2>1, NoneShared, FetchRow DEF SessionTypeOK
<1>7. CASE jar'.refresh = jar.refresh
  <2>1. Honoured(jar.refresh)'
    BY <1>1, <1>7 DEF Honoured, Newest, JustRotated
  <2>2. ASSUME NEW q \in Pages PROVE Kept(q)'
    BY <1>4, <1>5, <1>6, <1>7 DEF Kept
  <2>3. ASSUME NEW q \in Pages PROVE Waiting(q)'
    <3>1. CASE shared'[q] = shared[q]
      BY <1>1, <1>7, <3>1 DEF Waiting, Honoured, Newest, JustRotated
    <3>2. CASE shared'[q].step = "idle"
      BY <3>2 DEF Waiting
    <3>3. CASE shared'[q].step = "sent" /\ shared'[q].token = jar.refresh
      BY <1>0, <1>7, <2>1, <3>3 DEF Waiting
    <3> QED BY <1>6, <3>1, <3>2, <3>3
  <2> QED BY <1>7, <2>1, <2>2, <2>3
<1>8. CASE TakeInstalled(p) /\ jar'.refresh = shared[p].next /\ shared[p].next # None
  <2>1. /\ shared[p].next[1] = jar.refresh[1] /\ shared[p].next[2] = issuer[jar.refresh[1]].newest
        /\ jar.refresh[2] < shared[p].next[2]
        /\ \A q \in Pages : Older(shared[q].token, shared[p].next)
    BY <1>8 DEF Kept, SoleSuccessor, Older
  <2>2. Honoured(jar.refresh)'
    BY <1>0, <1>1, <1>8, <2>1 DEF Honoured, Newest
  <2>3. ASSUME NEW q \in Pages PROVE Kept(q)'
    BY <1>4, <1>5, <1>6, <1>8, <2>1 DEF Kept
  <2>4. ASSUME NEW q \in Pages PROVE Waiting(q)'
    <3>1. CASE shared'[q] = shared[q] /\ shared[q].step = "sent"
      <4>1. /\ shared[q].token # None /\ Honoured(shared[q].token) /\ shared[q].token[1] = jar.refresh[1]
            /\ shared[q].token[2] \in Nat
        BY <1>0, <3>1 DEF Waiting
      <4>2. shared[q].token[2] < shared[p].next[2]
        BY <2>1, <4>1 DEF Older
      <4>3. Honoured(shared[q].token)'
        BY <1>1, <3>1, <4>1 DEF Honoured, Newest, JustRotated
      <4>4. shared[q].token[2] <= shared[p].next[2]
        BY <1>0, <2>1, <4>1, <4>2
      <4> QED BY <1>8, <2>1, <3>1, <4>1, <4>3, <4>4 DEF Waiting
    <3>2. CASE shared'[q].step # "sent"
      BY <3>2 DEF Waiting
    <3> QED BY <1>6, <1>8, <3>1, <3>2
  <2> QED BY <1>8, <2>2, <2>3, <2>4
<1> QED BY <1>3, <1>7, <1>8

LEMMA QuietKeeps ==
  ASSUME SessionTypeOK, RepliesSound, SoleSuccessor, DeadTabs, QuietSound, SessionNext
  PROVE  QuietSound'
<1> SUFFICES ASSUME Quiet'
             PROVE  /\ jar'.refresh # None /\ Honoured(jar.refresh)'
                    /\ \A p \in Pages : (Kept(p) /\ Waiting(p))'
  BY DEF QuietSound
<1>1. Quiet /\ ~ Fault /\ ~ \E f \in Families : SignIn(f)
  BY QuietBefore
<1>2. jar.refresh # None /\ Honoured(jar.refresh) /\ \A p \in Pages : Kept(p) /\ Waiting(p)
  BY <1>1 DEF QuietSound
<1>3. CASE \E f \in Families : GraceEnds(f)
  <2>1. PICK f \in Families : GraceEnds(f)
    BY <1>3
  <2>2. /\ \A g \in Families : issuer'[g].live = issuer[g].live /\ issuer'[g].newest = issuer[g].newest
        /\ \A g \in Families : g # f => issuer'[g] = issuer[g]
        /\ ~ OnItsWay(f, issuer[f].newest - 1) /\ jar.refresh # <<f, issuer[f].newest - 1>>
    BY <2>1, GraceRow DEF Quiet
  <2>3. UNCHANGED <<jar, shared, tab, api, out>>
    BY <2>1 DEF GraceEnds
  <2>4. /\ jar.refresh \in Tokens /\ jar.refresh[1] \in Families /\ jar.refresh[2] \in Nat
        /\ jar.refresh = <<jar.refresh[1], jar.refresh[2]>> /\ issuer[jar.refresh[1]].newest \in Nat
        /\ \A p \in Pages : shared[p].step = "sent" => shared[p].token \in Tokens /\ shared[p].token[2] \in Nat
    BY <1>2, QuietParts
  <2>5. CASE f # jar.refresh[1]
    <3>1. issuer'[jar.refresh[1]] = issuer[jar.refresh[1]]
      BY <2>2, <2>4, <2>5
    <3>2. Honoured(jar.refresh)'
      BY <1>2, <2>3, <3>1 DEF Honoured, Newest, JustRotated
    <3>3. \A p \in Pages : Kept(p)'
      BY <1>2, <2>3 DEF Kept
    <3>4. \A p \in Pages : Waiting(p)'
      BY <1>2, <2>3, <3>1 DEF Waiting, Honoured, Newest, JustRotated
    <3> QED BY <1>2, <2>3, <3>2, <3>3, <3>4
  <2>6. CASE f = jar.refresh[1]
    <3>1. jar.refresh[2] # issuer[f].newest - 1
      BY <2>2, <2>4, <2>6
    <3>2. Newest(jar.refresh)
      BY <1>2, <2>4, <2>6, <3>1 DEF Honoured, Newest, JustRotated
    <3>3. Honoured(jar.refresh)'
      BY <2>2, <2>3, <2>4, <3>2 DEF Honoured, Newest
    <3>4. ASSUME NEW p \in Pages PROVE Waiting(p)'
      <4>1. CASE shared[p].step = "sent"
        <5>1. /\ shared[p].token # None /\ shared[p].token[1] = f /\ Honoured(shared[p].token) /\ shared[p].token[2] \in Nat
              /\ shared[p].token[2] <= jar.refresh[2]
          BY <1>2, <2>4, <2>6, <4>1 DEF Waiting
        <5>2. ~ (shared[p].token[2] <= issuer[f].newest - 1)
          BY <2>2, <4>1, <5>1 DEF OnItsWay
        <5>3. Newest(shared[p].token)
          BY <2>4, <2>6, <5>1, <5>2 DEF Honoured, Newest, JustRotated
        <5>4. Newest(shared[p].token)'
          BY <2>2, <2>3, <2>4, <2>6, <5>1, <5>3 DEF Newest
        <5> QED BY <2>3, <2>6, <5>1, <5>4 DEF Waiting, Honoured
      <4>2. CASE shared[p].step # "sent"
        BY <2>3, <4>2 DEF Waiting
      <4> QED BY <4>1, <4>2
    <3>5. \A p \in Pages : Kept(p)'
      BY <1>2, <2>3 DEF Kept
    <3> QED BY <1>2, <2>3, <3>3, <3>4, <3>5
  <2> QED BY <2>5, <2>6
<1>4. CASE AccessExpires
  <2>1. jar'.refresh = jar.refresh /\ UNCHANGED <<issuer, shared, tab, api, out>>
    BY <1>4 DEF AccessExpires, SessionTypeOK, JarType
  <2>2. \A p \in Pages : Kept(p)'
    BY <1>2, <2>1 DEF Kept
  <2>3. \A p \in Pages : Waiting(p)'
    BY <1>2, <2>1 DEF Waiting, Honoured, Newest, JustRotated
  <2> QED BY <1>2, <2>1, <2>2, <2>3 DEF Honoured, Newest, JustRotated
<1>5. Leaving = {}
  BY <1>1 DEF Quiet
<1> QED BY <1>1, <1>2, <1>3, <1>4, <1>5, WorkerQuiet, PageQuiet DEF SessionNext

SessionInv == SessionTypeOK /\ Core /\ DeadTabs /\ QuietSound

LEMMA SessionStarts == SessionInit => SessionInv
<1> SUFFICES ASSUME SessionInit PROVE SessionInv
  OBVIOUS
<1>1. PICK f \in Families, u \in Users :
         /\ issuer = [g \in Families |->
              IF g = f THEN [user |-> u, live |-> TRUE, newest |-> 1, grace |-> FALSE, missed |-> FALSE]
                       ELSE [user |-> None, live |-> FALSE, newest |-> 0, grace |-> FALSE, missed |-> FALSE]]
         /\ jar = [access |-> u, refresh |-> <<f, 1>>, state |-> None, ui |-> FALSE]
  BY DEF SessionInit
<1>2. PICK leaver : tab = [p \in Pages |-> [Closed EXCEPT !.leaves = (p = leaver)]]
  BY DEF SessionInit
<1>3. /\ flow = [g \in Families |-> NoFlow] /\ shared = [p \in Pages |-> NoShared]
      /\ api = [p \in Pages |-> "idle"] /\ out = [p \in Pages |-> NoOut] /\ faults = 0
  BY DEF SessionInit
<1>4. 1 \in 1 .. MaxRotations /\ 0 \in 0 .. MaxRotations /\ 1 \in 0 .. MaxRotations /\ 0 \in 0 .. MaxFaults
  BY SessionAssumption
<1>5. PICK t \in Tokens : t = <<f, 1>> /\ t[1] = f /\ t[2] = 1 /\ t # None
  BY <1>4, TokenMade
<1>6. u # None
  BY UserAssumption
<1>7. NoFlow \in FlowType /\ NoFlow.step = "none" /\ NoFlow.prior = None
  BY DEF NoFlow, FlowType, Maybe
<1>8. NoOut \in OutType /\ NoOut.step = "idle" /\ NoOut.token = None
  BY DEF NoOut, OutType, Maybe
<1>9. \A p \in Pages : tab[p] \in TabType /\ ~ tab[p].dead /\ tab[p].signing = "no"
  <2> SUFFICES ASSUME NEW p \in Pages PROVE tab[p] \in TabType /\ ~ tab[p].dead /\ tab[p].signing = "no"
    OBVIOUS
  <2>1. PICK b \in BOOLEAN : b = (p = leaver)
    OBVIOUS
  <2>2. None \in Maybe(Users)
    BY DEF Maybe
  <2>3. tab[p] = [Closed EXCEPT !.leaves = b]
    BY <1>2, <2>1
  <2> QED BY <2>2, <2>3, ClosedRow
<1>10. /\ \A g \in Families : issuer[g] \in FamilyType /\ (issuer[g].live => g = f)
       /\ issuer[f].user # None /\ issuer[f].newest = 1 /\ issuer[f].live
  BY <1>1, <1>4, <1>6 DEF FamilyType, Maybe
<1>11. jar.refresh = t /\ jar \in JarType
  BY <1>1, <1>5 DEF JarType, Maybe
<1>12. SessionTypeOK
  BY <1>1, <1>2, <1>3, <1>4, <1>7, <1>8, <1>9, <1>10, <1>11, NoneShared DEF SessionTypeOK
<1>13. HoldersKnown
  <2>1. Known(jar.refresh)
    BY <1>3, <1>5, <1>7, <1>10, <1>11 DEF Known
  <2>2. Known(None)
    BY DEF Known
  <2> QED BY <1>3, <1>7, <1>8, <2>1, <2>2, NoneShared DEF HoldersKnown
<1>14. FlowsSound /\ RepliesSound /\ SoleSuccessor
  BY <1>3, <1>7, NoneShared DEF FlowsSound, RepliesSound, SoleSuccessor
<1>15. DeadTabs
  BY <1>9 DEF DeadTabs
<1>16. QuietSound
  <2>1. Honoured(jar.refresh)
    BY <1>5, <1>10, <1>11 DEF Honoured, Newest
  <2>2. \A p \in Pages : Kept(p) /\ Waiting(p)
    BY <1>3, <1>8, <1>9, NoneShared DEF Kept, Waiting
  <2> QED BY <1>5, <1>11, <2>1, <2>2 DEF QuietSound
<1> QED BY <1>12, <1>13, <1>14, <1>15, <1>16 DEF SessionInv, Core

LEMMA SessionStep == SessionInv /\ [SessionNext]_sessionVars => SessionInv'
<1> SUFFICES ASSUME SessionInv, [SessionNext]_sessionVars PROVE SessionInv'
  OBVIOUS
<1>1. CASE SessionNext
  <2>1. SessionTypeOK' /\ DeadTabs'
    BY <1>1, SessionTyped DEF SessionInv
  <2>2. Core'
    BY <1>1, <2>1, CoreKeeps DEF SessionInv
  <2>3. QuietSound'
    BY <1>1, QuietKeeps DEF SessionInv, Core
  <2> QED BY <2>1, <2>2, <2>3 DEF SessionInv
<1>2. CASE UNCHANGED sessionVars
  <2> USE <1>2 DEF sessionVars
  <2>1. SessionTypeOK' /\ DeadTabs'
    BY DEF SessionInv, SessionTypeOK, DeadTabs
  <2>2. HoldersKnown' /\ FlowsSound' /\ RepliesSound' /\ SoleSuccessor'
    BY DEF SessionInv, Core, HoldersKnown, Known, FlowsSound, RepliesSound, SoleSuccessor, Older
  <2>3. QuietSound'
    BY DEF SessionInv, QuietSound, Quiet, Leaving, Kept, Waiting, Honoured, Newest, JustRotated
  <2> QED BY <2>1, <2>2, <2>3 DEF SessionInv, Core
<1> QED BY <1>1, <1>2

(* The invariant holds of every reachable state of the browser.            *)
THEOREM SessionSound == SessionSpec => []SessionInv
<1>1. SessionInit => SessionInv
  BY SessionStarts
<1>2. SessionInv /\ [SessionNext]_sessionVars => SessionInv'
  BY SessionStep
<1> QED BY <1>1, <1>2, PTL DEF SessionSpec

(* The cookies, the issuer's families and the tabs keep their shapes.      *)
THEOREM SessionTypeCorrect == SessionSpec => []SessionTypeOK
<1>1. SessionInv => SessionTypeOK
  BY DEF SessionInv
<1> QED BY <1>1, SessionSound, PTL

(* While nothing fails, nobody signs out or in and no request outlasts the *)
(* grace of its token, the refreshes, retries and requests of any number   *)
(* of tabs never end the session: the cookie stays, its family lives, and  *)
(* TakeCleared and CallInvalidates are out of reach.                       *)
THEOREM NobodyIsToldItEnded == SessionSpec => []QuietBrowserStaysIn
<1>1. SessionInv => QuietBrowserStaysIn
  <2> SUFFICES ASSUME SessionInv, faults = 0, Leaving = {},
                      \A f \in Families : flow[f].step = "none" /\ ~ issuer[f].missed
               PROVE  jar.refresh # None /\ issuer[jar.refresh[1]].live /\ \A p \in Pages : ~ tab[p].dead
    BY DEF QuietBrowserStaysIn
  <2>1. jar.refresh # None /\ Honoured(jar.refresh) /\ \A p \in Pages : Kept(p)
    BY DEF SessionInv, QuietSound, Quiet
  <2> QED BY <2>1 DEF Kept, Honoured, Newest, JustRotated
<1> QED BY <1>1, SessionSound, PTL

LEMMA RefreshCookie ==
  ASSUME SessionTypeOK, SessionNext
  PROVE  \/ jar'.refresh \in {jar.refresh, None}
         \/ \E p \in Pages : TakeInstalled(p) /\ jar'.refresh = shared[p].next
         \/ \E f \in Families : flow[f].step = "done" /\ jar'.refresh = <<f, 1>>
<1>1. jar \in JarType
  BY DEF SessionTypeOK
<1>2. CASE \E p \in Pages : Page(p)
  BY ZenonT(60), <1>1, <1>2 DEF Page, Open, Refresh, TakeInstalled, TakeCleared, TakeBusy, TakeFailed, LoseRefresh, Call, CallRefreshes,
     CallInvalidates, SignOut, SendLogout, TakeLogout, LoseLogout, WithSession, WithoutFlow, WithoutSession, JarType
<1>3. CASE \E f \in Families : SignIn(f)
  BY ZenonT(60), <1>1, <1>3 DEF SignIn, SsoStart, Callback, Exchange, ExchangeFails, RevokePrior, TakeCallback, WithoutFlow,
     WithSession, JarType
<1>4. CASE \E p \in Pages : Worker(p)
  BY <1>4 DEF Worker, RefreshAbsent, RefreshRotates, RefreshUnverified, RefreshBusy, RefreshRefused, RefreshFails,
     RefreshThrottled, Logout
<1>5. CASE AccessExpires \/ \E f \in Families : GraceEnds(f)
  BY <1>1, <1>5 DEF AccessExpires, GraceEnds, JarType
<1> QED BY <1>2, <1>3, <1>4, <1>5 DEF SessionNext

(* The refresh cookie never goes back to an older token of its family, in  *)
(* whatever order the answers of /auth/refresh reach the browser.          *)
THEOREM CookieNeverOlder == SessionSpec => NeverOlder
<1>1. ASSUME SessionInv, [SessionNext]_sessionVars, jar.refresh # None, jar'.refresh # None,
             jar.refresh[1] = jar'.refresh[1]
      PROVE  jar'.refresh[2] >= jar.refresh[2]
  <2>1. jar.refresh \in Tokens /\ jar.refresh[2] \in Nat
    BY <1>1, Holders, TokenParts, SessionAssumption DEF SessionInv, Maybe
  <2>2. CASE jar'.refresh = jar.refresh
    BY <2>1, <2>2
  <2>3. CASE \E p \in Pages : TakeInstalled(p) /\ jar'.refresh = shared[p].next
    <3>1. PICK p \in Pages : TakeInstalled(p) /\ jar'.refresh = shared[p].next
      BY <2>3
    <3>2. shared[p].next \in Tokens /\ shared[p].next[2] \in Nat
      BY <1>1, <3>1, Holders, TokenParts, SessionAssumption DEF SessionInv, Maybe
    <3>3. jar.refresh[2] < shared[p].next[2]
      BY <1>1, <3>1 DEF SessionInv, Core, SoleSuccessor, Older
    <3> QED BY <2>1, <3>1, <3>2, <3>3
  <2>4. CASE \E f \in Families : flow[f].step = "done" /\ jar'.refresh = <<f, 1>>
    <3>1. PICK f \in Families : flow[f].step = "done" /\ jar'.refresh = <<f, 1>>
      BY <2>4
    <3>2. jar.refresh[1] = f
      BY <1>1, <3>1
    <3> QED BY <1>1, <3>1, <3>2 DEF SessionInv, Core, HoldersKnown, Known
  <2> QED BY <1>1, <2>2, <2>3, <2>4, RefreshCookie DEF SessionInv, sessionVars
<1>2. SessionInv /\ [SessionNext]_sessionVars =>
        [(jar.refresh # None /\ jar'.refresh # None /\ jar.refresh[1] = jar'.refresh[1])
         => jar'.refresh[2] >= jar.refresh[2]]_sessionVars
  BY <1>1
<1> QED BY <1>2, SessionSound, PTL DEF SessionSpec, NeverOlder

(* A tab that was told its session ended shows no user by the answer of a  *)
(* refresh that began before.                                              *)
THEOREM DeadTabStaysOut == SessionSpec => OutStaysOut
<1>1. ASSUME SessionInv, SessionNext, NEW p \in Pages, tab[p].dead, shared'[p] # shared[p]
      PROVE  tab'[p].shown = None
  <2>1. tab \in [Pages -> TabType] /\ tab[p] \in TabType /\ DeadRow(tab[p]) /\ tab[p].shown = None /\ None \in Maybe(Users)
        /\ shared[p].user \in Maybe(Users)
    BY <1>1 DEF SessionInv, SessionTypeOK, DeadTabs, DeadRow, Maybe, SharedType
  <2>2. CASE UNCHANGED tab
    BY <2>1, <2>2
  <2>3. CASE Failed(p)
    BY <2>1, <2>3, RetriesRow DEF Failed
  <2>4. CASE TakeInstalled(p)
    BY <1>1, <2>1, <2>4, ShowsRow DEF TakeInstalled
  <2>5. CASE TakeCleared(p)
    BY <2>1, <2>5, ShowsRow, InvalidatedRow DEF TakeCleared
  <2>6. UNCHANGED tab \/ Page(p)
    <3>1. ASSUME NEW q \in Pages, Page(q), q # p PROVE shared'[p] = shared[p]
      BY <1>1, <3>1 DEF Page, Open, Refresh, TakeInstalled, TakeCleared, TakeBusy, TakeFailed, LoseRefresh, Call, CallRefreshes,
         Failed, Joined, CallInvalidates, SignOut, SendLogout, TakeLogout, LoseLogout, SessionInv, SessionTypeOK
    <3> QED BY <1>1, <3>1 DEF SessionNext, Worker, RefreshAbsent, RefreshRotates, RefreshUnverified, RefreshBusy, RefreshRefused,
         RefreshFails, RefreshThrottled, Logout, SignIn, SsoStart, Callback, Exchange, ExchangeFails, RevokePrior,
         TakeCallback, GraceEnds, AccessExpires
  <2> QED BY <1>1, <2>2, <2>3, <2>4, <2>5, <2>6 DEF Page, Open, Refresh, TakeBusy, TakeFailed, LoseRefresh, Call, CallRefreshes,
         CallInvalidates, SignOut, SendLogout, TakeLogout, LoseLogout
<1>2. SessionInv /\ [SessionNext]_sessionVars =>
        [\A p \in Pages : (tab[p].dead /\ shared'[p] # shared[p]) => tab'[p].shown = None]_sessionVars
  BY <1>1
<1> QED BY <1>2, SessionSound, PTL DEF SessionSpec, OutStaysOut

(* An answer of /auth/refresh discards the cookies only when its token was *)
(* of no use any more, or the new access token could not be verified.      *)
THEOREM OnlyDeadSessionsCleared == SessionSpec => ClearedWasDead
<1>1. ASSUME SessionInv, SessionNext, NEW p \in Pages,
             shared[p].step = "answered", shared[p].reply # "unverified", shared[p].token # None,
             jar.refresh # None, jar'.refresh = None, shared'[p] = NoShared
      PROVE  ~ issuer[shared[p].token[1]].live
  <2>1. shared'[p] # shared[p]
    BY <1>1, NoneShared
  <2>2. CASE \E q \in Pages : TakeCleared(q)
    <3>1. PICK q \in Pages : TakeCleared(q)
      BY <2>2
    <3>2. q = p
      BY <2>1, <3>1, <1>1 DEF TakeCleared, SessionInv, SessionTypeOK
    <3> QED BY <1>1, <3>1, <3>2 DEF TakeCleared, Clears, SessionInv, Core, RepliesSound
  <2>3. CASE \E q \in Pages : TakeInstalled(q)
    <3>1. PICK q \in Pages : TakeInstalled(q)
      BY <2>3
    <3>2. shared[q].next # None
      BY <1>1, <3>1 DEF TakeInstalled, SessionInv, Core, RepliesSound
    <3> QED BY <1>1, <3>1, <3>2 DEF TakeInstalled, WithSession, SessionInv, SessionTypeOK, JarType
  <2>4. CASE \E q \in Pages : Page(q) /\ ~ TakeCleared(q) /\ ~ TakeInstalled(q)
    BY <1>1, <2>1, <2>4 DEF Page, Open, Refresh, TakeBusy, TakeFailed, LoseRefresh, Call, CallRefreshes,
     CallInvalidates, SignOut, SendLogout, TakeLogout, LoseLogout
  <2>5. CASE ~ \E q \in Pages : Page(q)
    <3>1. CASE \E q \in Pages : Worker(q)
      BY <1>1, <3>1 DEF Worker, RefreshAbsent, RefreshRotates, RefreshUnverified, RefreshBusy, RefreshRefused, RefreshFails,
         RefreshThrottled, Logout
    <3>2. CASE ~ \E q \in Pages : Worker(q)
      BY <1>1, <2>1, <2>5, <3>2 DEF SessionNext, SignIn, SsoStart, Callback, Exchange, ExchangeFails, RevokePrior,
         TakeCallback, GraceEnds, AccessExpires
    <3> QED BY <3>1, <3>2
  <2> QED BY <2>2, <2>3, <2>4, <2>5
<1>2. SessionInv /\ [SessionNext]_sessionVars =>
        [\A p \in Pages :
           (shared[p].step = "answered" /\ shared[p].reply # "unverified" /\ shared[p].token # None
            /\ jar.refresh # None /\ jar'.refresh = None /\ shared'[p] = NoShared)
           => ~issuer[shared[p].token[1]].live]_sessionVars
  BY <1>1
<1> QED BY <1>2, SessionSound, PTL DEF SessionSpec, ClearedWasDead

(***************************************************************************)
(* The memories: the lists of the service and of the UI.                   *)
(***************************************************************************)

Increasing(s) == \A i, j \in DOMAIN s : i < j => s[i] < s[j]

(* The rank of a number in a finite set numbers the set without gaps.      *)
LEMMA Ranks ==
  ASSUME NEW S \in SUBSET Nat, IsFiniteSet(S)
  PROVE  /\ Cardinality(S) \in Nat
         /\ \A m \in S : Cardinality({k \in S : k < m}) \in 0 .. Cardinality(S) - 1
         /\ \A m, n \in S : m < n <=> Cardinality({k \in S : k < m}) < Cardinality({k \in S : k < n})
         /\ \A i \in 1 .. Cardinality(S) : \E m \in S : Cardinality({k \in S : k < m}) = i - 1
<1> DEFINE Below(m) == {k \in S : k < m}
           N == Cardinality(S)
<1>1. N \in Nat
  BY FS_CardinalityType
<1>2. ASSUME NEW m \in S PROVE IsFiniteSet(Below(m)) /\ Cardinality(Below(m)) \in Nat /\ Cardinality(Below(m)) < N
  <2>1. Below(m) \in SUBSET S /\ Below(m) # S
    OBVIOUS
  <2>2. IsFiniteSet(Below(m)) /\ Cardinality(Below(m)) <= N /\ Cardinality(Below(m)) # N
    BY <2>1, FS_Subset
  <2>3. Cardinality(Below(m)) \in Nat
    BY <2>2, FS_CardinalityType
  <2> QED BY <1>1, <2>2, <2>3
<1>3. ASSUME NEW m \in S, NEW n \in S, m < n PROVE Cardinality(Below(m)) < Cardinality(Below(n))
  <2>1. Below(m) \in SUBSET Below(n) /\ Below(m) # Below(n)
    <3>1. m \in Below(n) /\ m \notin Below(m)
      BY <1>3
    <3>2. \A k \in Below(m) : k \in Below(n)
      BY <1>3
    <3> QED BY <3>1, <3>2
  <2> QED BY <1>2, <2>1, FS_Subset
<1>4. \A m, n \in S : m < n <=> Cardinality(Below(m)) < Cardinality(Below(n))
  <2> SUFFICES ASSUME NEW m \in S, NEW n \in S, Cardinality(Below(m)) < Cardinality(Below(n)) PROVE m < n
    BY <1>3
  <2>1. m \in Nat /\ n \in Nat /\ (m < n \/ m = n \/ n < m)
    OBVIOUS
  <2>2. CASE n < m
    BY <1>2, <1>3, <2>2
  <2>3. CASE n = m
    BY <1>2, <2>3
  <2> QED BY <2>1, <2>2, <2>3
<1> DEFINE rank == [m \in S |-> Cardinality(Below(m)) + 1]
<1>5. rank \in Injection(S, 1 .. N)
  <2>1. \A m \in S : rank[m] = Cardinality(Below(m)) + 1
    OBVIOUS
  <2>2. rank \in [S -> 1 .. N]
    BY <1>1, <1>2
  <2>3. ASSUME NEW m \in S, NEW n \in S, rank[m] = rank[n] PROVE m = n
    <3>1. Cardinality(Below(m)) = Cardinality(Below(n)) /\ Cardinality(Below(m)) \in Nat
      BY <1>2, <2>1, <2>3
    <3>2. ~ (m < n) /\ ~ (n < m) /\ m \in Nat /\ n \in Nat
      BY <1>3, <3>1
    <3> QED BY <3>2
  <2> QED BY <2>2, <2>3 DEF Injection, IsInjective
<1>6. IsFiniteSet(1 .. N) /\ Cardinality(1 .. N) = N
  BY <1>1, FS_Interval
<1>7. rank \in Surjection(S, 1 .. N)
  BY <1>5, <1>6, FS_Injection
<1> HIDE DEF Below
<1>8. ASSUME NEW i \in 1 .. N PROVE \E m \in S : Cardinality(Below(m)) = i - 1
  <2>1. PICK m \in S : rank[m] = i
    BY <1>7 DEF Surjection
  <2>2. Cardinality(Below(m)) + 1 = i /\ Cardinality(Below(m)) \in Nat /\ i \in Nat
    BY <1>1, <1>2, <2>1
  <2>3. Cardinality(Below(m)) = i - 1
    BY <2>2
  <2> QED BY <2>3
<1>9. \A m \in S : Cardinality(Below(m)) \in 0 .. N - 1
  BY <1>1, <1>2
<1> QED BY <1>1, <1>4, <1>8, <1>9 DEF Below

(* A finite set of numbers is listed from the smallest, each number once.  *)
LEMMA InOrderSorted ==
  ASSUME NEW S \in SUBSET Nat, IsFiniteSet(S)
  PROVE  /\ Cardinality(S) \in Nat
         /\ InOrder(S) \in [1 .. Cardinality(S) -> S]
         /\ Increasing(InOrder(S))
<1>1. Cardinality(S) \in Nat
  BY FS_CardinalityType
<1>2. ASSUME NEW i \in 1 .. Cardinality(S)
      PROVE  InOrder(S)[i] \in S /\ Cardinality({k \in S : k < InOrder(S)[i]}) = i - 1
  <2>1. \E m \in S : Cardinality({k \in S : k < m}) = i - 1
    BY Ranks
  <2> QED BY <2>1 DEF InOrder
<1>3. InOrder(S) \in [1 .. Cardinality(S) -> S]
  BY <1>2 DEF InOrder
<1>4. ASSUME NEW i \in DOMAIN InOrder(S), NEW j \in DOMAIN InOrder(S), i < j PROVE InOrder(S)[i] < InOrder(S)[j]
  <2>1. i \in 1 .. Cardinality(S) /\ j \in 1 .. Cardinality(S) /\ i - 1 < j - 1
    BY <1>3, <1>4, <1>1
  <2> QED BY ZenonT(60), <1>2, <2>1, Ranks
<1> QED BY <1>1, <1>3, <1>4 DEF Increasing

LEMMA WithoutSorted ==
  ASSUME NEW s \in Seq(Memories), Increasing(s), NEW m
  PROVE  /\ Without(s, m) \in Seq(Memories) /\ Increasing(Without(s, m))
         /\ \A j \in DOMAIN Without(s, m) : \E i \in DOMAIN s : Without(s, m)[j] = s[i]
<1> DEFINE I == {i \in DOMAIN s : s[i] # m}
           at == InOrder(I)
<1>1. DOMAIN s = 1 .. Len(s) /\ Len(s) \in Nat /\ \A i \in DOMAIN s : s[i] \in Memories
  OBVIOUS
<1>2. I \in SUBSET Nat /\ I \in SUBSET (1 .. Len(s))
  BY <1>1
<1>3. IsFiniteSet(I)
  <2>1. IsFiniteSet(1 .. Len(s))
    BY <1>1, FS_Interval
  <2> HIDE DEF I
  <2> QED BY <1>2, <2>1, FS_Subset
<1>4. Cardinality(I) \in Nat /\ at \in [1 .. Cardinality(I) -> I] /\ Increasing(at)
  BY <1>2, <1>3, InOrderSorted
<1>5. Without(s, m) = [j \in 1 .. Cardinality(I) |-> s[at[j]]]
  BY <1>4 DEF Without
<1> HIDE DEF at
<1>6. \A j \in 1 .. Cardinality(I) : at[j] \in DOMAIN s
  BY <1>4
<1>7. Without(s, m) \in Seq(Memories)
  BY <1>1, <1>4, <1>5, <1>6
<1>8. Increasing(Without(s, m))
  BY <1>4, <1>5, <1>6 DEF Increasing
<1> QED BY <1>5, <1>6, <1>7, <1>8

LEMMA MineTyped ==
  ASSUME TypeOK
  PROVE  Mine \in SUBSET Memories /\ Mine \in SUBSET Nat /\ IsFiniteSet(Mine) /\ page.profile \in Profiles
<1>1. <<PageUser, None>> \in Profiles
  BY MemoryAssumption DEF Profiles
<1>2. page.profile \in Profiles
  <2>1. page.profile = <<PageUser, None>>
    BY DEF TypeOK, Views
  <2> QED BY <1>1, <2>1
<1>3. Mine \in SUBSET Memories
  BY <1>2 DEF TypeOK, Mine
<1>4. IsFiniteSet(Memories) /\ Memories \in SUBSET Nat
  BY MemoryAssumption, FS_Interval DEF Memories
<1> QED BY <1>2, <1>3, <1>4, FS_Subset

(* A listing is what the service promises: the memories after the cursor   *)
(* in order, and one at least whenever there are more.                     *)
LEMMA ListingSorted ==
  ASSUME TypeOK, NEW type, NEW after \in 0 .. MaxMemory
  PROVE  LET l == Listing(type, after) IN
           /\ l.items \in Seq(Memories) /\ Increasing(l.items)
           /\ \A i \in DOMAIN l.items : after < l.items[i]
           /\ l.more => Len(l.items) \in DOMAIN l.items
<1> DEFINE all == {m \in Mine : m > after /\ (type = None \/ TypeOf[m] = type)}
           first == {m \in all : Cardinality({k \in all : k < m}) < PageSize}
<1>1. Listing(type, after) = [items |-> InOrder(first), more |-> first # all]
  BY DEF Listing
<1>2. all \in SUBSET Nat /\ all \in SUBSET Mine /\ first \in SUBSET all
  BY MineTyped
<1>3. IsFiniteSet(all)
  <2> HIDE DEF all
  <2> QED BY <1>2, MineTyped, FS_Subset
<1>4. first # all => first # {}
  <2> SUFFICES ASSUME all # {} PROVE first # {}
    BY <1>2
  <2>1. \E m \in all : Cardinality({k \in all : k < m}) = 1 - 1
    <3> HIDE DEF all
    <3>1. Cardinality(all) \in Nat /\ Cardinality(all) # 0
      BY <1>3, FS_CardinalityType, FS_EmptySet
    <3>2. 1 \in 1 .. Cardinality(all)
      BY <3>1
    <3> QED BY <1>2, <1>3, <3>2, Ranks
  <2> HIDE DEF all
  <2> QED BY <2>1, MemoryAssumption
<1> HIDE DEF all
<1>5. first \in SUBSET Nat /\ IsFiniteSet(first) /\ first \in SUBSET Memories /\ \A m \in first : m > after /\ m \in Nat
  <2>1. IsFiniteSet(first)
    <3> HIDE DEF first
    <3> QED BY <1>2, <1>3, FS_Subset
  <2>2. \A m \in all : m > after /\ m \in Nat
    BY <1>2 DEF all
  <2> QED BY <1>2, <2>1, <2>2, MineTyped
<1> HIDE DEF first
<1>6. Cardinality(first) \in Nat /\ InOrder(first) \in [1 .. Cardinality(first) -> first] /\ Increasing(InOrder(first))
  BY <1>5, InOrderSorted
<1>7. InOrder(first) \in Seq(Memories)
  <2>1. \A n \in Nat : \A g \in [1 .. n -> Memories] : g \in Seq(Memories)
    OBVIOUS
  <2>2. InOrder(first) \in [1 .. Cardinality(first) -> Memories]
    BY <1>5, <1>6
  <2> QED BY <1>6, <2>1, <2>2
<1>8. \A i \in DOMAIN InOrder(first) : after < InOrder(first)[i]
  BY <1>5, <1>6
<1>9. first # {} => Len(InOrder(first)) \in DOMAIN InOrder(first)
  <2>1. first # {} => Cardinality(first) # 0
    BY <1>5, FS_EmptySet
  <2> QED BY <1>6, <2>1
<1>10. Listing(type, after).items = InOrder(first) /\ (Listing(type, after).more => first # {})
  <2>1. \A a, b : [items |-> a, more |-> b].items = a
    OBVIOUS
  <2>2. \A a : [items |-> a, more |-> first # all].more = (first # all)
    OBVIOUS
  <2> QED BY <1>1, <1>4, <2>1, <2>2
<1> QED BY <1>6, <1>7, <1>8, <1>9, <1>10

ListedSound(r) ==
  /\ r.data \in Seq(Memories) \X (0 .. MaxMemory)
  /\ Increasing(r.data[1])
  /\ \A i \in DOMAIN r.data[1] : r.after < r.data[1][i]
  /\ r.data[2] # 0 => /\ r.after < r.data[2]
                      /\ \A i \in DOMAIN r.data[1] : r.data[1][i] <= r.data[2]

LEMMA ListedRow ==
  ASSUME TypeOK, NEW r \in Asks
  PROVE  /\ Listed(r) \in Asks /\ ListedSound(Listed(r))
         /\ Listed(r).kind = r.kind /\ Listed(r).of = r.of /\ Listed(r).after = r.after
<1>1. r.after \in 0 .. MaxMemory
  BY DEF Asks
<1>2. PICK l : /\ l = Listing(r.of, r.after)
               /\ l.items \in Seq(Memories) /\ Increasing(l.items)
               /\ \A i \in DOMAIN l.items : r.after < l.items[i]
               /\ l.more => Len(l.items) \in DOMAIN l.items
  BY <1>1, ListingSorted
<1>3. PICK last \in 0 .. MaxMemory :
         /\ last = IF l.more THEN l.items[Len(l.items)] ELSE 0
         /\ last # 0 => r.after < last /\ \A i \in DOMAIN l.items : l.items[i] <= last
  <2>1. CASE l.more
    <3>1. l.items[Len(l.items)] \in Memories /\ r.after < l.items[Len(l.items)]
      BY <1>2, <2>1
    <3>2. Len(l.items) \in Nat /\ DOMAIN l.items = 1 .. Len(l.items) /\ \A i \in DOMAIN l.items : l.items[i] \in Nat
      BY <1>2, MemoryAssumption DEF Memories
    <3>3. \A i \in DOMAIN l.items : l.items[i] <= l.items[Len(l.items)]
      <4> SUFFICES ASSUME NEW i \in DOMAIN l.items PROVE l.items[i] <= l.items[Len(l.items)]
        OBVIOUS
      <4>1. i = Len(l.items) \/ i < Len(l.items)
        BY <3>2
      <4> QED BY <1>2, <2>1, <3>2, <4>1 DEF Increasing
    <3>4. l.items[Len(l.items)] \in 0 .. MaxMemory
      BY <3>1, MemoryAssumption DEF Memories
    <3> QED BY <2>1, <3>1, <3>3, <3>4
  <2>2. CASE ~ l.more
    BY <2>2, MemoryAssumption
  <2> QED BY <2>1, <2>2
<1>4. Listed(r) = [r EXCEPT !.served = TRUE, !.data = <<l.items, last>>]
  BY <1>2, <1>3 DEF Listed
<1>5. PICK d \in Seq(Memories) \X (0 .. MaxMemory) : d = <<l.items, last>> /\ d[1] = l.items /\ d[2] = last
  <2>1. \A a, b : <<a, b>>[1] = a /\ <<a, b>>[2] = b
    OBVIOUS
  <2>2. <<l.items, last>> \in Seq(Memories) \X (0 .. MaxMemory)
    BY <1>2, <1>3
  <2> QED BY <2>1, <2>2
<1>6. Listed(r) = [r EXCEPT !.served = TRUE, !.data = d]
  BY <1>4, <1>5
<1>7. /\ Listed(r) \in Asks /\ Listed(r).data = d
      /\ Listed(r).kind = r.kind /\ Listed(r).of = r.of /\ Listed(r).after = r.after
  BY <1>6 DEF Asks
<1> QED BY <1>2, <1>3, <1>5, <1>7 DEF ListedSound

(***************************************************************************)
(* Credentials.                                                            *)
(***************************************************************************)
Serves1(r, id) ==
  LET chosen == r.authz # None /\ r.authz[1] = "jwt" IN
  /\ Cardinality(HeaderCredentials(r)) <= 1
  /\ id.profile[1] = CredentialUser(r)
  /\ HeaderCredentials(r) = {} => (r.same /\ r.path = "api")
  /\ (r.scope # None /\ ~chosen) => HeaderCredentials(r) = {}
  /\ id.profile[2] # None => \/ chosen
                             \/ /\ HeaderCredentials(r) # {}
                                /\ registry[PresentedKey(r)].scope = id.profile[2]

LEMMA AcceptedIs ==
  ASSUME NEW u \in Users, NEW s \in Scopes \cup {None}, NEW ps \in SUBSET Permissions
  PROVE  /\ Accepted(u, s, ps) \in Identities
         /\ Accepted(u, s, ps).profile[1] = u /\ Accepted(u, s, ps).profile[2] = s
BY DEF Accepted, Identities, Profiles

LEMMA RegisteredIs ==
  ASSUME TypeOK, NEW k \in Keys, NEW kind, Registered(k, kind).ok
  PROVE  /\ Registered(k, kind) \in Identities
         /\ Registered(k, kind).profile[1] = registry[k].user
         /\ Registered(k, kind).profile[2] = registry[k].scope
<1>1. registry[k].user \in Users /\ registry[k].scope \in Scopes \cup {None} /\ registry[k].permissions \in SUBSET Permissions
  BY DEF TypeOK, Maybe
<1>2. Registered(k, kind) = Accepted(registry[k].user, registry[k].scope, registry[k].permissions)
  BY DEF Registered, Refused
<1> QED BY <1>1, <1>2, AcceptedIs

LEMMA SessionIs ==
  ASSUME NEW u \in Users, NEW r \in Requests, NEW s \in Scopes \cup {None}, Session(u, r, s).ok
  PROVE  /\ Session(u, r, s) \in Identities
         /\ Session(u, r, s).profile[1] = u /\ Session(u, r, s).profile[2] = s
<1>1. Granted(r) \in SUBSET Permissions
  BY DEF Granted, Requests, Permissions
<1>2. Session(u, r, s) = Accepted(u, s, Granted(r))
  BY DEF Session, Refused
<1> QED BY <1>1, <1>2, AcceptedIs

LEMMA OneHeader ==
  ASSUME NEW r, r.key = None \/ r.authz = None
  PROVE  Cardinality(HeaderCredentials(r)) <= 1
<1>1. HeaderCredentials(r) = {} \/ \E c : HeaderCredentials(r) = {c}
  BY DEF HeaderCredentials
<1>2. CASE HeaderCredentials(r) = {}
  <2>1. Cardinality(HeaderCredentials(r)) = 0
    BY <1>2, FS_EmptySet
  <2> QED BY <2>1
<1>3. CASE \E c : HeaderCredentials(r) = {c}
  <2>1. Cardinality(HeaderCredentials(r)) = 1
    BY <1>3, FS_Singleton
  <2> QED BY <2>1
<1> QED BY <1>1, <1>2, <1>3

LEMMA AuthenticatedIs ==
  ASSUME TypeOK, NEW r \in Requests, Authenticate(r).ok
  PROVE  Authenticate(r) \in Identities /\ Serves1(r, Authenticate(r))
<1>1. /\ r.key \in Keys \cup {None} /\ r.cookie \in Users \cup {None} /\ r.scope \in Scopes \cup {None}
      /\ r.authz # None => r.authz \in {"apikey", "pat"} \X Keys \/ r.authz \in {"jwt"} \X Users
  BY DEF Requests
<1>2. r.key = None \/ r.authz = None
  BY DEF Authenticate, Refused
<1>3. Cardinality(HeaderCredentials(r)) <= 1
  BY <1>2, OneHeader
<1>4. CASE r.key # None
  <2>1. r.scope = None /\ Authenticate(r) = Registered(r.key, "api-key") /\ r.key \in Keys
    BY <1>1, <1>2, <1>4 DEF Authenticate, Refused
  <2>2. HeaderCredentials(r) # {} /\ CredentialUser(r) = registry[r.key].user
    <3>1. r.key \in HeaderCredentials(r)
      BY <1>4 DEF HeaderCredentials
    <3> QED BY <1>2, <1>4, <3>1 DEF CredentialUser
  <2>3. PresentedKey(r) = r.key
    BY <1>4 DEF PresentedKey
  <2> QED BY <1>3, <2>1, <2>2, <2>3, RegisteredIs DEF Serves1
<1>5. CASE r.key = None /\ r.authz # None /\ r.authz \in {"apikey", "pat"} \X Keys
  <2>1. r.authz[1] \in {"apikey", "pat"} /\ r.authz[2] \in Keys
    BY <1>5
  <2>2. Scheme(r) = r.authz[1]
    BY <1>5 DEF Scheme
  <2>3. r.scope = None /\ \E kind : Authenticate(r) = Registered(r.authz[2], kind)
    BY <1>5, <2>1, <2>2 DEF Authenticate, Refused
  <2>4. HeaderCredentials(r) # {} /\ CredentialUser(r) = registry[r.authz[2]].user
    BY <1>5, <2>1 DEF HeaderCredentials, CredentialUser
  <2>5. PresentedKey(r) = r.authz[2]
    BY <1>5 DEF PresentedKey
  <2> QED BY <1>3, <2>1, <2>3, <2>4, <2>5, RegisteredIs DEF Serves1
<1>6. CASE r.key = None /\ r.authz # None /\ r.authz \in {"jwt"} \X Users
  <2>1. r.authz[1] = "jwt" /\ r.authz[2] \in Users
    BY <1>6
  <2>2. Authenticate(r) = Session(r.authz[2], r, r.scope)
    BY <1>6, <2>1 DEF Authenticate, Scheme
  <2>3. HeaderCredentials(r) # {} /\ CredentialUser(r) = r.authz[2]
    BY <1>6, <2>1 DEF HeaderCredentials, CredentialUser
  <2> QED BY <1>1, <1>3, <1>6, <2>1, <2>2, <2>3, SessionIs DEF Serves1
<1>7. CASE r.key = None /\ r.authz = None
  <2>1. Scheme(r) = "none"
    BY <1>7 DEF Scheme
  <2>2. /\ r.path = "api" /\ r.cookie # None /\ r.same
        /\ Authenticate(r) = Session(r.cookie, r, None)
    BY <1>7, <2>1 DEF Authenticate, CookieAllowed, Refused
  <2>3. HeaderCredentials(r) = {} /\ CredentialUser(r) = r.cookie
    BY <1>7 DEF HeaderCredentials, CredentialUser
  <2> QED BY <1>1, <1>3, <2>2, <2>3, SessionIs DEF Serves1
<1> QED BY <1>1, <1>2, <1>4, <1>5, <1>6, <1>7

(***************************************************************************)
(* The view and its current request.                                       *)
(***************************************************************************)
ViewSound(pg, rq) ==
  /\ pg \in Views /\ rq \in Asks
  /\ rq.kind = "none" => rq = NoReq
  /\ Increasing(pg.shown)
  /\ pg.cursor # 0 => \A i \in DOMAIN pg.shown : pg.shown[i] <= pg.cursor
  /\ rq.kind = "list" => /\ pg.route = "list" /\ pg.query = None /\ rq.of = pg.filter
                         /\ rq.after # 0 => rq.after = pg.cursor /\ (pg.failed \/ pg.listed = pg.filter)
                         /\ rq.served => ListedSound(rq)
  /\ rq.kind = "search" => pg.route = "list" /\ pg.query = rq.of /\ rq.of # None
  /\ rq.kind = "entry" => pg.route = "entry" /\ pg.of = rq.of
  /\ rq.kind = "summary" => pg.route = "summary"
  /\ (pg.route = "list" /\ rq = NoReq /\ pg.query = None) => (pg.failed \/ pg.listed = pg.filter)
  /\ pg.found # None => pg.found = pg.query
  /\ pg.entry # None => (pg.route = "entry" /\ pg.entry = pg.of)

Objects == Types \cup Queries \cup Memories

LEMMA AskIs ==
  ASSUME NEW kind \in {"none", "list", "search", "entry", "summary"}, NEW of \in Maybe(Objects),
         NEW after \in 0 .. MaxMemory
  PROVE  /\ Ask(kind, of, after) \in Asks /\ Ask(kind, of, after).kind = kind /\ Ask(kind, of, after).of = of
         /\ Ask(kind, of, after).after = after /\ ~ Ask(kind, of, after).served
         /\ kind # "none" => Ask(kind, of, after) # NoReq
<1>1. NoReq \in Asks /\ NoReq.kind = "none" /\ ~ NoReq.served
  BY MemoryAssumption DEF NoReq, Asks, Maybe
<1>2. /\ Ask(kind, of, after) \in Asks /\ Ask(kind, of, after).kind = kind /\ Ask(kind, of, after).of = of
      /\ Ask(kind, of, after).after = after /\ Ask(kind, of, after).served = NoReq.served
  BY <1>1 DEF Ask, Asks, Objects
<1> QED BY <1>1, <1>2

LEMMA NoReqIs == NoReq \in Asks /\ NoReq.kind = "none" /\ ~ NoReq.served
BY MemoryAssumption DEF NoReq, Asks, Maybe

(* A view that has loaded nothing.                                         *)
LEMMA Emptied ==
  ASSUME NEW pg \in Views, NEW z \in 0 .. MaxMemory, NEW e \in BOOLEAN
  PROVE  LET q == [pg EXCEPT !.cursor = z, !.filter = None, !.listed = None, !.query = None,
                             !.found = None, !.entry = None, !.error = e, !.failed = e] IN
           /\ q \in Views /\ q.route = pg.route /\ q.of = pg.of /\ q.shown = pg.shown
           /\ q.cursor = z /\ q.filter = None /\ q.query = None /\ q.found = None /\ q.entry = None
<1>1. None \in Maybe(Types) /\ None \in Maybe(Queries) /\ None \in Maybe(Memories)
  BY DEF Maybe
<1> QED BY <1>1 DEF Views

LEMMA FreshIs ==
  ASSUME page \in Views, NEW route \in {"closed", "list", "new", "summary", "entry"}, NEW of \in Maybe(Memories)
  PROVE  /\ Fresh(route, of) \in Views /\ Fresh(route, of).route = route /\ Fresh(route, of).of = of
         /\ Fresh(route, of).shown = <<>> /\ Fresh(route, of).cursor = 0 /\ Fresh(route, of).filter = None
         /\ Fresh(route, of).query = None /\ Fresh(route, of).found = None /\ Fresh(route, of).entry = None
<1> DEFINE P(x) == [page EXCEPT !.route = route, !.of = of, !.shown = x]
           A == P(<<>>)
           B == [A EXCEPT !.cursor = 0, !.filter = None, !.listed = None, !.query = None,
                          !.found = None, !.entry = None, !.error = FALSE, !.failed = FALSE]
<1>1. <<>> \in Seq(Memories) /\ 0 \in 0 .. MaxMemory /\ FALSE \in BOOLEAN
  BY MemoryAssumption
<1>2. A \in Views /\ A.route = route /\ A.of = of /\ A.shown = <<>>
  <2>1. ASSUME NEW x \in Seq(Memories)
        PROVE  P(x) \in Views /\ P(x).route = route /\ P(x).of = of /\ P(x).shown = x
    BY DEF Views
  <2> HIDE DEF P
  <2> QED BY <1>1, <2>1
<1>3. Fresh(route, of) = B
  BY Zenon DEF Fresh
<1> HIDE DEF A
<1>4. /\ B \in Views /\ B.route = A.route /\ B.of = A.of /\ B.shown = A.shown
      /\ B.cursor = 0 /\ B.filter = None /\ B.query = None /\ B.found = None /\ B.entry = None
  BY ZenonT(90), <1>1, <1>2, Emptied
<1> HIDE DEF B
<1> QED BY Zenon, <1>2, <1>3, <1>4

LEMMA FreshView ==
  ASSUME page \in Views, NEW route \in {"list", "new", "summary", "entry"}, NEW of \in Maybe(Memories)
  PROVE  ViewSound(Fresh(route, of), IF route = "new" THEN NoReq ELSE Ask(route, of, 0))
           \/ (route = "list" /\ of # None)
<1> DEFINE rq == IF route = "new" THEN NoReq ELSE Ask(route, of, 0)
           pg == Fresh(route, of)
<1>1. of \in Maybe(Objects) /\ 0 \in 0 .. MaxMemory
  BY MemoryAssumption DEF Maybe, Objects
<1>2. /\ pg \in Views /\ pg.route = route /\ pg.of = of /\ pg.shown = <<>> /\ pg.cursor = 0 /\ pg.filter = None
      /\ pg.query = None /\ pg.found = None /\ pg.entry = None
  BY FreshIs
<1>3. CASE route = "new"
  <2>1. rq = NoReq
    BY <1>3
  <2> HIDE DEF rq, pg
  <2>2. ViewSound(pg, rq)
    BY <1>2, <1>3, <2>1, NoReqIs DEF ViewSound, Increasing
  <2> QED BY <2>2 DEF pg, rq
<1>4. CASE route # "new" /\ ~ (route = "list" /\ of # None)
  <2>1. rq \in Asks /\ rq.kind = route /\ rq.of = of /\ rq.after = 0 /\ ~ rq.served /\ rq # NoReq
    BY <1>1, <1>4, AskIs
  <2> HIDE DEF rq, pg
  <2>2. ViewSound(pg, rq)
    BY <1>2, <1>4, <2>1 DEF ViewSound, Increasing
  <2> QED BY <2>2 DEF pg, rq
<1> QED BY <1>3, <1>4

(* Navigation, the form and the deletion of the details start a view anew. *)
LEMMA Renewed ==
  ASSUME page \in Views,
         \/ \E m \in Memories : Navigate("entry", m) \/ Submit(m)
         \/ Navigate("list", None) \/ Navigate("new", None) \/ Navigate("summary", None)
         \/ \E d \in dels : TakeDeleteOfEntry(d)
  PROVE  ViewSound(page', req')
<1>1. None \in Maybe(Memories) /\ \A m \in Memories : m \in Maybe(Memories)
  BY DEF Maybe
<1>2. CASE \E m \in Memories : Navigate("entry", m)
  BY <1>1, <1>2, FreshView DEF Navigate, Supersede
<1>3. CASE (\E m \in Memories : Submit(m)) \/ Navigate("list", None) \/ (\E d \in dels : TakeDeleteOfEntry(d))
  <2>1. page' = Fresh("list", None) /\ req' = Ask("list", None, 0)
    BY <1>3 DEF Navigate, Submit, TakeDeleteOfEntry, Supersede
  <2> QED BY <1>1, <2>1, FreshView
<1>4. CASE Navigate("new", None)
  BY <1>1, <1>4, FreshView DEF Navigate, Supersede
<1>5. CASE Navigate("summary", None)
  BY <1>1, <1>5, FreshView DEF Navigate, Supersede
<1> QED BY <1>2, <1>3, <1>4, <1>5

(* The current request is replaced by one for the first page of a type.    *)
LEMMA ReloadIs ==
  ASSUME NEW t \in Maybe(Types), Reload(t)
  PROVE  /\ req' \in Asks /\ req'.kind = "list" /\ req'.of = t /\ req'.after = 0 /\ ~ req'.served
         /\ req' # NoReq /\ (old' = req \/ old' = old)
<1>1. t \in Maybe(Objects) /\ 0 \in 0 .. MaxMemory
  BY MemoryAssumption DEF Maybe, Objects
<1> QED BY <1>1, AskIs DEF Reload, Supersede

LEMMA SearchAsked ==
  ASSUME NEW q \in Queries, q # None, Supersede(Ask("search", q, 0))
  PROVE  /\ req' \in Asks /\ req'.kind = "search" /\ req'.of = q /\ ~ req'.served
         /\ req' # NoReq
<1>1. q \in Maybe(Objects) /\ 0 \in 0 .. MaxMemory
  BY MemoryAssumption DEF Maybe, Objects
<1> QED BY <1>1, AskIs DEF Supersede

LEMMA Filtered ==
  ASSUME ViewSound(page, req), NEW t \in Types \cup {None}, Filter(t)
  PROVE  ViewSound(page', req')
<1>1. t \in Maybe(Types) /\ page \in Views
  BY DEF Maybe, ViewSound
<1>2. CASE page.query = None
  <2>1. /\ req' \in Asks /\ req'.kind = "list" /\ req'.of = t /\ req'.after = 0 /\ ~ req'.served /\ req' # NoReq
    BY <1>1, <1>2, ReloadIs DEF Filter
  <2>2. /\ page' \in Views /\ page'.route = page.route /\ page'.of = page.of /\ page'.shown = page.shown
        /\ page'.cursor = page.cursor /\ page'.filter = t /\ page'.query = page.query /\ page'.found = page.found
        /\ page'.entry = page.entry /\ page.route = "list"
    <3>1. PICK e \in BOOLEAN : page' = [page EXCEPT !.filter = t, !.error = e]
      BY Zenon, <1>2 DEF Filter
    <3> QED BY <1>1, <3>1 DEF Views, Filter
  <2> QED BY <1>2, <2>1, <2>2 DEF ViewSound
<1>3. CASE page.query # None
  <2>1. req' = req
    BY <1>3 DEF Filter
  <2>2. /\ page' \in Views /\ page'.route = page.route /\ page'.of = page.of /\ page'.shown = page.shown
        /\ page'.cursor = page.cursor /\ page'.filter = t /\ page'.query = page.query /\ page'.found = page.found
        /\ page'.entry = page.entry /\ page.route = "list"
    BY <1>1, <1>3 DEF Filter, Views
  <2> QED BY <1>3, <2>1, <2>2 DEF ViewSound
<1> QED BY <1>2, <1>3

LEMMA Typed ==
  ASSUME ViewSound(page, req), NEW q \in Queries \cup {None}, Type(q)
  PROVE  ViewSound(page', req')
<1>1. q \in Maybe(Queries) /\ None \in Maybe(Queries) /\ page \in Views /\ page.filter \in Maybe(Types)
  BY DEF Maybe, ViewSound, Views
<1>2. /\ req' \in Asks /\ ~ req'.served /\ req' # NoReq
      /\ q = None => req'.kind = "list" /\ req'.of = page.filter /\ req'.after = 0
      /\ q # None => req'.kind = "search" /\ req'.of = q
  BY <1>1, ReloadIs, SearchAsked DEF Type
<1>3. /\ page' \in Views /\ page'.route = page.route /\ page'.of = page.of /\ page'.shown = page.shown
      /\ page'.cursor = page.cursor /\ page'.filter = page.filter /\ page'.query = q /\ page'.found = None
      /\ page'.entry = page.entry /\ page.route = "list"
  <2>1. PICK e \in BOOLEAN : page' = [page EXCEPT !.query = q, !.found = None, !.error = e]
    BY Zenon DEF Type
  <2> QED BY <1>1, <2>1 DEF Type, Views
<1> QED BY <1>2, <1>3 DEF ViewSound

(* "Try again" asks for what the view shows.                               *)
LEMMA Retried ==
  ASSUME ViewSound(page, req), Retry
  PROVE  ViewSound(page', req')
<1>1. page \in Views /\ page.filter \in Maybe(Types) /\ page.query \in Maybe(Queries) /\ page.of \in Maybe(Memories)
      /\ None \in Maybe(Queries)
  BY DEF Maybe, ViewSound, Views
<1>2. page.of \in Maybe(Objects) /\ None \in Maybe(Objects) /\ 0 \in 0 .. MaxMemory
  BY <1>1, MemoryAssumption DEF Maybe, Objects
<1>3. CASE page.route = "list" /\ page.query = None
  <2>1. /\ req' \in Asks /\ req'.kind = "list" /\ req'.of = page.filter /\ req'.after = 0 /\ ~ req'.served
        /\ req' # NoReq
    BY <1>1, <1>3, ReloadIs DEF Retry
  <2>2. /\ page' \in Views /\ page'.route = page.route /\ page'.of = page.of /\ page'.shown = page.shown
        /\ page'.cursor = page.cursor /\ page'.filter = page.filter /\ page'.query = page.query
        /\ page'.found = page.found /\ page'.entry = page.entry
    <3>1. PICK e \in BOOLEAN : page' = [page EXCEPT !.error = e]
      BY Zenon, <1>3 DEF Retry
    <3> QED BY <1>1, <3>1 DEF Views
  <2> QED BY <1>3, <2>1, <2>2 DEF ViewSound
<1>4. CASE page.route = "list" /\ page.query # None
  <2>1. page.query \in Queries /\ Supersede(Ask("search", page.query, 0))
    BY <1>1, <1>4 DEF Retry, Maybe
  <2>2. req' \in Asks /\ req'.kind = "search" /\ req'.of = page.query /\ ~ req'.served /\ req' # NoReq
    BY <1>4, <2>1, SearchAsked
  <2>3. /\ page' \in Views /\ page'.route = page.route /\ page'.of = page.of /\ page'.shown = page.shown
        /\ page'.cursor = page.cursor /\ page'.filter = page.filter /\ page'.query = page.query
        /\ page'.found = None /\ page'.entry = page.entry
    BY <1>1, <1>4 DEF Retry, Views
  <2> QED BY <1>4, <2>2, <2>3 DEF ViewSound
<1>5. CASE page.route = "entry"
  <2>1. page' = page /\ req' = Ask("entry", page.of, 0)
    BY <1>5 DEF Retry, Supersede
  <2>2. req' \in Asks /\ req'.kind = "entry" /\ req'.of = page.of /\ ~ req'.served /\ req' # NoReq
    BY <1>2, <2>1, AskIs
  <2> QED BY <1>5, <2>1, <2>2 DEF ViewSound
<1>6. CASE page.route = "summary"
  <2>1. req' = Ask("summary", None, 0)
    BY <1>6 DEF Retry, Supersede
  <2>2. req' \in Asks /\ req'.kind = "summary" /\ ~ req'.served /\ req' # NoReq
    BY <1>2, <2>1, AskIs
  <2>3. /\ page' \in Views /\ page'.route = page.route /\ page'.of = page.of /\ page'.shown = page.shown
        /\ page'.cursor = page.cursor /\ page'.filter = page.filter /\ page'.query = page.query
        /\ page'.found = page.found /\ page'.entry = page.entry
    <3>1. PICK e \in BOOLEAN : page' = [page EXCEPT !.error = e]
      BY Zenon, <1>6 DEF Retry
    <3> QED BY <1>1, <3>1 DEF Views
  <2> QED BY <1>6, <2>2, <2>3 DEF ViewSound
<1> QED BY <1>3, <1>4, <1>5, <1>6 DEF Retry

LEMMA MoreLoaded ==
  ASSUME ViewSound(page, req), LoadMore
  PROVE  ViewSound(page', req')
<1>1. page.filter \in Maybe(Objects) /\ page.cursor \in 0 .. MaxMemory /\ page \in Views
  BY DEF Maybe, Objects, ViewSound, Views
<1>2. req' \in Asks /\ req'.kind = "list" /\ req'.of = page.filter /\ req'.after = page.cursor /\ ~ req'.served /\ req' # NoReq
  BY <1>1, AskIs DEF LoadMore
<1>3. /\ page' \in Views /\ page'.route = page.route /\ page'.of = page.of /\ page'.shown = page.shown
      /\ page'.cursor = page.cursor /\ page'.filter = page.filter /\ page'.query = page.query /\ page'.found = page.found
      /\ page'.entry = page.entry /\ page'.listed = page.listed /\ page'.failed = page.failed
  <2>1. PICK e \in BOOLEAN : page' = [page EXCEPT !.error = e]
    BY Zenon DEF LoadMore
  <2> QED BY <1>1, <2>1 DEF Views
<1> QED BY <1>2, <1>3 DEF ViewSound, LoadMore

LEMMA ListServed ==
  ASSUME TypeOK, ViewSound(page, req), ServeList
  PROVE  ViewSound(page', req') /\ old' \in Asks
<1>1. req \in Asks /\ old \in Asks
  BY DEF TypeOK
<1>2. CASE req.kind = "list" /\ ~req.served /\ req' = Listed(req) /\ UNCHANGED old
  <2>1. /\ req' \in Asks /\ ListedSound(req') /\ req'.kind = req.kind /\ req'.of = req.of /\ req'.after = req.after
        /\ req' # NoReq
    BY <1>1, <1>2, ListedRow, NoReqIs
  <2> QED BY <1>1, <1>2, <2>1 DEF ViewSound, ServeList
<1>3. CASE old' = Listed(old) /\ UNCHANGED req
  BY <1>1, <1>3, ListedRow DEF ServeList
<1> QED BY <1>2, <1>3 DEF ServeList

LEMMA Deleted ==
  ASSUME ViewSound(page, req), NEW d \in dels, TakeDeleteFromList(d)
  PROVE  ViewSound(page', req')
<1>1. page \in Views /\ page.shown \in Seq(Memories) /\ Increasing(page.shown) /\ None \in Maybe(Queries)
  BY DEF ViewSound, Views, Maybe
<1>2. PICK s \in Seq(Memories) : /\ s = Without(page.shown, d.of) /\ Increasing(s)
                                 /\ \A j \in DOMAIN s : \E i \in DOMAIN page.shown : s[j] = page.shown[i]
  BY <1>1, WithoutSorted
<1>3. page' = [page EXCEPT !.shown = s, !.found = None] /\ page.route = "list"
  BY <1>2 DEF TakeDeleteFromList
<1>4. /\ page' \in Views /\ page'.route = page.route /\ page'.of = page.of /\ page'.shown = s
      /\ page'.cursor = page.cursor /\ page'.filter = page.filter /\ page'.query = page.query /\ page'.found = None
      /\ page'.entry = page.entry /\ page'.listed = page.listed /\ page'.failed = page.failed
  BY <1>1, <1>3 DEF Views
<1>5. page'.cursor # 0 => \A j \in DOMAIN page'.shown : page'.shown[j] <= page'.cursor
  BY <1>2, <1>4 DEF ViewSound
<1>6. CASE page.query = None
  <2>1. req' = req
    BY <1>6 DEF TakeDeleteFromList
  <2> QED BY <1>2, <1>4, <1>5, <2>1 DEF ViewSound
<1>7. CASE page.query # None
  <2>1. page.query \in Queries
    BY <1>1, <1>7 DEF Views, Maybe
  <2>2. req' \in Asks /\ req'.kind = "search" /\ req'.of = page.query /\ ~ req'.served /\ req' # NoReq
    BY <1>7, <2>1, SearchAsked DEF TakeDeleteFromList
  <2> QED BY <1>2, <1>3, <1>4, <1>5, <1>7, <2>2 DEF ViewSound
<1> QED BY <1>6, <1>7

LEMMA MemoriesAreNumbers == Memories \in SUBSET Nat /\ \A s \in Seq(Memories) : \A i \in DOMAIN s : s[i] \in Nat
<1>1. Memories \in SUBSET Nat
  BY MemoryAssumption DEF Memories
<1>2. \A s \in Seq(Memories) : \A i \in DOMAIN s : s[i] \in Memories
  OBVIOUS
<1> QED BY <1>1, <1>2

(* A page that follows the last number shown keeps the list in order.      *)
LEMMA Appended ==
  ASSUME NEW s \in Seq(Memories), NEW t \in Seq(Memories), NEW mid \in Nat, NEW last \in Nat,
         Increasing(s), Increasing(t), \A i \in DOMAIN s : s[i] <= mid, \A i \in DOMAIN t : mid < t[i]
  PROVE  /\ s \o t \in Seq(Memories) /\ Increasing(s \o t)
         /\ (mid < last /\ \A i \in DOMAIN t : t[i] <= last) => \A i \in DOMAIN (s \o t) : (s \o t)[i] <= last
<1> DEFINE u == s \o t
           n == Len(s)
           k == Len(t)
<1>1. n \in Nat /\ k \in Nat /\ DOMAIN s = 1 .. n /\ DOMAIN t = 1 .. k
  OBVIOUS
<1>2. u \in Seq(Memories)
  OBVIOUS
<1>3. DOMAIN u = 1 .. n + k
  OBVIOUS
<1>4. \A i \in 1 .. n + k : u[i] = IF i <= n THEN s[i] ELSE t[i - n]
  BY <1>1
<1>5. (\A i \in 1 .. n : s[i] \in Nat) /\ (\A i \in 1 .. k : t[i] \in Nat)
  BY <1>1, MemoriesAreNumbers
<1>6. (\A i \in 1 .. n : s[i] <= mid) /\ (\A i \in 1 .. k : mid < t[i])
  BY <1>1
<1>7. /\ \A i, j \in 1 .. n : i < j => s[i] < s[j]
      /\ \A i, j \in 1 .. k : i < j => t[i] < t[j]
  BY <1>1 DEF Increasing
<1> HIDE DEF u, n, k
<1>8. ASSUME NEW i \in 1 .. n + k, NEW j \in 1 .. n + k, i < j PROVE u[i] < u[j]
  <2>0. i \in Nat /\ j \in Nat /\ i >= 1 /\ j >= 1 /\ i <= n + k /\ j <= n + k
    BY <1>1
  <2>1. CASE j <= n
    <3>1. i \in 1 .. n /\ j \in 1 .. n
      BY <1>1, <1>8, <2>0, <2>1
    <3>2. u[i] = s[i] /\ u[j] = s[j]
      BY <1>4, <3>1
    <3> QED BY <1>7, <1>8, <3>1, <3>2
  <2>2. CASE ~ (i <= n)
    <3>1. i - n \in 1 .. k /\ j - n \in 1 .. k /\ i - n < j - n /\ ~ (j <= n)
      BY <1>1, <1>8, <2>0, <2>2
    <3>2. u[i] = t[i - n] /\ u[j] = t[j - n]
      BY <1>4, <2>2, <3>1
    <3> QED BY <1>7, <3>1, <3>2
  <2>3. CASE i <= n /\ ~ (j <= n)
    <3>1. i \in 1 .. n /\ j - n \in 1 .. k
      BY <1>1, <2>0, <2>3
    <3>2. u[i] = s[i] /\ u[j] = t[j - n]
      BY <1>4, <2>3
    <3>3. s[i] <= mid /\ mid < t[j - n] /\ s[i] \in Nat /\ t[j - n] \in Nat
      BY <1>5, <1>6, <3>1
    <3> QED BY <3>2, <3>3
  <2> QED BY <1>1, <1>8, <2>0, <2>1, <2>2, <2>3
<1>9. ASSUME mid < last, \A i \in 1 .. k : t[i] <= last, NEW i \in 1 .. n + k PROVE u[i] <= last
  <2>1. CASE i <= n
    <3>1. i \in 1 .. n /\ u[i] = s[i]
      BY <1>1, <1>4, <2>1
    <3>2. s[i] <= mid /\ s[i] \in Nat
      BY <1>5, <1>6, <3>1
    <3> QED BY <1>9, <3>1, <3>2
  <2>2. CASE ~ (i <= n)
    <3>1. i - n \in 1 .. k
      BY <1>1, <2>2
    <3>2. u[i] = t[i - n]
      BY <1>4, <2>2
    <3> QED BY <1>9, <3>1, <3>2
  <2> QED BY <2>1, <2>2
<1>10. Increasing(u)
  BY <1>3, <1>8 DEF Increasing
<1>11. (mid < last /\ \A i \in DOMAIN t : t[i] <= last) => \A i \in DOMAIN u : u[i] <= last
  BY <1>1, <1>3, <1>9
<1> QED BY <1>2, <1>10, <1>11 DEF u

LEMMA ListTaken ==
  ASSUME ViewSound(page, req), TakeList(TRUE)
  PROVE  ViewSound(page', req')
<1>1. /\ req.kind = "list" /\ req.served /\ req' = NoReq /\ page \in Views /\ req \in Asks
      /\ page' = IF req.after = 0
                   THEN [page EXCEPT !.shown = req.data[1], !.cursor = req.data[2],
                                     !.listed = req.of, !.failed = FALSE]
                   ELSE [page EXCEPT !.shown = @ \o req.data[1], !.cursor = req.data[2]]
  BY DEF TakeList, Answer, Uses, Done, ViewSound
<1>2. PICK items \in Seq(Memories), last \in 0 .. MaxMemory :
         /\ items = req.data[1] /\ last = req.data[2] /\ Increasing(items)
         /\ \A i \in DOMAIN items : req.after < items[i]
         /\ last # 0 => req.after < last /\ \A i \in DOMAIN items : items[i] <= last
  <2>1. ListedSound(req)
    BY <1>1 DEF ViewSound
  <2> QED BY <2>1 DEF ListedSound
<1>3. PICK s \in Seq(Memories) : /\ s = IF req.after = 0 THEN items ELSE page.shown \o items
                                 /\ Increasing(s)
                                 /\ last # 0 => \A i \in DOMAIN s : s[i] <= last
  <2>1. CASE req.after = 0
    BY <1>2, <2>1
  <2>2. CASE req.after # 0
    <3>1. page.shown \in Seq(Memories) /\ Increasing(page.shown) /\ \A i \in DOMAIN page.shown : page.shown[i] <= req.after
      BY <1>1, <2>2 DEF ViewSound, Views
    <3>2. req.after \in Nat /\ last \in Nat
      BY <1>1, MemoryAssumption DEF Asks
    <3>3. /\ page.shown \o items \in Seq(Memories) /\ Increasing(page.shown \o items)
          /\ (req.after < last /\ \A i \in DOMAIN items : items[i] <= last)
               => \A i \in DOMAIN (page.shown \o items) : (page.shown \o items)[i] <= last
      BY <1>2, <3>1, <3>2, Appended
    <3> QED BY <1>2, <2>2, <3>3
  <2> QED BY <2>1, <2>2
<1>4. page' = IF req.after = 0
                THEN [page EXCEPT !.shown = s, !.cursor = last, !.listed = req.of, !.failed = FALSE]
                ELSE [page EXCEPT !.shown = s, !.cursor = last]
  BY <1>1, <1>2, <1>3
<1>5. req.of = page.filter /\ page.filter \in Maybe(Types) /\ page.route = "list" /\ page.query = None
      /\ (req.after # 0 => (page.failed \/ page.listed = page.filter))
  BY <1>1 DEF ViewSound, Views
<1>6. /\ page' \in Views /\ page'.route = page.route /\ page'.of = page.of /\ page'.shown = s
      /\ page'.cursor = last /\ page'.filter = page.filter /\ page'.query = page.query /\ page'.found = page.found
      /\ page'.entry = page.entry /\ (page'.failed \/ page'.listed = page'.filter)
  <2>1. CASE req.after = 0
    <3>1. PICK f \in BOOLEAN : page' = [page EXCEPT !.shown = s, !.cursor = last, !.listed = req.of, !.failed = f]
      BY Zenon, <1>4, <2>1
    <3> QED BY ZenonT(60), <1>1, <1>5, <3>1 DEF Views
  <2>2. CASE req.after # 0
    BY ZenonT(60), <1>1, <1>4, <1>5, <2>2 DEF Views
  <2> QED BY <2>1, <2>2
<1> QED BY <1>1, <1>3, <1>6, NoReqIs DEF ViewSound

(* A failed request leaves the view as it is.                              *)
LEMMA AnswerFailed ==
  ASSUME ViewSound(page, req), FailAnswer(TRUE)
  PROVE  ViewSound(page', req')
<1>1. page \in Views /\ req \in Asks /\ req' = NoReq
  BY DEF FailAnswer, Done, ViewSound
<1>2. PICK f \in BOOLEAN, e \in BOOLEAN :
        /\ page' = [page EXCEPT !.error = e, !.failed = f]
        /\ (req.kind = "list" /\ req.after = 0) => f
        /\ page.failed => f
  <2>1. CASE req.kind \in {"list", "summary"}
    <3>1. page.failed \in BOOLEAN
      BY <1>1 DEF Views
    <3>2. page' = [page EXCEPT !.error = TRUE, !.failed = @ \/ (req.kind = "list" /\ req.after = 0)]
      BY Zenon, <2>1 DEF FailAnswer, Answer, Uses
    <3>3. PICK f \in BOOLEAN : /\ page' = [page EXCEPT !.error = TRUE, !.failed = f]
                              /\ f = (page.failed \/ (req.kind = "list" /\ req.after = 0))
      BY Zenon, <3>1, <3>2
    <3> QED BY Zenon, <3>3
  <2>2. CASE req.kind \notin {"list", "summary"}
    <3>1. page' = page
      BY <2>2 DEF FailAnswer, Answer, Uses
    <3>2. page.error \in BOOLEAN /\ page.failed \in BOOLEAN /\ page = [page EXCEPT !.error = page.error, !.failed = page.failed]
      BY <1>1 DEF Views
    <3>3. req.kind # "list"
      BY <2>2
    <3> QED BY Zenon, <3>1, <3>2, <3>3
  <2> QED BY Zenon, <2>1, <2>2
<1>3. /\ page' \in Views /\ page'.route = page.route /\ page'.of = page.of /\ page'.shown = page.shown
      /\ page'.cursor = page.cursor /\ page'.filter = page.filter /\ page'.query = page.query /\ page'.found = page.found
      /\ page'.entry = page.entry /\ page'.listed = page.listed /\ page'.failed = f
  BY <1>1, <1>2 DEF Views
<1>4. (page.route = "list" /\ page.query = None) => (f \/ page.listed = page.filter)
  <2> SUFFICES ASSUME page.route = "list", page.query = None PROVE f \/ page.listed = page.filter
    OBVIOUS
  <2>1. req # NoReq /\ req.kind \in {"none", "list", "search", "entry", "summary"}
    BY <1>1 DEF FailAnswer, Answer, Asks
  <2>2. CASE req.kind = "list"
    BY <1>2, <2>2 DEF ViewSound
  <2>3. CASE req.kind \in {"search", "entry", "summary"}
    BY <2>3 DEF ViewSound
  <2>4. CASE req.kind = "none"
    BY <2>1, <2>4 DEF ViewSound
  <2> QED BY <2>1, <2>2, <2>3, <2>4
<1> QED BY <1>1, <1>3, <1>4, NoReqIs DEF ViewSound

LEMMA AnswerTaken ==
  ASSUME ViewSound(page, req), TakeSearch(TRUE) \/ TakeEntry(TRUE) \/ TakeSummary(TRUE)
  PROVE  ViewSound(page', req')
<1>1. page \in Views /\ req \in Asks /\ req' = NoReq
  BY DEF TakeSearch, TakeEntry, TakeSummary, Done, ViewSound
<1>2. CASE TakeSearch(TRUE)
  <2>1. req.kind = "search" /\ page' = [page EXCEPT !.found = req.of] /\ req.of = page.query /\ page.query # None
        /\ page.query \in Maybe(Queries)
    BY <1>1, <1>2 DEF TakeSearch, Answer, Uses, ViewSound, Views
  <2>2. /\ page' \in Views /\ page'.route = page.route /\ page'.of = page.of /\ page'.shown = page.shown
        /\ page'.cursor = page.cursor /\ page'.filter = page.filter /\ page'.query = page.query /\ page'.found = page.query
        /\ page'.entry = page.entry /\ page'.listed = page.listed /\ page'.failed = page.failed
    BY <1>1, <2>1 DEF Views
  <2> QED BY <1>1, <2>1, <2>2, NoReqIs DEF ViewSound
<1>3. CASE TakeEntry(TRUE)
  <2>1. req.kind = "entry" /\ page.route = "entry" /\ page.of = req.of /\ page.of \in Maybe(Memories)
    BY <1>1, <1>3 DEF TakeEntry, Answer, ViewSound, Views
  <2>2. CASE page' = page
    BY <1>1, <2>1, <2>2, NoReqIs DEF ViewSound
  <2>3. CASE page' = [page EXCEPT !.entry = req.of]
    <3>1. /\ page' \in Views /\ page'.route = page.route /\ page'.of = page.of /\ page'.shown = page.shown
          /\ page'.cursor = page.cursor /\ page'.filter = page.filter /\ page'.query = page.query /\ page'.found = page.found
          /\ page'.entry = page.of /\ page'.listed = page.listed /\ page'.failed = page.failed
      BY <1>1, <2>1, <2>3 DEF Views
    <3> QED BY <1>1, <2>1, <3>1, NoReqIs DEF ViewSound
  <2> QED BY <1>3, <2>2, <2>3 DEF TakeEntry, Answer, Uses
<1>4. CASE TakeSummary(TRUE)
  <2>1. req.kind = "summary" /\ page.route = "summary" /\ page' = page
    BY <1>4 DEF TakeSummary, Answer, ViewSound
  <2> QED BY <1>1, <2>1, NoReqIs DEF ViewSound
<1> QED BY Zenon, <1>2, <1>3, <1>4

(***************************************************************************)
(* The invariant.                                                          *)
(***************************************************************************)
MemoryInv == TypeOK /\ ServedByOneCredential /\ ViewSound(page, req)

LEMMA ServedIs == ServedByOneCredential <=> (call.step = "serving" => Serves1(call.request, call.identity))
BY DEF ServedByOneCredential, Serves1

LEMMA MemoryInit ==
  ASSUME Init
  PROVE  MemoryInv
<1>1. NoReq \in Asks /\ 0 \in 0 .. MaxMemory /\ <<>> \in Seq(Memories)
  BY NoReqIs, MemoryAssumption
<1>2. None \in Maybe(Memories) /\ None \in Maybe(Types) /\ None \in Maybe(Queries) /\ None \in Maybe(Objects)
  BY DEF Maybe
<1>3. /\ Ask("list", None, 0) \in Asks /\ Ask("list", None, 0).kind = "list" /\ Ask("list", None, 0).of = None
      /\ Ask("list", None, 0).after = 0 /\ ~ Ask("list", None, 0).served /\ Ask("list", None, 0) # NoReq
  BY <1>1, <1>2, AskIs
<1>4. PICK open \in BOOLEAN :
        /\ page = [route |-> IF open THEN "list" ELSE "closed", of |-> None,
                   profile |-> <<PageUser, None>>, filter |-> None, query |-> None,
                   shown |-> <<>>, cursor |-> 0, listed |-> None, found |-> None,
                   entry |-> None, error |-> FALSE, failed |-> FALSE]
        /\ req = IF open THEN Ask("list", None, 0) ELSE NoReq
  BY DEF Init
<1>5. page \in Views
  BY <1>1, <1>2, <1>4 DEF Views
<1>6. req \in Asks /\ ViewSound(page, req)
  <2>1. CASE open
    <3>1. page.route = "list" /\ page.filter = None /\ page.query = None /\ page.found = None
          /\ page.entry = None /\ page.shown = <<>> /\ page.cursor = 0 /\ req = Ask("list", None, 0)
      BY <1>4, <2>1
    <3> QED BY <1>3, <1>5, <3>1 DEF ViewSound, Increasing
  <2>2. CASE ~ open
    <3>1. page.route = "closed" /\ page.found = None
          /\ page.entry = None /\ page.shown = <<>> /\ page.cursor = 0 /\ req = NoReq
      BY <1>4, <2>2
    <3> QED BY <1>5, <3>1, NoReqIs DEF ViewSound, Increasing
  <2> QED BY <2>1, <2>2
<1>7. registry \in [Keys -> [kind : {"api-key", "pat"}, user : Users, scope : Maybe(Scopes),
                             permissions : SUBSET Permissions, live : BOOLEAN]]
  BY MemoryAssumption DEF Init, Maybe
<1>8. store \in [Profiles -> SUBSET Memories]
  BY DEF Init
<1>9. call = NoCall /\ calls \in 0 .. MaxCalls /\ old \in Asks /\ dels \in SUBSET Deletes
  BY <1>1, MemoryAssumption DEF Init
<1>10. ServedByOneCredential
  BY <1>9, ServedIs DEF NoCall
<1> QED BY <1>5, <1>6, <1>7, <1>8, <1>9, <1>10 DEF MemoryInv, TypeOK

(* What the other callers do leaves the UI alone.                          *)
LEMMA CallersLeaveUi ==
  ASSUME Caller
  PROVE  UNCHANGED <<page, req, old, dels>>
BY DEF Caller, Arrive, Add, Delete, Ingest, DeleteSession, Search, List, Get, Summary, Stats, Reads, ServiceFails,
       Disable, Answered

(* A served request ends: its memories change in its own profile alone.    *)
Ends ==
  /\ call.step = "serving" /\ call' = NoCall /\ UNCHANGED <<registry, calls>>
  /\ store' = store \/ \E memories : memories \in SUBSET Memories /\ Holds(memories)

LEMMA Ended ==
  ASSUME TypeOK,
         \/ \E m \in Memories : Add(m) \/ Delete(m)
         \/ \E memories \in SUBSET Memories : Ingest(memories)
         \/ \E s \in Sessions : DeleteSession(s)
         \/ Search \/ List \/ Get \/ Summary \/ Stats \/ ServiceFails
  PROVE  Ends
<1>1. CASE Search \/ List \/ Get \/ Summary \/ Stats \/ ServiceFails
  BY <1>1 DEF Search, List, Get, Summary, Stats, ServiceFails, Reads, Serving, Answered, Ends
<1>2. ASSUME call.step = "serving" PROVE Held \in SUBSET Memories
  <2>1. call # NoCall
    BY <1>2 DEF NoCall
  <2>2. call.identity \in Identities
    BY <2>1 DEF TypeOK, Serves
  <2>3. call.identity.profile \in Profiles
    BY <2>2 DEF Identities
  <2> QED BY <2>3 DEF TypeOK, Held
<1>3. CASE \E m \in Memories : Add(m) \/ Delete(m)
  <2>1. PICK m \in Memories : Add(m) \/ Delete(m)
    BY <1>3
  <2>2. Held \in SUBSET Memories
    BY <1>2, <2>1 DEF Add, Delete, Serving
  <2>3. Held \cup {m} \in SUBSET Memories /\ Held \ {m} \in SUBSET Memories
    BY <2>2
  <2>4. Holds(Held \cup {m}) \/ Holds(Held \ {m})
    BY <2>1 DEF Add, Delete
  <2> QED BY <2>1, <2>3, <2>4 DEF Add, Delete, Serving, Answered, Ends
<1>4. CASE \E memories \in SUBSET Memories : Ingest(memories)
  <2>1. PICK memories \in SUBSET Memories : Ingest(memories)
    BY <1>4
  <2>2. Held \cup memories \in SUBSET Memories
    BY <1>2, <2>1 DEF Ingest, Serving
  <2> QED BY <2>1, <2>2 DEF Ingest, Serving, Answered, Ends
<1>5. CASE \E s \in Sessions : DeleteSession(s)
  <2>1. PICK s \in Sessions : DeleteSession(s)
    BY <1>5
  <2>2. {m \in Held : SessionOf[m] # s} \in SUBSET Memories
    BY <1>2, <2>1 DEF DeleteSession, Serving
  <2> QED BY <2>1, <2>2 DEF DeleteSession, Serving, Answered, Ends
<1> QED BY <1>1, <1>3, <1>4, <1>5

LEMMA EndedIsSound ==
  ASSUME MemoryInv, Ends, UNCHANGED <<page, req, old, dels>>
  PROVE  MemoryInv'
<1>1. TypeOK /\ ViewSound(page, req)
  BY DEF MemoryInv
<1>2. store' \in [Profiles -> SUBSET Memories]
  BY <1>1 DEF Ends, Holds, TypeOK
<1>3. TypeOK'
  BY <1>1, <1>2 DEF Ends, TypeOK
<1>4. ServedByOneCredential'
  BY DEF Ends, NoCall, ServedByOneCredential
<1>5. ViewSound(page, req)'
  BY <1>1
<1> QED BY <1>3, <1>4, <1>5 DEF MemoryInv

LEMMA Arrived ==
  ASSUME MemoryInv, NEW r \in Requests, NEW op \in Operations(r.path), Arrive(r, op)
  PROVE  MemoryInv'
<1>1. TypeOK /\ ViewSound(page, req)
  BY DEF MemoryInv
<1>2. Authenticate(r) \in Identities /\ Serves1(r, Authenticate(r))
  BY <1>1, AuthenticatedIs DEF Arrive, Permitted
<1>3. op \in Operations("api") \cup Operations("mcp")
  BY DEF Operations, Requests
<1>4. PICK c : /\ c = [step |-> "serving", request |-> r, identity |-> Authenticate(r), op |-> op]
               /\ c \in Serves /\ c.request = r /\ c.identity = Authenticate(r)
  <2>1. \A id, o : LET d == [step |-> "serving", request |-> r, identity |-> id, op |-> o] IN
          /\ d.request = r /\ d.identity = id
          /\ (id \in Identities /\ o \in Operations("api") \cup Operations("mcp")) => d \in Serves
    BY DEF Serves
  <2> QED BY <1>2, <1>3, <2>1
<1>5. call' = c /\ UNCHANGED <<registry, store, page, req, old, dels>> /\ calls < MaxCalls
      /\ (calls' = calls + 1 \/ calls' = calls)
  BY <1>4 DEF Arrive
<1>6. calls' \in 0 .. MaxCalls
  BY <1>1, <1>5, MemoryAssumption DEF TypeOK
<1>7. TypeOK'
  BY <1>1, <1>4, <1>5, <1>6 DEF TypeOK
<1>8. ServedByOneCredential'
  <2>2. call'.request = r /\ call'.identity = Authenticate(r)
    BY <1>4, <1>5
  <2> QED BY <1>2, <1>5, <2>2 DEF ServedByOneCredential, Serves1, CredentialUser
<1>9. ViewSound(page, req)'
  BY <1>1, <1>5
<1> QED BY <1>7, <1>8, <1>9 DEF MemoryInv

(* Disabling a key changes neither its user nor its scope.                 *)
LEMMA Disabled ==
  ASSUME MemoryInv, NEW k \in Keys, Disable(k)
  PROVE  MemoryInv'
<1>1. TypeOK /\ ViewSound(page, req) /\ ServedByOneCredential
  BY DEF MemoryInv
<1>2. UNCHANGED <<store, call, calls, page, req, old, dels>>
  BY DEF Disable
<1>3. registry' \in [Keys -> [kind : {"api-key", "pat"}, user : Users, scope : Maybe(Scopes),
                              permissions : SUBSET Permissions, live : BOOLEAN]]
  BY <1>1 DEF Disable, TypeOK
<1>4. \A x \in Keys : registry'[x].user = registry[x].user /\ registry'[x].scope = registry[x].scope
  BY <1>1 DEF Disable, TypeOK
<1>5. TypeOK'
  BY <1>1, <1>2, <1>3 DEF TypeOK
<1>6. ServedByOneCredential'
  <2> SUFFICES ASSUME call.step = "serving" PROVE Serves1(call.request, call.identity)'
    BY <1>2 DEF ServedByOneCredential, Serves1
  <2>1. call.request \in Requests
    BY <1>1 DEF TypeOK, NoCall, Serves
  <2> DEFINE q == call.request
  <2>2. /\ q.key # None => q.key \in Keys
        /\ (q.authz # None /\ q.authz[1] # "jwt") => q.authz[2] \in Keys
    <3>1. /\ q.key \in Keys \cup {None}
          /\ q.authz \in ({"apikey", "pat"} \X Keys) \cup ({"jwt"} \X Users) \cup {None}
      BY <2>1 DEF Requests
    <3> HIDE DEF q
    <3> QED BY <3>1
  <2>3. CredentialUser(q)' = CredentialUser(q)
    BY <1>2, <1>4, <2>2 DEF CredentialUser
  <2>4. Serves1(call.request, call.identity)
    BY <1>1, ServedIs
  <2>5. (HeaderCredentials(q) # {} /\ ~ (q.authz # None /\ q.authz[1] = "jwt")) => PresentedKey(q) \in Keys
    BY <2>2 DEF HeaderCredentials, PresentedKey
  <2>6. (HeaderCredentials(q) # {} /\ ~ (q.authz # None /\ q.authz[1] = "jwt"))
          => registry'[PresentedKey(q)].scope = registry[PresentedKey(q)].scope
    BY <1>4, <2>5
  <2>7. call' = call
    BY <1>2
  <2> HIDE DEF q
  <2> QED BY ZenonT(60), <2>3, <2>4, <2>6, <2>7 DEF Serves1, q
<1>7. ViewSound(page, req)'
  BY <1>1, <1>2
<1> QED BY <1>5, <1>6, <1>7 DEF MemoryInv

LEMMA CallerStep ==
  ASSUME MemoryInv, Caller
  PROVE  MemoryInv'
<1>1. UNCHANGED <<page, req, old, dels>>
  BY CallersLeaveUi
<1>2. CASE \E r \in Requests : \E op \in Operations(r.path) : Arrive(r, op)
  BY <1>2, Arrived
<1>3. CASE \E op \in {"add", "delete"} : Arrive(Plain, op)
  <2>1. Plain \in Requests
    <3>1. page.profile[1] = PageUser /\ PageUser \in Users
      BY MemoryAssumption DEF MemoryInv, TypeOK, Views
    <3>2. <<"jwt", page.profile[1]>> \in {"jwt"} \X Users
      BY <3>1
    <3> QED BY <3>2 DEF Plain, Requests
  <2>2. \A op \in {"add", "delete"} : op \in Operations(Plain.path)
    BY DEF Operations
  <2> QED BY <1>3, <2>1, <2>2, Arrived
<1>4. CASE \/ \E m \in Memories : Add(m) \/ Delete(m)
           \/ \E memories \in SUBSET Memories : Ingest(memories)
           \/ \E s \in Sessions : DeleteSession(s)
           \/ Search \/ List \/ Get \/ Summary \/ Stats \/ ServiceFails
  <2>1. Ends
    BY <1>4, Ended DEF MemoryInv
  <2> QED BY <1>1, <2>1, EndedIsSound
<1>5. CASE \E k \in Keys : Disable(k)
  BY <1>5, Disabled
<1> QED BY <1>2, <1>3, <1>4, <1>5 DEF Caller

(* The frame of the UI's steps.                                            *)
LEMMA UiLeavesCallers ==
  ASSUME TypeOK, Ui
  PROVE  UNCHANGED <<registry, call, calls>> /\ store' \in [Profiles -> SUBSET Memories]
<1>1. store \in [Profiles -> SUBSET Memories] /\ Mine \in SUBSET Memories
  BY MineTyped DEF TypeOK
<1>2. CASE \E m \in Memories : Submit(m)
  <2>1. PICK m \in Memories : Submit(m)
    BY <1>2
  <2>2. store' = [store EXCEPT ![page.profile] = Mine \cup {m}]
    BY <2>1 DEF Submit, Mine
  <2>3. Mine \cup {m} \in SUBSET Memories
    BY <1>1
  <2> QED BY <1>1, <2>1, <2>2, <2>3 DEF Submit
<1>3. CASE \E d \in dels : ServeDelete(d)
  <2>1. PICK d \in dels : ServeDelete(d)
    BY <1>3
  <2>2. store' = [store EXCEPT ![page.profile] = Mine \ {d.of}]
    BY <2>1 DEF ServeDelete, Mine
  <2> QED BY <1>1, <2>1, <2>2 DEF ServeDelete
<1>4. CASE \/ Navigate("list", None) \/ Navigate("new", None) \/ Navigate("summary", None)
           \/ \E m \in Memories : Navigate("entry", m)
           \/ \E m \in Memories : AskDelete(m)
           \/ \E t \in Types \cup {None} : Filter(t)
           \/ \E q \in Queries \cup {None} : Type(q)
           \/ LoadMore \/ Retry \/ ServeList
  <2>1. UNCHANGED <<registry, store, call, calls>>
    <3>1. CASE \/ Navigate("list", None) \/ Navigate("new", None) \/ Navigate("summary", None)
               \/ \E m \in Memories : Navigate("entry", m)
               \/ \E m \in Memories : AskDelete(m)
      BY <3>1 DEF Navigate, AskDelete
    <3>2. CASE \/ \E t \in Types \cup {None} : Filter(t)
               \/ \E q \in Queries \cup {None} : Type(q)
      BY Zenon, <3>2 DEF Filter, Type
    <3>3. CASE LoadMore \/ Retry \/ ServeList
      BY Zenon, <3>3 DEF LoadMore, Retry, ServeList
    <3> QED BY <1>4, <3>1, <3>2, <3>3
  <2> QED BY <1>1, <2>1
<1>5. CASE \/ \E d \in dels : TakeDeleteFromList(d) \/ TakeDeleteOfEntry(d) \/ FailDelete(d)
           \/ \E c \in BOOLEAN : TakeList(c) \/ TakeSearch(c) \/ TakeEntry(c) \/ TakeSummary(c) \/ FailAnswer(c)
  <2>1. UNCHANGED <<registry, store, call, calls>>
    <3>1. CASE \E d \in dels : TakeDeleteFromList(d) \/ TakeDeleteOfEntry(d) \/ FailDelete(d)
      BY Zenon, <3>1 DEF TakeDeleteFromList, TakeDeleteOfEntry, FailDelete
    <3>2. CASE \E c \in BOOLEAN : TakeList(c) \/ TakeSearch(c) \/ TakeEntry(c) \/ TakeSummary(c) \/ FailAnswer(c)
      BY Zenon, <3>2 DEF TakeList, TakeSearch, TakeEntry, TakeSummary, FailAnswer, Done
    <3> QED BY <1>5, <3>1, <3>2
  <2> QED BY <1>1, <2>1
<1> QED BY <1>2, <1>3, <1>4, <1>5 DEF Ui

LEMMA DeleteRows ==
  ASSUME TypeOK
  PROVE  /\ Abandoned \in SUBSET Deletes
         /\ \A d \in dels : d \in Deletes /\ [d EXCEPT !.served = TRUE] \in Deletes
         /\ \A m \in Memories : [of |-> m, served |-> FALSE, live |-> TRUE] \in Deletes
<1>1. \A d \in dels : d \in Deletes /\ [d EXCEPT !.served = TRUE] \in Deletes /\ [d EXCEPT !.live = FALSE] \in Deletes
  BY DEF TypeOK, Deletes
<1>2. Abandoned \in SUBSET Deletes
  BY <1>1 DEF Abandoned
<1> QED BY <1>1, <1>2 DEF Deletes

LEMMA UiDeletes ==
  ASSUME TypeOK, Ui
  PROVE  dels' \in SUBSET Deletes
<1>1. dels \in SUBSET Deletes /\ Abandoned \in SUBSET Deletes
  BY DeleteRows DEF TypeOK
<1>2. CASE \E m \in Memories : AskDelete(m)
  BY <1>1, <1>2, DeleteRows DEF AskDelete
<1>3. CASE \E d \in dels : ServeDelete(d)
  <2>1. PICK d \in dels : ServeDelete(d)
    BY <1>3
  <2>2. dels' = dels \ {d} \/ dels' = (dels \ {d}) \cup {[d EXCEPT !.served = TRUE]}
    BY <2>1 DEF ServeDelete
  <2> QED BY <1>1, <2>2, DeleteRows
<1>4. CASE \E d \in dels : TakeDeleteFromList(d) \/ TakeDeleteOfEntry(d) \/ FailDelete(d)
  BY <1>1, <1>4 DEF TakeDeleteFromList, TakeDeleteOfEntry, FailDelete
<1>5. CASE \/ Navigate("list", None) \/ Navigate("new", None) \/ Navigate("summary", None)
           \/ \E m \in Memories : Navigate("entry", m)
  BY <1>1, <1>5 DEF Navigate
<1>6. CASE \/ \E m \in Memories : Submit(m)
           \/ \E t \in Types \cup {None} : Filter(t)
           \/ \E q \in Queries \cup {None} : Type(q)
           \/ LoadMore \/ Retry \/ ServeList
  <2>1. dels' = dels
    BY Zenon, <1>6 DEF Submit, Filter, Type, LoadMore, Retry, ServeList
  <2> QED BY <1>1, <2>1
<1>7. CASE \E c \in BOOLEAN : TakeList(c) \/ TakeSearch(c) \/ TakeEntry(c) \/ TakeSummary(c) \/ FailAnswer(c)
  BY <1>1, <1>7 DEF TakeList, TakeSearch, TakeEntry, TakeSummary, FailAnswer, Done
<1> QED BY <1>2, <1>3, <1>4, <1>5, <1>6, <1>7 DEF Ui

LEMMA UiRequests ==
  ASSUME TypeOK, Ui
  PROVE  old' \in Asks
<1>1. req \in Asks /\ old \in Asks /\ NoReq \in Asks
  BY NoReqIs DEF TypeOK
<1>2. CASE ServeList
  BY <1>1, <1>2, ListedRow DEF ServeList
<1>3. CASE \/ \E m \in Memories : AskDelete(m)
           \/ \E d \in dels : ServeDelete(d) \/ FailDelete(d)
           \/ LoadMore
  BY <1>1, <1>3 DEF AskDelete, ServeDelete, FailDelete, LoadMore
<1>4. CASE \/ Navigate("list", None) \/ Navigate("new", None) \/ Navigate("summary", None)
           \/ \E m \in Memories : Navigate("entry", m)
           \/ \E m \in Memories : Submit(m)
           \/ \E d \in dels : TakeDeleteFromList(d) \/ TakeDeleteOfEntry(d)
  <2>1. old' = old \/ old' = req
    BY Zenon, <1>4 DEF Navigate, Submit, TakeDeleteFromList, TakeDeleteOfEntry, Supersede
  <2> QED BY <1>1, <2>1
<1>5. CASE \/ \E t \in Types \cup {None} : Filter(t)
           \/ \E q \in Queries \cup {None} : Type(q)
           \/ Retry
  <2>1. old' = old \/ old' = req
    BY Zenon, <1>5 DEF Filter, Type, Retry, Reload, Supersede
  <2> QED BY <1>1, <2>1
<1>6. CASE \E c \in BOOLEAN : TakeList(c) \/ TakeSearch(c) \/ TakeEntry(c) \/ TakeSummary(c) \/ FailAnswer(c)
  BY <1>1, <1>6 DEF TakeList, TakeSearch, TakeEntry, TakeSummary, FailAnswer, Done
<1> QED BY <1>2, <1>3, <1>4, <1>5, <1>6 DEF Ui

(* The failure of a delete only sets the error of the list.                *)
LEMMA DeleteFailed ==
  ASSUME ViewSound(page, req), NEW d \in dels, FailDelete(d)
  PROVE  ViewSound(page', req')
<1>1. page \in Views /\ req' = req /\ (page' = page \/ page' = [page EXCEPT !.error = TRUE])
  BY Zenon DEF FailDelete, ViewSound
<1>2. /\ page' \in Views /\ page'.route = page.route /\ page'.of = page.of /\ page'.shown = page.shown
      /\ page'.cursor = page.cursor /\ page'.filter = page.filter /\ page'.query = page.query /\ page'.found = page.found
      /\ page'.entry = page.entry /\ page'.listed = page.listed /\ page'.failed = page.failed
  <2>1. CASE page' = page
    BY <1>1, <2>1
  <2>2. CASE page' = [page EXCEPT !.error = TRUE]
    <3>1. PICK e \in BOOLEAN : page' = [page EXCEPT !.error = e]
      BY Zenon, <2>2
    <3> QED BY <1>1, <3>1 DEF Views
  <2> QED BY <1>1, <2>1, <2>2
<1> QED BY <1>1, <1>2 DEF ViewSound

LEMMA UiView ==
  ASSUME MemoryInv, Ui
  PROVE  ViewSound(page', req')
<1>1. TypeOK /\ ViewSound(page, req) /\ page \in Views
  BY DEF MemoryInv, TypeOK
<1>2. CASE \/ \E m \in Memories : Navigate("entry", m) \/ Submit(m)
           \/ Navigate("list", None) \/ Navigate("new", None) \/ Navigate("summary", None)
           \/ \E d \in dels : TakeDeleteOfEntry(d)
  BY <1>1, <1>2, Renewed
<1>3. CASE \E t \in Types \cup {None} : Filter(t)
  BY <1>1, <1>3, Filtered
<1>4. CASE \E q \in Queries \cup {None} : Type(q)
  BY <1>1, <1>4, Typed
<1>5. CASE LoadMore \/ Retry
  BY <1>1, <1>5, MoreLoaded, Retried
<1>6. CASE ServeList
  BY <1>1, <1>6, ListServed
<1>7. CASE \E d \in dels : TakeDeleteFromList(d) \/ FailDelete(d)
  BY <1>1, <1>7, Deleted, DeleteFailed
<1>8. CASE (\E d \in dels : ServeDelete(d)) \/ \E m \in Memories : AskDelete(m)
  <2>1. page' = page /\ req' = req
    BY <1>8 DEF ServeDelete, AskDelete
  <2> QED BY <1>1, <2>1
<1>9. CASE \E c \in BOOLEAN : TakeList(c) \/ TakeSearch(c) \/ TakeEntry(c) \/ TakeSummary(c) \/ FailAnswer(c)
  <2>1. CASE TakeList(TRUE) \/ FailAnswer(TRUE)
    BY <1>1, <2>1, ListTaken, AnswerFailed
  <2>2. CASE TakeSearch(TRUE) \/ TakeEntry(TRUE) \/ TakeSummary(TRUE)
    BY <1>1, <2>2, AnswerTaken
  <2>3. CASE TakeList(FALSE) \/ TakeSearch(FALSE) \/ TakeEntry(FALSE) \/ TakeSummary(FALSE) \/ FailAnswer(FALSE)
    <3>1. page' = page /\ req' = req
      BY <2>3 DEF TakeList, TakeSearch, TakeEntry, TakeSummary, FailAnswer, Uses, Done
    <3> QED BY <1>1, <3>1
  <2> QED BY <1>9, <2>1, <2>2, <2>3
<1> QED BY <1>2, <1>3, <1>4, <1>5, <1>6, <1>7, <1>8, <1>9 DEF Ui

LEMMA UiStep ==
  ASSUME MemoryInv, Ui
  PROVE  MemoryInv'
<1>1. TypeOK /\ ServedByOneCredential
  BY DEF MemoryInv
<1>2. UNCHANGED <<registry, call, calls>> /\ store' \in [Profiles -> SUBSET Memories]
  BY <1>1, UiLeavesCallers
<1>3. old' \in Asks /\ dels' \in SUBSET Deletes
  BY <1>1, UiRequests, UiDeletes
<1>4. ViewSound(page', req') /\ page' \in Views /\ req' \in Asks
  BY UiView DEF ViewSound
<1>5. TypeOK'
  BY <1>1, <1>2, <1>3, <1>4 DEF TypeOK
<1>6. ServedByOneCredential'
  BY <1>1, <1>2 DEF ServedByOneCredential, CredentialUser
<1>7. ViewSound(page, req)'
  BY <1>4
<1> QED BY <1>5, <1>6, <1>7 DEF MemoryInv

LEMMA MemoryStutter ==
  ASSUME MemoryInv, UNCHANGED vars
  PROVE  MemoryInv'
<1>1. TypeOK'
  BY DEF MemoryInv, TypeOK, vars
<1>2. ServedByOneCredential'
  BY DEF MemoryInv, ServedByOneCredential, CredentialUser, vars
<1>3. ViewSound(page, req)'
  BY DEF MemoryInv, vars
<1> QED BY <1>1, <1>2, <1>3 DEF MemoryInv

(* The types, the credential of the call under way and the soundness of    *)
(* the view for the request it waits for hold together.                    *)
THEOREM MemorySound == Spec => []MemoryInv
<1>1. Init => MemoryInv
  BY MemoryInit
<1>2. MemoryInv /\ [Next]_vars => MemoryInv'
  <2> SUFFICES ASSUME MemoryInv, [Next]_vars PROVE MemoryInv'
    OBVIOUS
  <2>1. CASE Caller
    BY <2>1, CallerStep
  <2>2. CASE Ui
    BY <2>2, UiStep
  <2>3. CASE UNCHANGED vars
    BY <2>3, MemoryStutter
  <2> QED BY <2>1, <2>2, <2>3 DEF Next
<1> QED BY <1>1, <1>2, PTL DEF Spec

(* Every request is served for the user of its only credential, whatever   *)
(* else it carries, and never under a scope its holder was not given.      *)
THEOREM AlwaysServedByOneCredential == Spec => []ServedByOneCredential
<1>1. MemoryInv => ServedByOneCredential
  BY DEF MemoryInv
<1> QED BY <1>1, MemorySound, PTL

(* What the UI shows is always what its view asks for: late answers to     *)
(* superseded requests never get into it, and the only list of another     *)
(* filter it can be left with is the one whose replacement failed to load. *)
THEOREM ViewAlwaysOfItsRequest == Spec => []ViewIsOfItsRequest
<1>1. MemoryInv => ViewIsOfItsRequest
  BY DEF MemoryInv, ViewSound, Increasing, ViewIsOfItsRequest
<1> QED BY <1>1, MemorySound, PTL
================================================================================
