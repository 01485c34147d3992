--------------------------- MODULE BrowserSession ---------------------------
(***************************************************************************)
(* The browser session of the personal memory product: the pages of one    *)
(* browser share a cookie jar that only the worker writes.  The jar holds  *)
(* a fifteen-minute access token and a one-time refresh token of a family  *)
(* that the issuer rotates.                                                *)
(*                                                                         *)
(* A family of refresh tokens belongs to one sign-in; <<f, i>> is the i-th *)
(* token of family f.  The issuer is external: it rotates the newest token *)
(* of a live family, answers "in progress" for the one before it within a  *)
(* grace, and revokes the family when an older one comes back.             *)
(***************************************************************************)
EXTENDS WorkerUsers, Naturals, FiniteSets

CONSTANTS
  Pages,          \* the tabs of the browser
  Families,       \* the sign-ins; one of them may be in the jar at the start
  Contracts,      \* TRUE: the issuer returns a refresh session; FALSE: it does not
  Beside,         \* bound: what goes on beside a sign-out: "calls" of the tab that
                  \* signs out, "signIns"
  MaxRotations,   \* bound: the tokens of a family
  MaxFaults       \* bound: outages and lost answers

Tokens == Families \X (1 .. MaxRotations)

ASSUME SessionAssumption ==
  /\ IsFiniteSet(Families) /\ Families # {}
  /\ Contracts \subseteq BOOLEAN /\ Beside \subseteq {"calls", "signIns"}
  /\ MaxRotations \in Nat \ {0} /\ MaxFaults \in Nat
  /\ None \notin Tokens

VARIABLES
  issuer,  \* per family: its user, whether it lives, its newest token, the grace;
           \* history: whether the browser missed the grace of one of its tokens
  jar,     \* the cookies: access, refresh, and the state of a sign-in under way
  flow,    \* per family: the callback request that creates it
  shared,  \* per page: sharedRefreshRequest, the one refresh of the page
  tab,    \* per page: the AuthSessionProvider
  api,    \* per page: an /api/ request the worker answers with 401
  out,     \* per page: the /auth/logout request
  faults

sessionVars == <<issuer, jar, flow, shared, tab, api, out, faults>>

NoShared == [step |-> "idle", attempt |-> 0, token |-> None, reply |-> None,
             user |-> None, next |-> None]
NoOut == [step |-> "idle", token |-> None]
NoFlow == [step |-> "none", ui |-> FALSE, user |-> None, prior |-> None,
           renews |-> FALSE]
Closed == [open |-> FALSE, shown |-> None, tried |-> FALSE, waits |-> FALSE,
           current |-> FALSE, signing |-> "no", dead |-> FALSE, retry |-> FALSE,
           leaves |-> FALSE]

Fault == faults < MaxFaults /\ faults' = faults + 1

(***************************************************************************)
(* The cookies the worker writes.                                          *)
(***************************************************************************)
WithSession(user, token) == [jar EXCEPT !.access = user, !.refresh = token]

WithoutSession == [jar EXCEPT !.access = None, !.refresh = None]

WithoutFlow(j) == [j EXCEPT !.state = None, !.ui = FALSE]

(***************************************************************************)
(* What the issuer makes of a refresh token.                               *)
(***************************************************************************)
Newest(token) ==
  /\ issuer[token[1]].live
  /\ issuer[token[1]].newest = token[2]

\* A refresh request with the i-th token of the family or an older one has not
\* reached the issuer yet.
OnItsWay(f, i) ==
  \E p \in Pages : /\ shared[p].step = "sent" /\ shared[p].token # None
                   /\ shared[p].token[1] = f /\ shared[p].token[2] <= i

JustRotated(token) ==
  /\ issuer[token[1]].live
  /\ issuer[token[1]].newest = token[2] + 1
  /\ issuer[token[1]].grace

\* The grace passes on to the token that was the newest: a request of the one
\* before it comes too late.
Rotated(f) ==
  [issuer EXCEPT ![f].newest = @ + 1, ![f].grace = TRUE,
                 ![f].missed = @ \/ OnItsWay(f, issuer[f].newest - 1)]

Revoked(f) == [issuer EXCEPT ![f].live = FALSE, ![f].grace = FALSE]

\* The issuer's grace for the token before the newest one ends.  The browser
\* missed it when that token is still on its way, or still in the jar because
\* the answer with its successor is.
GraceEnds(f) ==
  /\ issuer[f].grace
  /\ issuer' = [issuer EXCEPT
       ![f].grace = FALSE,
       ![f].missed = \/ @ \/ OnItsWay(f, issuer[f].newest - 1)
                     \/ jar.refresh = <<f, issuer[f].newest - 1>>]
  /\ UNCHANGED <<jar, flow, shared, tab, api, out, faults>>

(***************************************************************************)
(* POST /auth/refresh in the worker.  Every reply that discards the        *)
(* session says why: the cookie is absent, the issuer refused it, or the   *)
(* new access token could not be verified.                                 *)
(***************************************************************************)
Clears == {"absent", "refused", "unverified"}

Replies(p, reply) ==
  shared' = [shared EXCEPT ![p].step = "answered", ![p].reply = reply]

Asked(p) == shared[p].step = "sent"

RefreshAbsent(p) ==
  /\ Asked(p)
  /\ shared[p].token = None
  /\ Replies(p, "absent")
  /\ UNCHANGED <<issuer, jar, flow, tab, api, out, faults>>

\* The issuer rotates the token and the worker verifies the access token.
RefreshRotates(p) ==
  LET token == shared[p].token IN
  /\ Asked(p) /\ token # None
  /\ Newest(token) /\ token[2] < MaxRotations
  /\ issuer' = Rotated(token[1])
  /\ shared' = [shared EXCEPT ![p].step = "answered", ![p].reply = "installed",
                              ![p].user = issuer[token[1]].user,
                              ![p].next = <<token[1], token[2] + 1>>]
  /\ UNCHANGED <<jar, flow, tab, api, out, faults>>

\* The issuer rotated the token, but its keys cannot be fetched: verifyJwt
\* answers null as for a bad token.
RefreshUnverified(p) ==
  LET token == shared[p].token IN
  /\ Asked(p) /\ token # None
  /\ Newest(token) /\ token[2] < MaxRotations
  /\ Fault
  /\ issuer' = Rotated(token[1])
  /\ Replies(p, "unverified")
  /\ UNCHANGED <<jar, flow, tab, api, out>>

\* 409 refresh_in_progress leaves the cookies alone.
RefreshBusy(p) ==
  LET token == shared[p].token IN
  /\ Asked(p) /\ token # None
  /\ JustRotated(token)
  /\ Replies(p, "busy")
  /\ UNCHANGED <<issuer, jar, flow, tab, api, out, faults>>

\* invalid_grant: a dead family, or an old token, which revokes the family.
RefreshRefused(p) ==
  LET token == shared[p].token IN
  /\ Asked(p) /\ token # None
  /\ ~Newest(token) /\ ~JustRotated(token)
  /\ issuer' = Revoked(token[1])
  /\ Replies(p, "refused")
  /\ UNCHANGED <<jar, flow, tab, api, out, faults>>

\* A defect: every failure of the token endpoint discards the session.
RefreshFailsMutant(p) ==
  LET token == shared[p].token IN
  /\ Asked(p) /\ token # None
  /\ Fault
  /\ \/ UNCHANGED issuer
     \/ /\ Newest(token) /\ token[2] < MaxRotations
        /\ issuer' = Rotated(token[1])
  /\ Replies(p, "refused")
  /\ UNCHANGED <<jar, flow, tab, api, out>>

\* A timeout, a throttle or a proxy error, before or after the issuer acted.
RefreshFails(p) ==
  LET token == shared[p].token IN
  /\ Asked(p) /\ token # None
  /\ Fault
  /\ \/ UNCHANGED issuer
     \/ /\ Newest(token) /\ token[2] < MaxRotations
        /\ issuer' = Rotated(token[1])
  /\ Replies(p, "failed")
  /\ UNCHANGED <<jar, flow, tab, api, out>>

\* A family at the bound is throttled.
RefreshThrottled(p) ==
  LET token == shared[p].token IN
  /\ Asked(p) /\ token # None
  /\ Newest(token) /\ token[2] = MaxRotations
  /\ Replies(p, "failed")
  /\ UNCHANGED <<issuer, jar, flow, tab, api, out, faults>>

(***************************************************************************)
(* The page: refreshSession and apiFetch of api.ts, refresh and signOut of *)
(* the provider.                                                           *)
(***************************************************************************)
\* Every fetch takes the cookies of the jar at that moment.
Fetch(attempt) == [NoShared EXCEPT !.step = "sent", !.attempt = attempt,
                                   !.token = jar.refresh]

Idle(p) == shared[p].step = "idle"

\* refreshSession: whoever comes second joins the first one's promise.
Joined(p) == IF Idle(p) THEN [shared EXCEPT ![p] = Fetch(1)] ELSE shared

\* The page is loaded or reloaded: the server renders the session of the jar.
Open(p) ==
  /\ tab[p].shown = None
  /\ Idle(p) /\ api[p] = "idle" /\ out[p].step = "idle"
  /\ tab[p].signing = "no" /\ ~tab[p].waits
  /\ tab' = [tab EXCEPT ![p] = [Closed EXCEPT !.open = TRUE, !.shown = jar.access,
                                         !.leaves = tab[p].leaves]]
  /\ tab' # tab
  /\ UNCHANGED <<issuer, jar, flow, shared, api, out, faults>>

\* refresh(): the timer before the expiry, the focus of the page, the retry
\* after a transient failure, or the one attempt of an anonymous page.
Refresh(p) ==
  LET s == tab[p] IN
  /\ s.open /\ s.signing = "no" /\ ~s.dead /\ ~s.waits
  /\ s.shown # None \/ s.retry \/ ~s.tried
  /\ tab' = [tab EXCEPT ![p].waits = TRUE, ![p].current = TRUE,
                          ![p].retry = FALSE, ![p].tried = TRUE]
  /\ shared' = Joined(p)
  /\ UNCHANGED <<issuer, jar, flow, api, out, faults>>

\* A defect: the refresh under way is not superseded.
InvalidatedMutant(s) == [s EXCEPT !.dead = TRUE, !.shown = None, !.retry = FALSE]

\* AUTH_INVALIDATED_EVENT: the provider forgets its refresh and its user.
Invalidated(s) ==
  [s EXCEPT !.dead = TRUE, !.shown = None, !.retry = FALSE,
            !.waits = s.waits /\ s.signing # "no", !.current = FALSE]

\* What the provider does with the session its refresh resolved to.
Shows(s, user) ==
  [s EXCEPT !.waits = FALSE, !.current = FALSE,
            !.shown = IF s.waits /\ s.current THEN user ELSE @,
            !.dead = IF s.waits /\ s.current THEN FALSE ELSE @]

\* What it does when the refresh throws.
Retries(s) ==
  [s EXCEPT !.waits = FALSE, !.current = FALSE,
            !.retry = @ \/ (s.waits /\ s.current)]

\* The request of the page that waits for the refresh is sent again, and may
\* be refused again; or it fails with the refresh.
SendsAgain(p) ==
  IF api[p] # "waiting" THEN UNCHANGED <<api, faults>>
  ELSE \/ api' = [api EXCEPT ![p] = "idle"] /\ UNCHANGED faults
       \/ api' = [api EXCEPT ![p] = "refused"] /\ Fault

GivesUp(p) ==
  api' = [api EXCEPT ![p] = IF @ = "waiting" THEN "idle" ELSE @]

\* 200: the successor is in the jar and the page shows its user.
TakeInstalled(p) ==
  /\ shared[p].step = "answered" /\ shared[p].reply = "installed"
  /\ jar' = WithSession(shared[p].user, shared[p].next)
  /\ tab' = [tab EXCEPT ![p] = Shows(@, shared[p].user)]
  /\ SendsAgain(p)
  /\ shared' = [shared EXCEPT ![p] = NoShared]
  /\ UNCHANGED <<issuer, flow, out>>

\* 401: the cookies are gone and every part of the page is told so.
TakeCleared(p) ==
  /\ shared[p].step = "answered" /\ shared[p].reply \in Clears
  /\ jar' = WithoutSession
  /\ tab' = [tab EXCEPT ![p] = Shows(Invalidated(@), None)]
  /\ GivesUp(p)
  /\ shared' = [shared EXCEPT ![p] = NoShared]
  /\ UNCHANGED <<issuer, flow, out, faults>>

\* A defect: a second 409 ends the session of the page.
TakeFailedMutant(p) ==
  /\ shared[p].step = "answered"
  /\ shared[p].reply = "failed" \/ (shared[p].reply = "busy" /\ shared[p].attempt = 2)
  /\ tab' = [tab EXCEPT ![p] = Invalidated(@)]
  /\ GivesUp(p)
  /\ shared' = [shared EXCEPT ![p] = NoShared]
  /\ UNCHANGED <<issuer, jar, flow, out, faults>>

\* A defect: a 409 renews the cookie the request presented.
TakeBusyMutant(p) ==
  /\ shared[p].step = "answered" /\ shared[p].reply = "busy"
  /\ shared[p].attempt = 1
  /\ jar' = [jar EXCEPT !.refresh = shared[p].token]
  /\ shared' = [shared EXCEPT ![p] = Fetch(2)]
  /\ UNCHANGED <<issuer, flow, tab, api, out, faults>>

\* The first 409 is retried with the cookies the winner installed meanwhile.
TakeBusy(p) ==
  /\ shared[p].step = "answered" /\ shared[p].reply = "busy"
  /\ shared[p].attempt = 1
  /\ shared' = [shared EXCEPT ![p] = Fetch(2)]
  /\ UNCHANGED <<issuer, jar, flow, tab, api, out, faults>>

Failed(p) ==
  /\ tab' = [tab EXCEPT ![p] = Retries(@)]
  /\ GivesUp(p)
  /\ shared' = [shared EXCEPT ![p] = NoShared]

\* The second 409 and every other failure are errors of the caller.
TakeFailed(p) ==
  /\ shared[p].step = "answered"
  /\ shared[p].reply = "failed" \/ (shared[p].reply = "busy" /\ shared[p].attempt = 2)
  /\ Failed(p)
  /\ UNCHANGED <<issuer, jar, flow, out, faults>>

\* The answer is lost: its cookies never reach the jar.
LoseRefresh(p) ==
  /\ shared[p].step = "answered"
  /\ Fault
  /\ Failed(p)
  /\ UNCHANGED <<issuer, jar, flow, out>>

(***************************************************************************)
(* An /api/ request: a 401 is answered by one refresh and one more try.  A *)
(* request the worker serves changes nothing here.                         *)
(***************************************************************************)
\* 401: the jar held no access cookie, or the keys could not be fetched.
Call(p) ==
  /\ tab[p].shown # None
  /\ api[p] = "idle"
  /\ \/ jar.access = None /\ UNCHANGED faults
     \/ jar.access # None /\ Fault
  /\ api' = [api EXCEPT ![p] = "denied"]
  /\ UNCHANGED <<issuer, jar, flow, shared, tab, out>>

CallRefreshes(p) ==
  /\ api[p] = "denied"
  /\ shared' = Joined(p)
  /\ api' = [api EXCEPT ![p] = "waiting"]
  /\ UNCHANGED <<issuer, jar, flow, tab, out, faults>>

CallInvalidates(p) ==
  /\ api[p] = "refused"
  /\ api' = [api EXCEPT ![p] = "idle"]
  /\ tab' = [tab EXCEPT ![p] = Invalidated(@)]
  /\ UNCHANGED <<issuer, jar, flow, shared, out, faults>>

\* Max-Age of the access cookie.
AccessExpires ==
  /\ jar.access # None
  /\ jar' = [jar EXCEPT !.access = None]
  /\ UNCHANGED <<issuer, flow, shared, tab, api, out, faults>>

(***************************************************************************)
(* Signing out.                                                            *)
(***************************************************************************)
\* signOut supersedes the refresh under way and waits for it to settle.
SignOut(p) ==
  /\ tab[p].leaves
  /\ tab[p].shown # None /\ tab[p].signing = "no"
  /\ tab' = [tab EXCEPT ![p].signing = "settling", ![p].retry = FALSE,
                          ![p].current = FALSE]
  /\ UNCHANGED <<issuer, jar, flow, shared, api, out, faults>>

\* logout() waits for the page's shared refresh, then sends the cookies.
SendLogout(p) ==
  /\ tab[p].signing = "settling"
  /\ ~tab[p].waits /\ Idle(p)
  /\ tab' = [tab EXCEPT ![p].signing = "sent"]
  /\ out' = [out EXCEPT ![p] = [step |-> "sent", token |-> jar.refresh]]
  /\ UNCHANGED <<issuer, jar, flow, shared, api, faults>>

\* The worker revokes the family, best effort, and always clears the cookies.
Logout(p) ==
  /\ out[p].step = "sent"
  /\ \/ /\ out[p].token # None
        /\ issuer' = Revoked(out[p].token[1])
        /\ UNCHANGED faults
     \/ /\ out[p].token = None
        /\ UNCHANGED <<issuer, faults>>
     \/ /\ out[p].token # None
        /\ Fault
        /\ UNCHANGED issuer
  /\ out' = [out EXCEPT ![p].step = "answered"]
  /\ UNCHANGED <<jar, flow, shared, tab, api>>

TakeLogout(p) ==
  /\ out[p].step = "answered"
  /\ jar' = WithoutFlow(WithoutSession)
  /\ tab' = [tab EXCEPT ![p].signing = "no", ![p].shown = None]
  /\ out' = [out EXCEPT ![p] = NoOut]
  /\ UNCHANGED <<issuer, flow, shared, api, faults>>

\* The page shows an error and keeps its user.
LoseLogout(p) ==
  /\ out[p].step # "idle"
  /\ Fault
  /\ tab' = [tab EXCEPT ![p].signing = "no"]
  /\ out' = [out EXCEPT ![p] = NoOut]
  /\ UNCHANGED <<issuer, jar, flow, shared, api>>

(***************************************************************************)
(* Signing in: /auth/sso, the sign-in at the issuer, /auth/callback.       *)
(***************************************************************************)
SsoStart(f, ui) ==
  /\ flow[f].step = "none" /\ issuer[f].user = None
  /\ flow' = [flow EXCEPT ![f].step = "away"]
  /\ jar' = [jar EXCEPT !.state = f, !.ui = ui]
  /\ UNCHANGED <<issuer, shared, tab, api, out, faults>>

\* The browser comes back: the state cookie must be the one of this flow.
Callback(f, user) ==
  /\ flow[f].step = "away"
  /\ \/ /\ jar.state = f
        /\ flow' = [flow EXCEPT ![f].step = "exchanging", ![f].user = user,
                                ![f].ui = jar.ui,
                                ![f].prior = IF jar.ui THEN jar.refresh ELSE None]
        /\ UNCHANGED jar
     \/ /\ jar.state # f
        /\ jar' = WithoutFlow(jar)
        /\ flow' = [flow EXCEPT ![f].step = "over"]
  /\ UNCHANGED <<issuer, shared, tab, api, out, faults>>

\* /sso/exchange creates the family; the access token is verified.
Exchange(f, renews) ==
  /\ flow[f].step = "exchanging"
  /\ issuer' = [issuer EXCEPT ![f].user = flow[f].user, ![f].live = renews,
                              ![f].newest = 1]
  /\ flow' = [flow EXCEPT ![f].step = IF flow[f].ui THEN "revoking" ELSE "done",
                          ![f].renews = renews]
  /\ UNCHANGED <<jar, shared, tab, api, out, faults>>

\* The exchange, its contract or the verification fails; the sign-in is over.
ExchangeFails(f) ==
  /\ flow[f].step = "exchanging"
  /\ Fault
  /\ flow' = [flow EXCEPT ![f].step = "failed"]
  /\ UNCHANGED <<issuer, jar, shared, tab, api, out>>

\* revokeRefreshFamily of the session the callback found in the jar.
RevokePrior(f) ==
  /\ flow[f].step = "revoking"
  /\ \/ /\ flow[f].prior # None
        /\ issuer' = Revoked(flow[f].prior[1])
        /\ UNCHANGED faults
     \/ /\ flow[f].prior = None
        /\ UNCHANGED <<issuer, faults>>
     \/ /\ flow[f].prior # None
        /\ Fault
        /\ UNCHANGED issuer
  /\ flow' = [flow EXCEPT ![f].step = "done"]
  /\ UNCHANGED <<jar, shared, tab, api, out>>

\* The answer of the callback: the session of the browser for the UI, the
\* tokens in the body for the command line, the cleared flow for an error.
TakeCallback(f) ==
  /\ flow[f].step \in {"done", "failed"}
  /\ jar' = WithoutFlow(
       IF flow[f].step = "done" /\ flow[f].ui
         THEN IF flow[f].renews
                THEN WithSession(flow[f].user, <<f, 1>>)
                ELSE [jar EXCEPT !.access = flow[f].user]
         ELSE jar)
  /\ flow' = [flow EXCEPT ![f] = [NoFlow EXCEPT !.step = "over"]]
  /\ UNCHANGED <<issuer, shared, tab, api, out, faults>>

(***************************************************************************)
(* The specification.  The browser starts with the session of an earlier   *)
(* sign-in.  The bounds choose what goes on beside the refreshes: one page *)
(* signs out, or there is another sign-in, or both (Beside).               *)
(***************************************************************************)
SessionInit ==
  /\ \E f \in Families, u \in Users :
       /\ issuer = [g \in Families |->
            IF g = f
              THEN [user |-> u, live |-> TRUE, newest |-> 1, grace |-> FALSE, missed |-> FALSE]
              ELSE [user |-> None, live |-> FALSE, newest |-> 0, grace |-> FALSE, missed |-> FALSE]]
       /\ jar = [access |-> u, refresh |-> <<f, 1>>, state |-> None, ui |-> FALSE]
  /\ flow = [f \in Families |-> NoFlow]
  /\ shared = [p \in Pages |-> NoShared]
  /\ \E leaver \in Pages \cup {None} :
       tab = [p \in Pages |-> [Closed EXCEPT !.leaves = (p = leaver)]]
  /\ api = [p \in Pages |-> "idle"]
  /\ out = [p \in Pages |-> NoOut]
  /\ faults = 0

Worker(p) ==
  \/ RefreshAbsent(p) \/ RefreshRotates(p) \/ RefreshUnverified(p)
  \/ RefreshBusy(p) \/ RefreshRefused(p) \/ RefreshFails(p)
  \/ RefreshThrottled(p) \/ Logout(p)

\* The tab in which the user is going to sign out, or has.
Leaving == {p \in Pages : tab[p].leaves}

Page(p) ==
  \/ Open(p) \/ Refresh(p)
  \/ TakeInstalled(p) \/ TakeCleared(p) \/ TakeBusy(p) \/ TakeFailed(p)
  \/ LoseRefresh(p)
  \/ (("calls" \in Beside \/ p \notin Leaving) /\ Call(p)) \/ CallRefreshes(p) \/ CallInvalidates(p)
  \/ SignOut(p) \/ SendLogout(p) \/ TakeLogout(p) \/ LoseLogout(p)

SignIn(f) ==
  \/ \E ui \in BOOLEAN : ("signIns" \in Beside \/ Leaving = {}) /\ SsoStart(f, ui)
  \/ \E u \in Users : Callback(f, u)
  \/ \E renews \in Contracts : Exchange(f, renews)
  \/ ExchangeFails(f) \/ RevokePrior(f) \/ TakeCallback(f)

SessionNext ==
  \/ \E p \in Pages : Worker(p) \/ Page(p)
  \/ \E f \in Families : SignIn(f) \/ GraceEnds(f)
  \/ AccessExpires

SessionSpec == SessionInit /\ [][SessionNext]_sessionVars

-----------------------------------------------------------------------------
Replied == {None, "installed", "busy", "failed"} \cup Clears

FamilyType == [user : Maybe(Users), live : BOOLEAN, newest : 0 .. MaxRotations,
               grace : BOOLEAN, missed : BOOLEAN]
JarType == [access : Maybe(Users), refresh : Maybe(Tokens), state : Maybe(Families),
            ui : BOOLEAN]
FlowType ==
  [step : {"none", "away", "exchanging", "revoking", "done", "failed", "over"},
   ui : BOOLEAN, user : Maybe(Users), prior : Maybe(Tokens), renews : BOOLEAN]
SharedType ==
  [step : {"idle", "sent", "answered"}, attempt : 0 .. 2, token : Maybe(Tokens),
   reply : Replied, user : Maybe(Users), next : Maybe(Tokens)]
TabType ==
  [open : BOOLEAN, shown : Maybe(Users), tried : BOOLEAN, waits : BOOLEAN,
   current : BOOLEAN, signing : {"no", "settling", "sent"}, dead : BOOLEAN,
   retry : BOOLEAN, leaves : BOOLEAN]
OutType == [step : {"idle", "sent", "answered"}, token : Maybe(Tokens)]

SessionTypeOK ==
  /\ issuer \in [Families -> FamilyType]
  /\ jar \in JarType
  /\ flow \in [Families -> FlowType]
  /\ shared \in [Pages -> SharedType]
  /\ tab \in [Pages -> TabType]
  /\ api \in [Pages -> {"idle", "denied", "waiting", "refused"}]
  /\ out \in [Pages -> OutType]
  /\ faults \in 0 .. MaxFaults

\* A refresh answer discards the jar's session only when the token it was for
\* is of no use any more: its family is revoked at the issuer, it was absent,
\* or the access token could not be verified.  A conflict between two tabs, a
\* throttle or an outage of the token endpoint never costs the session.
ClearedWasDead ==
  [][\A p \in Pages :
       (shared[p].step = "answered" /\ shared[p].reply # "unverified"
        /\ shared[p].token # None
        /\ jar.refresh # None /\ jar'.refresh = None /\ shared'[p] = NoShared)
       => ~issuer[shared[p].token[1]].live]_sessionVars

\* While nothing fails, nobody signs out and nobody signs in again, however the
\* refreshes, retries and requests of the tabs interleave, the browser keeps a
\* session that the issuer honours, and no tab is told that it ended - unless
\* the browser missed a grace.  A request that outlasts the grace, by the clock
\* or because another tab has rotated twice meanwhile, makes the issuer revoke
\* the family, and then every tab is out although nothing failed.
QuietBrowserStaysIn ==
  (/\ faults = 0 /\ Leaving = {}
   /\ \A f \in Families : flow[f].step = "none" /\ ~issuer[f].missed)
  => /\ jar.refresh # None /\ issuer[jar.refresh[1]].live
     /\ \A p \in Pages : ~tab[p].dead

\* The refresh cookie never falls back to a token the issuer has already
\* rotated away, whatever the order in which the answers arrive.
NeverOlder ==
  [][(jar.refresh # None /\ jar'.refresh # None /\ jar.refresh[1] = jar'.refresh[1])
     => jar'.refresh[2] >= jar.refresh[2]]_sessionVars

\* A tab that was told its session ended takes no user from the answer of a
\* refresh that began before.
OutStaysOut ==
  [][\A p \in Pages :
       (tab[p].dead /\ shared'[p] # shared[p]) => tab'[p].shown = None]_sessionVars
=============================================================================
