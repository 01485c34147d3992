------------------------------- MODULE Accounts -------------------------------
(***************************************************************************)
(* The accounts of a deployment and what acts for them: sign-ins proved by *)
(* an issuer's tokens (saas/src/auth.ts), the issuer's lifecycle events,   *)
(* which arrive as webhooks in any order and inside tokens                 *)
(* (release/lifecycle.ts), the memberships, invitations and keys of an     *)
(* organization (workspace.ts) and its SCIM keys (release/admin.ts).       *)
(*                                                                         *)
(* The k-th event of a subject happens at 2k, and a token is issued at 2k  *)
(* or 2k+1: in the second of that event, since tokens count in seconds, or *)
(* after it; events of different subjects have no order that matters.      *)
(* Every command is one statement of the database with its triggers.  A    *)
(* subject proves one address of its own.  Credentials lapse at any moment *)
(* (Lapse); how old a token, an invitation or a reauthentication may be,   *)
(* permissions, domains, enrollment and linked addresses are left out, so  *)
(* more is allowed here than there.                                        *)
(***************************************************************************)
EXTENDS Integers, Sequences, FiniteSets, FiniteSetsExt

CONSTANTS
  Subjects,       \* who the issuer knows
  MaxEvents,      \* bound: events of the issuer
  MaxMoves,       \* bound: events of the issuer and invitations together
  MaxMemberships, \* bound: memberships the organization ever had
  MaxCredentials, \* bound: credentials in force at a time
  MaxDigests      \* bound: tokens programs have signed in with

VARIABLES
  log,      \* the issuer's events of each subject, by sequence
  db,       \* the database
  signing   \* the sign-in under way: of a browser at the issuer, or proved

accountVars == <<log, db, signing>>

AccountKinds == {"account.suspended", "account.resumed", "account.deleted"}
EmailKinds == {"email.revoked", "email.verified"}
Idle == [at |-> "idle"]
Scope(kind) == IF kind \in AccountKinds THEN "account" ELSE "email"

KindOf(s, e) == IF e = 0 THEN "none" ELSE log[s][e]
OccurredAt(e) == 2 * e

(* The last event of a scope among the given ones of a subject, or 0. *)
LatestOf(s, scope, events) == Max({0} \cup {e \in events : Scope(log[s][e]) = scope})

(* The rows of the database, and what a sign-in proves. *)
SignIns == [at : {"proved"}, subject : Subjects, issued : Nat, kind : {"session", "oauth"}]
Credentials ==
  [subject : Subjects, issued : Nat, kind : {"session", "oauth", "personal_key", "api_key"},
   membership : Nat]
Memberships ==
  [subject : Subjects, role : {"owner", "admin", "member"}, live : BOOLEAN, proof : Nat]
Invitations ==
  [creator : Nat, subject : Subjects, role : {"admin", "member"}, accepted : BOOLEAN]
Database ==
  [head : [Subjects -> [account : Nat, email : Nat]], received : [Subjects -> SUBSET Nat],
   accounts : [Subjects -> {"none", "live", "disabled"}], claims : [Subjects -> Nat],
   credentials : SUBSET Credentials, digests : SUBSET SignIns, members : Seq(Memberships),
   deleted : SUBSET Nat, invitations : Seq(Invitations), scimKeys : SUBSET Nat]

AccountsTypeOK ==
  /\ log \in [Subjects -> Seq(AccountKinds \cup EmailKinds)]
  /\ db \in Database
  /\ signing \in {Idle, [at |-> "issuer"]} \cup SignIns

(* What a token issued at a time carries: the heads of that moment, the one *)
(* of the address only with a verified address.                             *)
Before(s, t) == {e \in DOMAIN log[s] : e <= t \div 2}
Account(s, t) == LatestOf(s, "account", Before(s, t))
Email(s, t) == LatestOf(s, "email", Before(s, t))
Verified(s, t) == KindOf(s, Email(s, t)) # "email.revoked"
Issuable(s, t) == KindOf(s, Account(s, t)) \in {"none", "account.resumed"}
Carried(s, t) == {Account(s, t)} \cup (IF Verified(s, t) THEN {Email(s, t)} ELSE {})

(* The rows of the organization's memberships, and who still counts. *)
Lives(d, s) == KindOf(s, d.head[s].account) \in {"none", "account.resumed"} /\ d.accounts[s] = "live"
ActiveMembership(d, m) ==
  LET row == d.members[m] IN row.live /\ Lives(d, row.subject) /\ d.claims[row.subject] # 0
Administers(d, m) == ActiveMembership(d, m) /\ d.members[m].role \in {"owner", "admin"}
ActiveCredential(d, c) ==
  Lives(d, c.subject) /\ (c.kind = "api_key" => ActiveMembership(d, c.membership))
(* Only a session of a browser manages anything. *)
Interactive(c) == c \in db.credentials /\ c.kind = "session" /\ ActiveCredential(db, c)
MembershipOf(d, s) == {m \in DOMAIN d.members : d.members[m].subject = s /\ ActiveMembership(d, m)}

(* The owner goes only by the hand of an owner, and never as the last one. *)
MayRemove(d, actor, target) ==
  /\ Administers(d, actor)
  /\ d.members[target].role # "owner"
     \/ /\ d.members[actor].role = "owner"
        /\ \E m \in DOMAIN d.members \ {target} : ActiveMembership(d, m) /\ d.members[m].role = "owner"

(* Mutant: the SCIM keys a membership issued outlive it. *)
WithoutMembershipsMutant(d, gone) ==
  [d EXCEPT
    !.members = [m \in DOMAIN @ |-> IF m \in gone THEN [@[m] EXCEPT !.live = FALSE] ELSE @[m]],
    !.credentials = {c \in @ : c.membership \notin gone}]

(* What ends with a membership: its keys and the SCIM keys it issued. *)
WithoutMemberships(d, gone) ==
  [d EXCEPT
    !.members = [m \in DOMAIN @ |-> IF m \in gone THEN [@[m] EXCEPT !.live = FALSE] ELSE @[m]],
    !.credentials = {c \in @ : c.membership \notin gone},
    !.scimKeys = @ \ gone]

WithoutClaim(d, s) ==
  WithoutMemberships([d EXCEPT !.claims[s] = 0], {m \in DOMAIN d.members : d.members[m].subject = s})

(* Mutant: only the negative events end what there was. *)
RevokesMutant(kind) == kind \notin {"account.resumed", "email.verified"}

(* Positive events end what there was as well: they may arrive first. *)
Revokes(kind) == TRUE

WithHead(d, s, e) ==
  LET kind == log[s][e]
      unclaimed == IF Revokes(kind) THEN WithoutClaim(d, s) ELSE d IN
  IF Scope(kind) = "email" THEN [unclaimed EXCEPT !.head[s].email = e]
  ELSE [unclaimed EXCEPT
         !.head[s].account = e,
         !.credentials = IF Revokes(kind) THEN {c \in @ : c.subject # s} ELSE @,
         !.accounts[s] = IF @ = "live" /\ kind = "account.deleted" THEN "disabled" ELSE @]

HeadOf(d, s, scope) == IF scope = "email" THEN d.head[s].email ELSE d.head[s].account

(* An event is recorded once; only a later one than the head moves it. *)
WithEvent(d, s, e) ==
  LET seen == [d EXCEPT !.received[s] = @ \cup {e}]
      head == HeadOf(d, s, Scope(log[s][e])) IN
  IF e \in d.received[s] THEN d
  ELSE IF e > head /\ KindOf(s, head) # "account.deleted" THEN WithHead(seen, s, e)
  ELSE seen

(* The heads of a token in one batch: the account's, then the address's. *)
WithCarried(d, s, t) ==
  LET With(e, known) == IF e \in Carried(s, t) \ {0} THEN WithEvent(known, s, e) ELSE known
  IN With(Email(s, t), With(Account(s, t), d))

AccountsInit ==
  /\ log = [s \in Subjects |-> <<>>]
  /\ db = [head |-> [s \in Subjects |-> [account |-> 0, email |-> 0]],
           received |-> [s \in Subjects |-> {}],
           accounts |-> [s \in Subjects |-> "none"], claims |-> [s \in Subjects |-> 0],
           credentials |-> {}, digests |-> {}, members |-> <<>>, deleted |-> {},
           invitations |-> <<>>, scimKeys |-> {}]
  /\ signing = Idle

-----------------------------------------------------------------------------
(* The issuer. *)

Follows(kind, account, email) ==
  CASE kind = "account.suspended" -> account \in {"none", "account.resumed"}
    [] kind = "account.resumed" -> account = "account.suspended"
    [] kind = "account.deleted" -> account # "account.deleted"
    [] kind = "email.revoked" -> account # "account.deleted" /\ email # "email.revoked"
    [] kind = "email.verified" -> account # "account.deleted" /\ email # "email.verified"

Emitted == MapThenSumSet(LAMBDA s : Len(log[s]), Subjects)

Emit(s, kind) ==
  /\ Emitted < MaxEvents /\ Emitted + Len(db.invitations) < MaxMoves
  /\ Follows(kind, KindOf(s, LatestOf(s, "account", DOMAIN log[s])),
                   KindOf(s, LatestOf(s, "email", DOMAIN log[s])))
  /\ log' = [log EXCEPT ![s] = Append(@, kind)]
  /\ UNCHANGED <<db, signing>>

(* receiveLifecycle: a signed webhook, late, repeated or overtaken. *)
Deliver(s, e) ==
  /\ db' = WithEvent(db, s, e)
  /\ UNCHANGED <<log, signing>>

-----------------------------------------------------------------------------
(* Sign-ins, one at a time. *)

Room == Cardinality(db.credentials) < MaxCredentials

(* The browser goes to the issuer with the state of its flow. *)
Login ==
  /\ signing = Idle /\ Room
  /\ signing' = [at |-> "issuer"]
  /\ UNCHANGED <<log, db>>

Proved(s, t, kind) == [at |-> "proved", subject |-> s, issued |-> t, kind |-> kind]

(* The heads of a verified token are applied before anything is created: *)
(* both or none of them, the account's and the address's.                *)
Prove(s, t, kind) ==
  /\ signing' = Proved(s, t, kind)
  /\ db' = WithCarried(db, s, t)

(* The callback consumes its flow, and the code of it buys a new token. *)
Callback(s) ==
  /\ signing.at = "issuer"
  /\ \E t \in {2 * Len(log[s]), 2 * Len(log[s]) + 1} \ {0} : Issuable(s, t) /\ Prove(s, t, "session")
  /\ UNCHANGED log

(* A program presents a token of any age, as often as it likes. *)
Present(s, t) ==
  /\ signing = Idle /\ Room
  /\ Issuable(s, t)
  /\ Cardinality(db.digests) < MaxDigests \/ Proved(s, t, "oauth") \in db.digests
  /\ Prove(s, t, "oauth")
  /\ UNCHANGED log

(* A sign-in that is refused, whose token lapses, or whose caller is gone. *)
Vanish ==
  /\ signing # Idle
  /\ signing' = Idle
  /\ UNCHANGED <<log, db>>

(* The triggers of workspace_sign_ins, at the moment of the insertion. *)
Admitted(p) ==
  /\ KindOf(p.subject, db.head[p.subject].account) \in {"none", "account.resumed"}
  /\ p.issued > OccurredAt(db.head[p.subject].account)
  /\ db.accounts[p.subject] # "disabled"
  /\ p.kind = "oauth" => p \notin db.digests

(* An address is claimed only by a token younger than its head. *)
Claims(p) ==
  /\ Verified(p.subject, p.issued)
  /\ db.claims[p.subject] = 0
  /\ KindOf(p.subject, db.head[p.subject].email) # "email.revoked"
  /\ p.issued > OccurredAt(db.head[p.subject].email)

Credential(p, kind, m) == [subject |-> p.subject, issued |-> p.issued, kind |-> kind, membership |-> m]

(* The session of a browser, or the one a presented token stands for. *)
Enter ==
  LET p == signing IN
  /\ p.at = "proved" /\ Room /\ Admitted(p)
  /\ signing' = Idle
  /\ db' = [db EXCEPT
             !.accounts[p.subject] = "live",
             !.credentials = @ \cup {Credential(p, p.kind, 0)},
             !.digests = IF p.kind = "oauth" THEN @ \cup {p} ELSE @,
             !.claims[p.subject] = IF Claims(p) THEN p.issued ELSE @]
  /\ UNCHANGED log

(* Fifteen minutes after its token, or at the end of its days, a credential *)
(* does not count any more.                                                 *)
Lapse(c) ==
  /\ db' = [db EXCEPT !.credentials = @ \ {c}]
  /\ UNCHANGED <<log, signing>>

Logout(c) ==
  /\ Interactive(c)
  /\ db' = [db EXCEPT !.credentials = @ \ {c}]
  /\ UNCHANGED <<log, signing>>

-----------------------------------------------------------------------------
(* The organization. *)

Join(d, s, role) ==
  [d EXCEPT !.members = Append(@, [subject |-> s, role |-> role, live |-> TRUE, proof |-> d.claims[s]])]

CreateOrganization(c) ==
  /\ Interactive(c)
  /\ db.members = <<>>
  /\ db.claims[c.subject] # 0
  /\ db' = Join(db, c.subject, "owner")

CreateInvite(c, s, role) ==
  /\ Interactive(c)
  /\ Emitted + Len(db.invitations) < MaxMoves
  /\ \E m \in MembershipOf(db, c.subject) :
       /\ Administers(db, m)
       /\ db' = [db EXCEPT !.invitations =
                  Append(@, [creator |-> m, subject |-> s, role |-> role, accepted |-> FALSE])]

(* An invitation counts as long as the membership that sent it. *)
Acceptable(i) == ~db.invitations[i].accepted /\ Administers(db, db.invitations[i].creator)

AcceptInvite(c, i) ==
  /\ Interactive(c)
  /\ Len(db.members) < MaxMemberships
  /\ db.invitations[i].subject = c.subject
  /\ db.claims[c.subject] # 0
  /\ Acceptable(i)
  /\ ~\E m \in DOMAIN db.members : db.members[m].subject = c.subject /\ db.members[m].live
  /\ db' = Join([db EXCEPT !.invitations[i].accepted = TRUE], c.subject, db.invitations[i].role)

RevokeMembership(c, target) ==
  /\ Interactive(c)
  /\ db.members[target].live
  /\ \E m \in MembershipOf(db, c.subject) : MayRemove(db, m, target)
  /\ db' = WithoutMemberships(db, {target})

(* A personal key belongs to the account, an API key to a membership. *)
IssueKey(c, m) ==
  /\ Interactive(c)
  /\ Room
  /\ m # 0 => m \in MembershipOf(db, c.subject)
  /\ db' = [db EXCEPT !.credentials = @ \cup {Credential(c, IF m = 0 THEN "personal_key" ELSE "api_key", m)}]

RevokeKey(c, key) ==
  /\ Interactive(c)
  /\ key.kind \in {"personal_key", "api_key"}
  /\ \/ key.subject = c.subject
     \/ key.membership # 0 /\ \E m \in MembershipOf(db, c.subject) : Administers(db, m)
  /\ db' = [db EXCEPT !.credentials = @ \ {key}]

IssueScimKey(c) ==
  /\ Interactive(c)
  /\ \E m \in MembershipOf(db, c.subject) :
       Administers(db, m) /\ db' = [db EXCEPT !.scimKeys = @ \cup {m}]

(* A directory sees the latest membership of an address, unless deleted. *)
ScimVisible(m) ==
  /\ m \notin db.deleted
  /\ ~\E n \in DOMAIN db.members : n > m /\ db.members[n].subject = db.members[m].subject

ScimDeactivate(m, target) ==
  /\ db.members[target].live /\ ScimVisible(target) /\ MayRemove(db, m, target)
  /\ db' = WithoutMemberships(db, {target})

ScimDelete(m, target) ==
  /\ ScimVisible(target)
  /\ Administers(db, m)
  /\ db.members[target].live => MayRemove(db, m, target)
  /\ db' = [WithoutMemberships(db, {target}) EXCEPT !.deleted = @ \cup {target}]

Directory(m) == \E target \in DOMAIN db.members : ScimDeactivate(m, target) \/ ScimDelete(m, target)

Manage(c) ==
  \/ CreateOrganization(c)
  \/ \E s \in Subjects, role \in {"member", "admin"} : CreateInvite(c, s, role)
  \/ \E i \in DOMAIN db.invitations : AcceptInvite(c, i)
  \/ \E m \in DOMAIN db.members : RevokeMembership(c, m)
  \/ \E m \in {0} \cup DOMAIN db.members : IssueKey(c, m)
  \/ \E key \in db.credentials : RevokeKey(c, key)
  \/ IssueScimKey(c)

AccountsNext ==
  \/ \E s \in Subjects, kind \in AccountKinds \cup EmailKinds : Emit(s, kind)
  \/ \E s \in Subjects : \E e \in DOMAIN log[s] : Deliver(s, e)
  \/ Login
  \/ \E s \in Subjects : Callback(s)
  \/ \E s \in Subjects : \E t \in 1 .. 2 * Len(log[s]) + 1 : Present(s, t)
  \/ Enter
  \/ Vanish
  \/ \E c \in db.credentials : Lapse(c) \/ Logout(c)
  \/ (\E c \in db.credentials : Manage(c)) /\ UNCHANGED <<log, signing>>
  \/ (\E m \in db.scimKeys : Directory(m)) /\ UNCHANGED <<log, signing>>

AccountsSpec == AccountsInit /\ [][AccountsNext]_accountVars

-----------------------------------------------------------------------------

(* Whatever order the issuer's events arrive in, by webhook or inside a     *)
(* token, and whatever signs in meanwhile: every credential, claim and      *)
(* membership in force was proved after the latest event received about its *)
(* account, a claim and a membership also after the latest one about their  *)
(* address, and none outlives a negative one (lifecycle.ts:27).             *)
AuthorityFollowsHead ==
  \A s \in Subjects :
    LET account == LatestOf(s, "account", db.received[s])
        email == LatestOf(s, "email", db.received[s])
        Younger(t) == t > OccurredAt(account) /\ KindOf(s, account) \in {"none", "account.resumed"} IN
    /\ \A c \in db.credentials : c.subject = s => Younger(c.issued)
    /\ \A t \in {db.claims[s]} \ {0} : Younger(t) /\ t > OccurredAt(email) /\ KindOf(s, email) # "email.revoked"
    /\ \A m \in MembershipOf(db, s) : Younger(db.members[m].proof) /\ db.members[m].proof > OccurredAt(email)

(* A membership that ended leaves nothing behind that acts for the          *)
(* organization: no key, no SCIM key, no invitation, also after its account *)
(* was invited again (workspace.ts:246, admin.ts:446).                      *)
EndsWithMembership ==
  \A m \in DOMAIN db.members :
    ~ActiveMembership(db, m) =>
      /\ \A c \in db.credentials : c.membership # m
      /\ m \notin db.scimKeys
      /\ \A i \in DOMAIN db.invitations : db.invitations[i].creator = m => ~Acceptable(i)
=============================================================================
