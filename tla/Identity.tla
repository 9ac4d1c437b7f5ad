------------------------------- MODULE Identity -------------------------------
(***************************************************************************)
(* Accounts, browser sessions, organizations, memberships, projects and    *)
(* API keys: services/identity_tenancy.py, api/dependencies.py, their      *)
(* routes and migration 0002.                                              *)
(*                                                                         *)
(* A request is two steps.  Its dependencies read the credential (a        *)
(* session or an API key) and decide; its handler then writes, and one     *)
(* transaction commits both.  Nothing is locked between the two, so what   *)
(* the handler knows of the credential and of the rows it read may be old  *)
(* when it commits.  SQLAlchemy writes only the columns that differ from   *)
(* the values it loaded.                                                   *)
(*                                                                         *)
(* Time is a counter; a tick is the five minutes after which a session's   *)
(* activity is recorded again.  Passwords, e-mail addresses and slugs are  *)
(* model values.  No operation deactivates a user, removes a member or     *)
(* adds one to an existing organization.                                   *)
(***************************************************************************)
EXTENDS Integers, FiniteSets

CONSTANTS
    Emails,         \* accounts, by normalized e-mail address
    OrgSlugs,       \* organizations, by slug
    ProjectSlugs,   \* project slugs
    Sessions,       \* session ids
    IdemKeys,       \* values of the Idempotency-Key header
    Environments,   \* environments of an API key
    Clients,        \* requests that can be in flight together
    IdleTicks,      \* session_idle_minutes
    AbsoluteTicks,  \* session_absolute_hours
    LockTicks,      \* the fifteen minutes of a lockout
    MaxFailures,    \* failed logins that lock the account
    MaxCounted,     \* bound on User.failed_login_count
    Horizon,        \* bound on the clock
    MaxRoleVersion, \* bound on OrganizationMembership.version
    Null            \* an absent row

(* The defaults of core/config.py satisfy the order; nothing validates it. *)
ASSUME SessionAssumption ==
    /\ {IdleTicks, AbsoluteTicks, LockTicks, MaxFailures, Horizon} \subseteq Nat
    /\ IdleTicks <= AbsoluteTicks
    /\ Null \notin Sessions
    /\ Null \notin [user : Emails, seen : Int, idle : Int, absolute : Int, revoked : BOOLEAN]

VARIABLES
    clock,          \* datetime.now
    account,        \* identity.users: [failures, lockedUntil] or Null
    session,        \* identity.sessions: a record or Null
    org,            \* identity.organizations with its membership, or Null
    project,        \* control.projects: set of <<organization, slug>>
    apiKey,         \* security.api_keys: set of records
    issued,         \* security.idempotency_records: the key records they name
    answered,       \* API keys answered to requests: set of <<scope, key id>>
    call            \* the requests in flight

identityVars ==
    <<clock, account, session, org, project, apiKey, issued, answered, call>>

Waiting == [op |-> "none"]

IdentityInit ==
    /\ clock = 1
    /\ account = [e \in Emails |-> Null]
    /\ session = [s \in Sessions |-> Null]
    /\ org = [g \in OrgSlugs |-> Null]
    /\ project = {}
    /\ apiKey = {}
    /\ issued = {}
    /\ answered = {}
    /\ call = [c \in Clients |-> Waiting]

Done(c) == call' = [call EXCEPT ![c] = Waiting]

TimePasses ==
    /\ clock < Horizon
    /\ clock' = clock + 1
    /\ UNCHANGED <<account, session, org, project, apiKey, issued, answered,
                   call>>

(***************************************************************************)
(* Accounts and logins                                                     *)
(***************************************************************************)
NewSession(e, at) ==
    [user |-> e, seen |-> at, idle |-> at + IdleTicks,
     absolute |-> at + AbsoluteTicks, revoked |-> FALSE]

NewOrganization(e) == [creator |-> e, role |-> "owner", version |-> 1]

(* Registration makes the account, its organization with an owner          *)
(* membership, and a session.                                              *)
Register(e, g, s) ==
    /\ account[e] = Null
    /\ org[g] = Null
    /\ session[s] = Null
    /\ account' = [account EXCEPT ![e] = [failures |-> 0, lockedUntil |-> 0]]
    /\ org' = [org EXCEPT ![g] = NewOrganization(e)]
    /\ session' = [session EXCEPT ![s] = NewSession(e, clock)]
    /\ UNCHANGED <<clock, project, apiKey, issued, answered, call>>

(* A login reads the account; the password check takes its time.           *)
ReadAccount(c, e, correct) ==
    /\ call[c] = Waiting
    /\ account[e] # Null
    /\ account[e].failures < MaxCounted
    /\ call' = [call EXCEPT ![c] =
          [op |-> "login", user |-> e, row |-> account[e], at |-> clock,
           valid |-> correct /\ account[e].lockedUntil <= clock]]
    /\ UNCHANGED <<clock, account, session, org, project, apiKey, issued,
                   answered>>

(* A failure is counted from the value read, and committed before the      *)
(* error is raised.                                                        *)
FailLogin(c) ==
    /\ call[c].op = "login"
    /\ ~call[c].valid
    /\ LET e == call[c].user
           failures == call[c].row.failures + 1
       IN account' = [account EXCEPT
             ![e].failures = failures,
             ![e].lockedUntil = IF failures >= MaxFailures
                                THEN call[c].at + LockTicks ELSE @]
    /\ Done(c)
    /\ UNCHANGED <<clock, session, org, project, apiKey, issued, answered>>

(* A success resets the counter and the lock where the row read had any,   *)
(* and issues a session.                                                   *)
SucceedLogin(c, s) ==
    /\ call[c].op = "login"
    /\ call[c].valid
    /\ session[s] = Null
    /\ LET e == call[c].user
           row == call[c].row
       IN /\ account' = [account EXCEPT
                ![e].failures = IF row.failures # 0 THEN 0 ELSE @,
                ![e].lockedUntil = IF row.lockedUntil # 0 THEN 0 ELSE @]
          /\ session' = [session EXCEPT ![s] = NewSession(e, clock)]
    /\ Done(c)
    /\ UNCHANGED <<clock, org, project, apiKey, issued, answered>>

(***************************************************************************)
(* Authenticating a request                                                *)
(***************************************************************************)
(* A session is accepted until it is revoked or expires.  On expiry the    *)
(* dependency marks it revoked and raises, which rolls the mark back.      *)
Accepted(s) ==
    /\ session[s] # Null
    /\ ~session[s].revoked
    /\ clock < session[s].idle
    /\ clock < session[s].absolute

(* The columns a request leaves in its transaction: the activity of a      *)
(* session is recorded when the last record is a tick old.                 *)
Refreshed(row, at) ==
    IF row.seen <= at - 1
    THEN [row EXCEPT !.seen = at,
                     !.idle = IF at + IdleTicks < row.absolute
                              THEN at + IdleTicks ELSE row.absolute]
    ELSE row

(* What the role of a member, or the scopes of an API key, allow.          *)
RolePermissions(role) ==
    IF role \in {"owner", "administrator"}
    THEN {"organization", "project", "key", "revoke", "role"}
    ELSE IF role = "developer" THEN {"organization", "project", "key", "revoke"}
    ELSE {"organization"}

Permitted(e, g, op) ==
    /\ org[g] # Null
    /\ org[g].creator = e
    /\ op \in RolePermissions(org[g].role)

(* A request with a session cookie and its CSRF token.                     *)
BySession(c, s, op, g) ==
    /\ call[c] = Waiting
    /\ Accepted(s)
    /\ op \in {"project", "key", "revoke", "role"}
          => Permitted(session[s].user, g, op)
    /\ call' = [call EXCEPT ![c] =
          [op |-> op, user |-> session[s].user, session |-> s,
           row |-> session[s], at |-> clock, org |-> g,
           member |-> org[g], read |-> Null]]
    /\ UNCHANGED <<clock, account, session, org, project, apiKey, issued,
                   answered>>

(* A request with an API key: it must be for the key's organization and    *)
(* within its scopes, and it does not touch a session.                     *)
ByApiKey(c, k, op) ==
    /\ call[c] = Waiting
    /\ ~k.revoked
    /\ op \in k.scopes
    /\ call' = [call EXCEPT ![c] =
          [op |-> op, user |-> k.user, session |-> Null, row |-> Null,
           at |-> clock, org |-> k.org, member |-> org[k.org],
           read |-> Null]]
    /\ UNCHANGED <<clock, account, session, org, project, apiKey, issued,
                   answered>>

\* Mutant: the commit writes the whole session row as it was read.
TouchWholeSession(c) ==
    LET s == call[c].session
    IN IF s = Null THEN UNCHANGED session
       ELSE session' = [session EXCEPT ![s] = Refreshed(call[c].row, call[c].at)]

(* At commit the session row gets the columns the request changed.         *)
TouchSession(c) ==
    LET s == call[c].session
        new == Refreshed(call[c].row, call[c].at)
    IN IF s = Null THEN UNCHANGED session
       ELSE session' = [session EXCEPT
               ![s].seen = IF new.seen # call[c].row.seen THEN new.seen ELSE @,
               ![s].idle = IF new.idle # call[c].row.idle THEN new.idle ELSE @]

(***************************************************************************)
(* Operations                                                              *)
(***************************************************************************)
(* Reading anything: the session's activity is recorded.                   *)
Read(c) ==
    /\ call[c].op = "read"
    /\ TouchSession(c)
    /\ Done(c)
    /\ UNCHANGED <<clock, account, org, project, apiKey, issued, answered>>

(* revoke_session.  An API key has no session to revoke.                   *)
Logout(c) ==
    /\ call[c].op = "logout"
    /\ call[c].session # Null
    /\ LET s == call[c].session
           new == Refreshed(call[c].row, call[c].at)
       IN session' = [session EXCEPT
             ![s].seen = IF new.seen # call[c].row.seen THEN new.seen ELSE @,
             ![s].idle = IF new.idle # call[c].row.idle THEN new.idle ELSE @,
             ![s].revoked = TRUE]
    /\ Done(c)
    /\ UNCHANGED <<clock, account, org, project, apiKey, issued, answered>>

(* The unique slug decides between two requests that found it free.        *)
CreateOrganization(c) ==
    /\ call[c].op = "organization"
    /\ LET g == call[c].org
       IN IF org[g] = Null
          THEN /\ org' = [org EXCEPT ![g] = NewOrganization(call[c].user)]
               /\ TouchSession(c)
          ELSE UNCHANGED <<org, session>>
    /\ Done(c)
    /\ UNCHANGED <<clock, account, project, apiKey, issued, answered>>

CreateProject(c, p) ==
    /\ call[c].op = "project"
    /\ IF <<call[c].org, p>> \in project
       THEN UNCHANGED <<project, session>>
       ELSE /\ project' = project \cup {<<call[c].org, p>>}
            /\ TouchSession(c)
    /\ Done(c)
    /\ UNCHANGED <<clock, account, org, apiKey, issued, answered>>

(* The only member is the owner, so any other role is refused as a         *)
(* demotion of the final owner.  The version compared, and the one         *)
(* written, come from the membership as it was read.                       *)
UpdateRole(c, role, expected) ==
    /\ call[c].op = "role"
    /\ LET g == call[c].org
           member == call[c].member
       IN IF /\ expected = member.version
             /\ member.role = "owner" => role = "owner"
             /\ member.version < MaxRoleVersion
          THEN /\ org' = [org EXCEPT ![g].role = role,
                                     ![g].version = member.version + 1]
               /\ TouchSession(c)
          ELSE UNCHANGED <<org, session>>
    /\ Done(c)
    /\ UNCHANGED <<clock, account, project, apiKey, issued, answered>>

(***************************************************************************)
(* API keys                                                                *)
(***************************************************************************)
(* The token is derived from the environment, the organization, the user   *)
(* and the idempotency key, so a key record is identified by these.        *)
NewKey(c, i, env) ==
    [org |-> call[c].org, user |-> call[c].user, idem |-> i, env |-> env,
     scopes |-> {"read", "project"}, revoked |-> FALSE]

KeyId(k) == <<k.org, k.user, k.idem, k.env>>

(* The scope of an idempotency record.                                     *)
Scope(k) == <<k.org, k.user, k.idem>>

(* create_api_key looks the idempotency record up without a lock.  A       *)
(* record of the same request answers with the key it names; one of        *)
(* another request is a conflict.                                          *)
FindKeyRecord(c, i, env) ==
    /\ call[c].op = "key"
    /\ LET wanted == NewKey(c, i, env)
           found == {k \in issued : Scope(k) = Scope(wanted)}
       IN \/ /\ found = {}
             /\ call' = [call EXCEPT ![c].op = "insert", ![c].read = wanted]
             /\ UNCHANGED <<session, answered>>
          \/ /\ found # {}
             /\ IF wanted \in found
                THEN /\ answered' = answered \cup
                           {<<Scope(wanted), KeyId(wanted)>>}
                     /\ TouchSession(c)
                ELSE UNCHANGED <<session, answered>>
             /\ Done(c)
    /\ UNCHANGED <<clock, account, org, project, apiKey, issued>>

\* Mutant: the idempotency record has no unique scope.
UnissuedToken(k) == \A other \in apiKey : KeyId(other) # KeyId(k)

(* The insert fails on the unique token digest or on the unique scope of   *)
(* the idempotency record, and the request with it.                        *)
Unissued(k) ==
    /\ \A other \in apiKey : KeyId(other) # KeyId(k)
    /\ \A other \in issued : Scope(other) # Scope(k)

InsertKey(c) ==
    /\ call[c].op = "insert"
    /\ LET k == call[c].read
       IN IF Unissued(k)
          THEN /\ apiKey' = apiKey \cup {k}
               /\ issued' = issued \cup {k}
               /\ answered' = answered \cup {<<Scope(k), KeyId(k)>>}
               /\ TouchSession(c)
          ELSE UNCHANGED <<apiKey, issued, answered, session>>
    /\ Done(c)
    /\ UNCHANGED <<clock, account, org, project>>

RevokeKey(c, k) ==
    /\ call[c].op = "revoke"
    /\ k.org = call[c].org
    /\ apiKey' = (apiKey \ {k}) \cup {[k EXCEPT !.revoked = TRUE]}
    /\ TouchSession(c)
    /\ Done(c)
    /\ UNCHANGED <<clock, account, org, project, issued, answered>>

IdentityNext ==
    \/ TimePasses
    \/ \E e \in Emails, g \in OrgSlugs, s \in Sessions : Register(e, g, s)
    \/ \E c \in Clients, e \in Emails, ok \in BOOLEAN : ReadAccount(c, e, ok)
    \/ \E c \in Clients : FailLogin(c)
    \/ \E c \in Clients, s \in Sessions : SucceedLogin(c, s)
    \/ \E c \in Clients, s \in Sessions, g \in OrgSlugs :
          \E op \in {"read", "logout", "organization", "project", "key",
                     "revoke", "role"} : BySession(c, s, op, g)
    \/ \E c \in Clients, k \in apiKey, op \in {"read", "project"} :
          ByApiKey(c, k, op)
    \/ \E c \in Clients : Read(c)
    \/ \E c \in Clients : Logout(c)
    \/ \E c \in Clients : CreateOrganization(c)
    \/ \E c \in Clients, p \in ProjectSlugs : CreateProject(c, p)
    \/ \E c \in Clients, role \in {"owner", "viewer"}, n \in 1..MaxRoleVersion :
          UpdateRole(c, role, n)
    \/ \E c \in Clients, i \in IdemKeys, env \in Environments :
          FindKeyRecord(c, i, env)
    \/ \E c \in Clients : InsertKey(c)
    \/ \E c \in Clients, k \in apiKey : RevokeKey(c, k)

IdentitySpec == IdentityInit /\ [][IdentityNext]_identityVars

(***************************************************************************)
(* Properties                                                              *)
(***************************************************************************)
(* A session that was logged out stays revoked, whatever requests that     *)
(* were authenticated before the logout commit after it, and no request    *)
(* moves its end past the absolute expiry set at login (revoke_session,    *)
(* resolve_auth_context).                                                  *)
LogoutIsFinal ==
    [][\A s \in Sessions : session[s] # Null =>
          /\ session[s].revoked => session'[s].revoked
          /\ session'[s].absolute = session[s].absolute
          /\ session'[s].idle <= session[s].absolute]_identityVars

(* An idempotency key issues one API key: there is one record for it and   *)
(* every answer to a request with the key names that record, for requests  *)
(* that both found the key unused (create_api_key).                        *)
KeyIssuedOnce ==
    /\ \A j, k \in apiKey : Scope(j) = Scope(k) => j = k
    /\ \A a, b \in answered : a[1] = b[1] => a = b
===============================================================================
