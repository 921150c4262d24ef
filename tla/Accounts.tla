------------------------------ MODULE Accounts ------------------------------
(***************************************************************************)
(* Registration, login, sessions, email tokens, account deletion and the   *)
(* moderation of accounts (crates/server/src/{auth,session,accounts,admin} *)
(* .rs over crates/db).  Every statement commits by itself; a request is   *)
(* the sequence of its statements and keeps what it read in between.       *)
(***************************************************************************)
EXTENDS Integers, FiniteSets

CONSTANTS
  Names,        \* local usernames; an account is an actor and a user row
  Admin,        \* the account `toottok create-admin` made
  Emails, NoEmail,
  Sessions,     \* ids of sessions, each given out once
  Tokens,       \* ids of email tokens, each given out once
  Requests,     \* requests handled at the same time
  NoName, NoKey,
  MaxRequests,  \* bound: requests in one behaviour
  MaxFaults     \* bound: failed statements, dropped connections, rows that expire

ASSUME ConstantAssumption ==
  /\ Admin \in Names /\ NoName \notin Names /\ NoEmail \notin Emails
  /\ NoKey \notin Sessions \cup Tokens \cup Emails \cup {NoEmail}
  /\ Tokens \cap (Sessions \cup Emails \cup {NoEmail, "none", "registered"}) = {}
  /\ MaxRequests \in Nat /\ MaxFaults \in Nat

VARIABLES
  actor,    \* actor[n]: "row" and the stamps suspended_at, deleted_at it has
  user,     \* user[n]: the users row, status "none" while there is none
  session,  \* session[s]: the sessions row; owner NoName while there is none
  token,    \* token[t]: the email_tokens row, state "none" while there is none
  minted,   \* the ids of sessions and tokens given out so far
  mode,     \* settings.registration_mode
  audit,    \* audit_log: <<action, target>>
  op, pc,   \* a request: its handler and the statement it stands at
  who,      \* the account signed in
  name,     \* the account it is about
  key,      \* the session, token or email it holds
  seen,     \* what it read: the password hash, or the status to register with
  late,     \* history: the account was already barred when the request came
  cut,      \* history: <<op, statement, name>> a request owed and did not run
  started, faults

tables == <<actor, user, session, token, minted, mode, audit>>
request == <<op, pc, who, name, key, seen, late>>
vars == <<tables, request, cut, started, faults>>

Kinds == {"verify", "password_reset"}
Modes == {"open", "approval", "invite"}
AdminOps == {"suspend", "approve", "settings"}
AuthOps == AdminOps \cup {"logout", "delete"}
Ops == AuthOps \cup {"register", "login", "forgot", "reset", "verify"}
Phases == {"idle", "creating", "joining", "undoing", "mailing", "checking", "opening",
           "user", "actor", "serving", "suspending", "auditing", "attempted", "reading",
           "erasing", "burying", "revoking", "unlinking", "writing", "invalidating", "verifying"}

\* The statements a request owes once it has changed something; "skipped" is a
\* revocation that failed.
Owed == {"joining", "undoing", "invalidating", "burying", "revoking", "unlinking", "auditing", "skipped"}

\* Passwords: the one an account was registered with, the one set through
\* token t is t itself; "none" is NULL.
Hashes == Tokens \cup {"registered", "none"}
Mails == Emails \cup {NoEmail}
NoUser == [status |-> "none", email |-> NoEmail, hash |-> "none",
           admin |-> FALSE, verified |-> FALSE, deleted |-> FALSE,
           applied |-> FALSE]  \* history: registered as pending
NoSession == [owner |-> NoName, hash |-> "none", expired |-> FALSE, raced |-> FALSE]
NoToken == [owner |-> NoName, kind |-> "verify", state |-> "none", hash |-> "none", raced |-> FALSE]

\* Accounts that must not be served: erased, not approved, suspended, deleted.
Barred(n) ==
  \/ user[n].deleted \/ user[n].status # "active"
  \/ actor[n] \cap {"suspended", "deleted"} # {}

\* After `toottok create-admin`.
Init ==
  /\ actor = [n \in Names |-> IF n = Admin THEN {"row"} ELSE {}]
  /\ user = [n \in Names |->
       IF n = Admin THEN [NoUser EXCEPT !.status = "active", !.hash = "registered", !.admin = TRUE]
       ELSE NoUser]
  /\ session = [s \in Sessions |-> NoSession] /\ token = [t \in Tokens |-> NoToken]
  /\ minted = {} /\ mode = "open" /\ audit = {}
  /\ op = [r \in Requests |-> "login"] /\ pc = [r \in Requests |-> "idle"]
  /\ who = [r \in Requests |-> NoName] /\ name = [r \in Requests |-> NoName]
  /\ key = [r \in Requests |-> NoKey] /\ seen = [r \in Requests |-> "none"]
  /\ late = [r \in Requests |-> FALSE] /\ cut = {} /\ started = 0 /\ faults = 0

-----------------------------------------------------------------------------
\* A request for handler o comes in: signed in as w, on account n, with key k
\* and value v in hand.
Comes(r, o, w, n, k, v, ph) ==
  /\ pc[r] = "idle" /\ started < MaxRequests /\ started' = started + 1
  /\ op' = [op EXCEPT ![r] = o] /\ pc' = [pc EXCEPT ![r] = ph]
  /\ who' = [who EXCEPT ![r] = w] /\ name' = [name EXCEPT ![r] = n]
  /\ key' = [key EXCEPT ![r] = k] /\ seen' = [seen EXCEPT ![r] = v]
  /\ UNCHANGED <<cut, faults>>

\* Request r goes on at statement ph; it is answered and holds nothing more.
Goes(r, ph) == pc' = [pc EXCEPT ![r] = ph] /\ UNCHANGED <<op, who, name, key, seen, late>>
Done(r) ==
  /\ op' = [op EXCEPT ![r] = "login"] /\ pc' = [pc EXCEPT ![r] = "idle"]
  /\ who' = [who EXCEPT ![r] = NoName] /\ name' = [name EXCEPT ![r] = NoName]
  /\ key' = [key EXCEPT ![r] = NoKey] /\ seen' = [seen EXCEPT ![r] = "none"]
  /\ late' = [late EXCEPT ![r] = FALSE]
\* It goes on with value v in hand.
Reads(r, v, ph) ==
  /\ pc' = [pc EXCEPT ![r] = ph] /\ seen' = [seen EXCEPT ![r] = v]
  /\ UNCHANGED <<op, who, name, key, late>>
At(r, o, ph) == op[r] = o /\ pc[r] = ph
Frame == UNCHANGED <<cut, started, faults>>

-----------------------------------------------------------------------------
(* Registration.                                                           *)

Register(r, n, e) ==
  /\ mode # "invite"
  /\ Comes(r, "register", NoName, n, e, IF mode = "open" THEN "active" ELSE "pending", "creating")
  /\ UNCHANGED <<tables, late>>

\* Actor::create; the unique index on the username answers 409.
CreateActor(r) ==
  /\ At(r, "register", "creating")
  /\ \/ "row" \in actor[name[r]] /\ Done(r) /\ UNCHANGED actor
     \/ /\ "row" \notin actor[name[r]]
        /\ actor' = [actor EXCEPT ![name[r]] = {"row"}] /\ Goes(r, "joining")
  /\ UNCHANGED <<user, session, token, minted, mode, audit>> /\ Frame

\* random_urlsafe_token: an id nobody was given before.
Unused(S) == CHOOSE i \in S : i \notin minted

EmailTaken(e) == e # NoEmail /\ \E n \in Names : user[n].email = e

\* Mutant: an email that is taken is answered at once.
UserRefusedAtOnce(r) == Done(r)

\* User::create_with_status failed: the actor is to be deleted again.
UserRefused(r) == Goes(r, "undoing")

CreateUser(r) ==
  /\ At(r, "register", "joining")
  /\ \/ EmailTaken(key[r]) /\ UserRefused(r) /\ UNCHANGED user
     \/ /\ ~EmailTaken(key[r])
        /\ user' = [user EXCEPT ![name[r]] =
             [NoUser EXCEPT !.status = seen[r], !.email = key[r], !.hash = "registered",
                            !.applied = (seen[r] = "pending")]]
        /\ IF seen[r] = "active" /\ key[r] # NoEmail
             THEN Reads(r, "registered", "mailing")
             ELSE Done(r)
  /\ UNCHANGED <<actor, session, token, minted, mode, audit>> /\ Frame

UndoActor(r) ==
  /\ At(r, "register", "undoing")
  /\ actor' = [actor EXCEPT ![name[r]] = {}] /\ Done(r)
  /\ UNCHANGED <<user, session, token, minted, mode, audit>> /\ Frame

\* issue_email_token: the row, then the mail.
IssueToken(r) ==
  /\ op[r] \in {"register", "forgot"} /\ pc[r] = "mailing"
  /\ Tokens \ minted # {}
  /\ LET t == Unused(Tokens) IN
       /\ minted' = minted \cup {t}
       /\ token' = [token EXCEPT ![t] =
            [owner |-> name[r], kind |-> IF op[r] = "register" THEN "verify" ELSE "password_reset",
             state |-> "fresh", hash |-> seen[r],
             raced |-> seen[r] # user[name[r]].hash \/ user[name[r]].deleted]]
  /\ Done(r) /\ UNCHANGED <<actor, user, session, mode, audit>> /\ Frame

-----------------------------------------------------------------------------
(* Login and the extractor of signed-in requests.                          *)

MayLogIn(n) == ~user[n].deleted /\ user[n].status = "active"

\* The right password for the hash on record is given.
Login(r, n) ==
  /\ MayLogIn(n) /\ user[n].hash # "none"
  /\ Comes(r, "login", NoName, n, NoKey, user[n].hash, "checking")
  /\ late' = [late EXCEPT ![r] = Barred(n)] /\ UNCHANGED tables

LoginChecksActor(r) ==
  /\ At(r, "login", "checking")
  /\ IF actor[name[r]] = {"row"} THEN Goes(r, "opening") ELSE Done(r)
  /\ UNCHANGED tables /\ Frame

CreateSession(r) ==
  /\ At(r, "login", "opening")
  /\ Sessions \ minted # {}
  /\ LET s == Unused(Sessions) IN
       /\ minted' = minted \cup {s}
       /\ session' = [session EXCEPT ![s] =
            [owner |-> name[r], hash |-> seen[r], expired |-> FALSE,
             raced |-> seen[r] # user[name[r]].hash \/ Barred(name[r])]]
  /\ Done(r) /\ UNCHANGED <<actor, user, token, mode, audit>> /\ Frame

\* A request with the cookie of session s, for handler o; suspend and approve
\* are about an account n, the others about its own.
SignedIn(r, s, o, n) ==
  /\ session[s].owner # NoName /\ ~session[s].expired
  /\ o \in {"logout", "delete", "settings"} => n = session[s].owner
  /\ Comes(r, o, session[s].owner, n, s, "none", "user")
  /\ late' = [late EXCEPT ![r] = Barred(session[s].owner)] /\ UNCHANGED tables

\* The extractor met a session past its time.
DropExpired(s) ==
  /\ session[s].owner # NoName /\ session[s].expired
  /\ session' = [session EXCEPT ![s] = NoSession]
  /\ UNCHANGED <<actor, user, token, minted, mode, audit, request>> /\ Frame

\* The extractor reads the user; with it come is_admin and the hash the handler
\* will use.
AuthReadsUser(r) ==
  /\ op[r] \in AuthOps /\ pc[r] = "user"
  /\ LET u == user[who[r]] IN
       IF u.deleted \/ u.status # "active" \/ (op[r] \in AdminOps /\ ~u.admin)
         THEN Done(r)
         ELSE Reads(r, u.hash, "actor")
  /\ UNCHANGED tables /\ Frame

\* Mutant: only deletion is looked at.
ActorServedIfSuspended(n) == "row" \in actor[n] /\ "deleted" \notin actor[n]

ActorServed(n) == actor[n] = {"row"}

AuthReadsActor(r) ==
  /\ op[r] \in AuthOps /\ pc[r] = "actor"
  /\ IF ActorServed(who[r]) THEN Goes(r, "serving") ELSE Done(r)
  /\ UNCHANGED tables /\ Frame

Logout(r) ==
  /\ At(r, "logout", "serving")
  /\ session' = [session EXCEPT ![key[r]] = NoSession]
  /\ Done(r) /\ UNCHANGED <<actor, user, token, minted, mode, audit>> /\ Frame

-----------------------------------------------------------------------------
(* Password reset and email verification.                                  *)

RequestReset(r, n) ==
  /\ user[n].email # NoEmail /\ ~user[n].deleted /\ user[n].status = "active"
  /\ Comes(r, "forgot", NoName, n, NoKey, user[n].hash, "mailing")
  /\ UNCHANGED <<tables, late>>

\* Mutant: used_at is not asked for.
UsableAgain(t, k) == token[t].kind = k /\ token[t].state \in {"fresh", "used"}

Usable(t, k) == token[t].kind = k /\ token[t].state = "fresh"

\* EmailToken::consume, one UPDATE with its conditions.
Consume(r, t, k) ==
  /\ Usable(t, k)
  /\ token' = [token EXCEPT ![t].state = "used"]
  /\ IF k = "verify"
       THEN Comes(r, "verify", NoName, token[t].owner, t, "none", "verifying")
       ELSE Comes(r, "reset", NoName, token[t].owner, t, "none", "writing")
  /\ UNCHANGED <<actor, user, session, minted, mode, audit, late>>

VerifyEmail(r) ==
  /\ At(r, "verify", "verifying")
  /\ user' = [user EXCEPT ![name[r]].verified = TRUE]
  /\ Done(r) /\ UNCHANGED <<actor, session, token, minted, mode, audit>> /\ Frame

\* User::set_password, whatever became of the user since.
SetPassword(r) ==
  /\ At(r, "reset", "writing")
  /\ user' = [user EXCEPT ![name[r]].hash = key[r]]
  /\ Goes(r, "invalidating") /\ UNCHANGED <<actor, session, token, minted, mode, audit>> /\ Frame

\* Mutant: only the link that was followed is dead.
InvalidatedNothing(n) == token

Invalidated(n) ==
  [t \in Tokens |->
    IF token[t].owner = n /\ token[t].kind = "password_reset" /\ token[t].state \in {"fresh", "expired"}
      THEN [token[t] EXCEPT !.state = "used"] ELSE token[t]]

InvalidateTokens(r) ==
  /\ At(r, "reset", "invalidating") /\ token' = Invalidated(name[r])
  /\ Goes(r, "revoking") /\ UNCHANGED <<actor, user, session, minted, mode, audit>> /\ Frame

\* Session::delete_for_user.
Revoked(r) ==
  [s \in Sessions |-> IF session[s].owner = name[r] THEN NoSession ELSE session[s]]

\* Revoking is the last statement of reset, the last but one of the others.
AfterRevoking(r) ==
  \/ op[r] = "reset" /\ Done(r)
  \/ op[r] = "suspend" /\ Goes(r, "auditing")
  \/ op[r] = "delete" /\ Goes(r, "unlinking")

RevokeSessions(r) ==
  /\ pc[r] = "revoking" /\ session' = Revoked(r) /\ AfterRevoking(r)
  /\ UNCHANGED <<actor, user, token, minted, mode, audit>> /\ Frame

-----------------------------------------------------------------------------
(* Account deletion (its clips and files are in MediaPipeline).            *)

\* The password given is wrong, or it is right for the hash the extractor read;
\* then clips, files and tombstone come first.
DeleteMe(r) ==
  /\ At(r, "delete", "serving")
  /\ Done(r) \/ (seen[r] # "none" /\ Goes(r, "erasing"))
  /\ UNCHANGED tables /\ Frame

Erase(r) ==
  /\ At(r, "delete", "erasing")
  /\ user' = [user EXCEPT ![name[r]] =
       [@ EXCEPT !.deleted = TRUE, !.email = NoEmail, !.hash = "none", !.admin = FALSE]]
  /\ Goes(r, "burying") /\ UNCHANGED <<actor, session, token, minted, mode, audit>> /\ Frame

BuryActor(r) ==
  /\ At(r, "delete", "burying")
  /\ actor' = [actor EXCEPT ![name[r]] = @ \cup {"deleted"}]
  /\ Goes(r, "revoking") /\ UNCHANGED <<user, session, token, minted, mode, audit>> /\ Frame

DeleteTokens(r) ==
  /\ At(r, "delete", "unlinking")
  /\ token' = [t \in Tokens |-> IF token[t].owner = name[r] THEN NoToken ELSE token[t]]
  /\ Done(r) /\ UNCHANGED <<actor, user, session, minted, mode, audit>> /\ Frame

-----------------------------------------------------------------------------
(* Moderation.                                                             *)

\* suspend_user fetches the user; an unknown one is only audited.
SuspendReads(r) ==
  /\ At(r, "suspend", "serving")
  /\ Goes(r, IF user[name[r]].status = "none" THEN "attempted" ELSE "suspending")
  /\ UNCHANGED tables /\ Frame

SuspendActor(r) ==
  /\ At(r, "suspend", "suspending")
  /\ actor' = [actor EXCEPT ![name[r]] = @ \cup {"suspended"}]
  /\ Goes(r, "revoking") /\ UNCHANGED <<user, session, token, minted, mode, audit>> /\ Frame

\* approve_user: set_status, whatever became of the user since.
Approve(r) ==
  /\ At(r, "approve", "serving")
  /\ \/ user[name[r]].status = "none" /\ Goes(r, "attempted") /\ UNCHANGED user
     \/ /\ user[name[r]].status # "none"
        /\ user' = [user EXCEPT ![name[r]].status = "active"] /\ Goes(r, "auditing")
  /\ UNCHANGED <<actor, session, token, minted, mode, audit>> /\ Frame

\* Mutant: any string is a mode.
AcceptedAny == Modes \cup {"closed"}

\* validate_setting of registration_mode.
Accepted == Modes

\* put_settings with one key, registration_mode.
PutSettings(r, m) ==
  /\ At(r, "settings", "serving")
  /\ mode' = m /\ Reads(r, m, "auditing")
  /\ UNCHANGED <<actor, user, session, token, minted, audit>> /\ Frame

\* audit_logged and audit_attempted; put_settings answers with get_settings.
Audit(r) ==
  /\ op[r] \in AdminOps /\ pc[r] \in {"auditing", "attempted"}
  /\ audit' = audit \cup {IF pc[r] = "attempted" THEN <<"attempted", name[r]>>
                          ELSE <<op[r], IF op[r] = "settings" THEN seen[r] ELSE name[r]>>}
  /\ IF At(r, "settings", "auditing") THEN Goes(r, "reading") ELSE Done(r)
  /\ UNCHANGED <<actor, user, session, token, minted, mode>> /\ Frame

\* get_settings is audited too.
ReadSettings(r) ==
  /\ At(r, "settings", "reading") /\ audit' = audit \cup {<<"read", name[r]>>}
  /\ Done(r) /\ UNCHANGED <<actor, user, session, token, minted, mode>> /\ Frame

-----------------------------------------------------------------------------
(* Time and faults.                                                        *)

Upset == faults < MaxFaults /\ faults' = faults + 1 /\ UNCHANGED started

ExpireSession(s) ==
  /\ session[s].owner # NoName /\ ~session[s].expired /\ Upset
  /\ session' = [session EXCEPT ![s].expired = TRUE]
  /\ UNCHANGED <<actor, user, token, minted, mode, audit, request, cut>>

ExpireToken(t) ==
  /\ token[t].state = "fresh" /\ Upset /\ token' = [token EXCEPT ![t].state = "expired"]
  /\ UNCHANGED <<actor, user, session, minted, mode, audit, request, cut>>

Cuts(r, ph) == cut' = IF ph \in Owed THEN cut \cup {<<op[r], ph, name[r]>>} ELSE cut

\* Mutant: a suspension whose sessions stayed is answered 500 at once.
UnrevokedUnlogged(r) == Done(r)

\* suspend_user audits it all the same.
Unrevoked(r) == Goes(r, "auditing")

\* A statement fails.  create_with_status then undoes the actor; suspend_user
\* skips the sessions; the admin handlers audit the attempt; put_settings goes
\* on without its entry; the rest answer 500.
Fails(r) ==
  /\ pc[r] # "idle" /\ Upset /\ UNCHANGED tables
  /\ CASE At(r, "register", "joining") -> UserRefused(r) /\ UNCHANGED cut
       [] At(r, "suspend", "revoking") -> Unrevoked(r) /\ Cuts(r, "skipped")
       [] op[r] \in AdminOps /\ pc[r] \in {"serving", "suspending"} -> Goes(r, "attempted") /\ UNCHANGED cut
       [] At(r, "settings", "auditing") -> Goes(r, "reading") /\ Cuts(r, pc[r])
       [] OTHER -> Done(r) /\ Cuts(r, pc[r])

\* The server stops, or the client goes away and the handler is dropped where
\* it stands.
Dropped(r) ==
  /\ pc[r] # "idle" /\ Upset
  /\ Done(r) /\ Cuts(r, pc[r])
  /\ UNCHANGED tables

-----------------------------------------------------------------------------
Serves(r) ==
  \/ \E n \in Names : Login(r, n) \/ RequestReset(r, n) \/ \E e \in Mails : Register(r, n, e)
  \/ \E s \in Sessions, o \in AuthOps, n \in Names : SignedIn(r, s, o, n)
  \/ \E t \in Tokens, k \in Kinds : Consume(r, t, k)
  \/ CreateActor(r) \/ CreateUser(r) \/ UndoActor(r) \/ IssueToken(r)
  \/ LoginChecksActor(r) \/ CreateSession(r)
  \/ AuthReadsUser(r) \/ AuthReadsActor(r) \/ Logout(r)
  \/ VerifyEmail(r) \/ SetPassword(r) \/ InvalidateTokens(r) \/ RevokeSessions(r)
  \/ DeleteMe(r) \/ Erase(r) \/ BuryActor(r) \/ DeleteTokens(r)
  \/ SuspendReads(r) \/ SuspendActor(r) \/ Approve(r) \/ Audit(r) \/ ReadSettings(r)
  \/ \E m \in Accepted : PutSettings(r, m)
  \/ Fails(r) \/ Dropped(r)

Next ==
  \/ \E r \in Requests : Serves(r)
  \/ \E s \in Sessions : DropExpired(s) \/ ExpireSession(s)
  \/ \E t \in Tokens : ExpireToken(t)

Spec == Init /\ [][Next]_vars

-----------------------------------------------------------------------------
(* Properties.                                                             *)

\* Every column and every variable of a handler holds a value of its type; a
\* session, a token and a request are about accounts the instance has.
TypeOK ==
  /\ actor \in [Names -> SUBSET {"row", "suspended", "deleted"}]
  /\ user \in [Names -> [status : {"none", "pending", "active"}, email : Mails, hash : Hashes,
                         admin : BOOLEAN, verified : BOOLEAN, deleted : BOOLEAN,
                         applied : BOOLEAN]]
  /\ session \in [Sessions -> [owner : Names \cup {NoName}, hash : Hashes,
                               expired : BOOLEAN, raced : BOOLEAN]]
  /\ token \in [Tokens -> [owner : Names \cup {NoName}, kind : Kinds, hash : Hashes,
                           state : {"none", "fresh", "used", "expired"}, raced : BOOLEAN]]
  /\ minted \subseteq Sessions \cup Tokens /\ mode \in Modes
  /\ audit \subseteq (AdminOps \cup {"attempted", "read"}) \X (Names \cup Modes)
  /\ op \in [Requests -> Ops] /\ pc \in [Requests -> Phases]
  /\ who \in [Requests -> Names \cup {NoName}] /\ name \in [Requests -> Names \cup {NoName}]
  /\ key \in [Requests -> Sessions \cup Tokens \cup Mails \cup {NoKey}]
  /\ seen \in [Requests -> Hashes \cup Modes \cup {"active", "pending"}]
  /\ late \in [Requests -> BOOLEAN] /\ cut \subseteq Ops \X Owed \X Names
  /\ started \in 0..MaxRequests /\ faults \in 0..MaxFaults

CutAt(o, phs, n) == \E ph \in phs : <<o, ph, n>> \in cut
Busy(o, n) == {r \in Requests : op[r] = o /\ name[r] = n /\ pc[r] # "idle"}

\* The handlers that must still revoke what account n had before; those that
\* ended before they did, or skipped it.
Revokers == {"reset", "suspend", "delete"}
RevokerPhases == {"invalidating", "burying", "revoking", "unlinking"}
Revoking(n) == \E o \in Revokers : \E r \in Busy(o, n) : pc[r] \in RevokerPhases
Cut(n) == \E o \in Revokers : CutAt(o, RevokerPhases \cup {"skipped"}, n)

\* A session whose password was replaced or whose account was suspended or
\* deleted, and a reset link asked for under an earlier password or for an
\* account deleted since, work only while the handler that must revoke them is
\* under way, after it failed at one of the statements that do so, or when the login or request_reset had read the
\* account before and inserts its row afterwards (reset, suspend_user and
\* delete_me against login and request_reset).
CredentialsRevoked ==
  /\ \A s \in Sessions : LET n == session[s].owner IN
       n # NoName /\ (session[s].hash # user[n].hash \/ Barred(n)) =>
         session[s].raced \/ Cut(n) \/ Revoking(n)
  /\ \A t \in Tokens : LET n == token[t].owner IN
       Usable(t, "password_reset") /\ (token[t].hash # user[n].hash \/ user[n].deleted) =>
         token[t].raced \/ Cut(n) \/ Revoking(n)

\* No request that came when its account was not approved, suspended or deleted
\* gets past the checks of login or of the extractor, whatever a reset, an
\* approval or a registration writes to the rows in the meantime ("deleted
\* users must not be able to authenticate anyway").
NoLateAccess ==
  \A r \in Requests : late[r] => pc[r] \in {"user", "actor", "checking"}

\* An email token is acted on once: no two requests hold it, and the token of a
\* request or of the password on record cannot be consumed again.
TokenSpentOnce ==
  /\ \A r, q \in Requests : key[r] \in Tokens /\ key[r] = key[q] => r = q
  /\ \A t \in Tokens : token[t].state \in {"fresh", "expired"} =>
       (\A r \in Requests : key[r] # t) /\ (\A n \in Names : user[n].hash # t)

\* A username is taken by an actor nobody can sign in to only while its
\* registration runs or after one failed between its statements (register's
\* compensating DELETE).
OrphanNeedsFault ==
  \A n \in Names :
    "row" \in actor[n] /\ user[n].status = "none" =>
      (\E r \in Busy("register", n) : pc[r] \in {"joining", "undoing"}) \/ CutAt("register", {"joining", "undoing"}, n)

\* An account is suspended or approved and the registration mode is changed
\* only with an audit_log entry that says so, or is about to, unless the handler
\* was dropped before it or its INSERT failed ("A mutation must not silently
\* persist unlogged"); a suspension whose sessions could not be revoked too.
Audited ==
  /\ \A n \in Names :
       "suspended" \in actor[n] =>
         \/ <<"suspend", n>> \in audit \/ CutAt("suspend", {"revoking", "auditing"}, n)
         \/ \E r \in Busy("suspend", n) : pc[r] \in {"revoking", "auditing"}
  /\ \A n \in Names :
       user[n].applied /\ user[n].status = "active" =>
         \/ <<"approve", n>> \in audit \/ CutAt("approve", {"auditing"}, n)
         \/ \E r \in Busy("approve", n) : pc[r] = "auditing"
  /\ mode # "open" =>
       \/ <<"settings", mode>> \in audit \/ \E n \in Names : CutAt("settings", {"auditing"}, n)
       \/ \E r \in Requests : op[r] = "settings" /\ pc[r] = "auditing" /\ seen[r] = mode
=============================================================================
