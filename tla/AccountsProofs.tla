--------------------------- MODULE AccountsProofs ---------------------------
(***************************************************************************)
(* Revocation, single use of tokens, barred accounts, compensation and     *)
(* audit of Accounts, for any accounts, sessions, tokens, concurrent       *)
(* requests and faults.                                                    *)
(*                                                                         *)
(* The argument: a request moves by its own statements only                *)
(* (OwnStatements), so a handler that owes a statement (a compensating     *)
(* DELETE, an audit entry, a revocation) owes it until it has run or is    *)
(* cut.  An account that is active stays active and keeps its stamps       *)
(* (KnownInv): the only statements that could take them away belong to a   *)
(* registration, and one that holds an actor is alone with it and its name *)
(* has no user.                                                            *)
(***************************************************************************)
EXTENDS Accounts, TLAPS

\* What a request holds fits the statement it stands at.
Holds(r) ==
  /\ pc[r] # "idle" => name[r] \in Names
  /\ pc[r] \in {"creating", "joining"} => key[r] \in Mails /\ seen[r] \in {"active", "pending"}
  /\ pc[r] \in {"mailing", "checking", "opening"} => seen[r] \in Hashes
  /\ pc[r] = "writing" => key[r] \in Tokens
  /\ pc[r] \in {"user", "actor", "serving"} => who[r] \in Names
  /\ At(r, "settings", "auditing") => seen[r] \in Modes

RequestsHold == \A r \in Requests : Holds(r)

\* A token that was given out and not deleted with its account has an owner.
TokensOwned == \A t \in Tokens : token[t].state # "none" => token[t].owner \in Names

TypeInv == TypeOK /\ RequestsHold /\ TokensOwned

\* The steps, one by one.
NextCases ==
  \/ \E r \in Requests, n \in Names, e \in Mails : Register(r, n, e)
  \/ \E r \in Requests : CreateActor(r)
  \/ \E r \in Requests : CreateUser(r)
  \/ \E r \in Requests : UndoActor(r)
  \/ \E r \in Requests : IssueToken(r)
  \/ \E r \in Requests, n \in Names : Login(r, n)
  \/ \E r \in Requests : LoginChecksActor(r)
  \/ \E r \in Requests : CreateSession(r)
  \/ \E r \in Requests, s \in Sessions, o \in AuthOps, n \in Names : SignedIn(r, s, o, n)
  \/ \E s \in Sessions : DropExpired(s)
  \/ \E r \in Requests : AuthReadsUser(r)
  \/ \E r \in Requests : AuthReadsActor(r)
  \/ \E r \in Requests : Logout(r)
  \/ \E r \in Requests, n \in Names : RequestReset(r, n)
  \/ \E r \in Requests, t \in Tokens, k \in Kinds : Consume(r, t, k)
  \/ \E r \in Requests : VerifyEmail(r)
  \/ \E r \in Requests : SetPassword(r)
  \/ \E r \in Requests : InvalidateTokens(r)
  \/ \E r \in Requests : RevokeSessions(r)
  \/ \E r \in Requests : DeleteMe(r)
  \/ \E r \in Requests : Erase(r)
  \/ \E r \in Requests : BuryActor(r)
  \/ \E r \in Requests : DeleteTokens(r)
  \/ \E r \in Requests : SuspendReads(r)
  \/ \E r \in Requests : SuspendActor(r)
  \/ \E r \in Requests : Approve(r)
  \/ \E r \in Requests, m \in Modes : PutSettings(r, m)
  \/ \E r \in Requests : Audit(r)
  \/ \E r \in Requests : ReadSettings(r)
  \/ \E s \in Sessions : ExpireSession(s)
  \/ \E t \in Tokens : ExpireToken(t)
  \/ \E r \in Requests : Fails(r)
  \/ \E r \in Requests : Dropped(r)
  \/ UNCHANGED vars

\* Next is the disjunction of its statements.
LEMMA SplitNext ==
  ASSUME [Next]_vars
  PROVE  NextCases
  BY DEF Next, Serves, NextCases, Accepted

\* How one request moves: it comes, goes on, goes on with a value, or is done.
Moves(r) ==
  \/ \E o \in Ops, w \in Names \cup {NoName}, n \in Names,
        k \in Sessions \cup Tokens \cup Mails \cup {NoKey},
        v \in Hashes \cup {"active", "pending"}, ph \in Phases, l \in BOOLEAN :
       Comes(r, o, w, n, k, v, ph) /\ late' = [late EXCEPT ![r] = l]
  \/ \E ph \in Phases : Goes(r, ph)
  \/ \E v \in Hashes \cup Modes, ph \in Phases : Reads(r, v, ph)
  \/ Done(r)

\* The local state of requests keeps its type however one of them moves.
LEMMA MovesType ==
  ASSUME TypeOK, NEW r \in Requests, Moves(r)
  PROVE  /\ op' \in [Requests -> Ops] /\ pc' \in [Requests -> Phases]
         /\ who' \in [Requests -> Names \cup {NoName}] /\ name' \in [Requests -> Names \cup {NoName}]
         /\ key' \in [Requests -> Sessions \cup Tokens \cup Mails \cup {NoKey}]
         /\ seen' \in [Requests -> Hashes \cup Modes \cup {"active", "pending"}]
         /\ late' \in [Requests -> BOOLEAN]
<1> USE DEF TypeOK
<1>1. CASE \E o \in Ops, w \in Names \cup {NoName}, n \in Names,
              k \in Sessions \cup Tokens \cup Mails \cup {NoKey},
              v \in Hashes \cup {"active", "pending"}, ph \in Phases, l \in BOOLEAN :
             Comes(r, o, w, n, k, v, ph) /\ late' = [late EXCEPT ![r] = l]
  BY <1>1 DEF Comes
<1>2. CASE \E ph \in Phases : Goes(r, ph)
  BY <1>2 DEF Goes
<1>3. CASE \E v \in Hashes \cup Modes, ph \in Phases : Reads(r, v, ph)
  BY <1>3 DEF Reads
<1>4. CASE Done(r)
  BY <1>4 DEF Done, Ops, AuthOps, AdminOps, Phases, Hashes
<1>5. QED
  BY <1>1, <1>2, <1>3, <1>4 DEF Moves

\* Comes is a way to move.
LEMMA ComesMoves ==
  ASSUME NEW r \in Requests, NEW o \in Ops, NEW w \in Names \cup {NoName}, NEW n \in Names,
         NEW k \in Sessions \cup Tokens \cup Mails \cup {NoKey},
         NEW v \in Hashes \cup {"active", "pending"}, NEW ph \in Phases, NEW l \in BOOLEAN,
         Comes(r, o, w, n, k, v, ph), late' = [late EXCEPT ![r] = l]
  PROVE  Moves(r)
  BY Zenon DEF Moves

\* A request is taken up; the statements of one that was.
Arrives(q) ==
  \/ \E n \in Names : Login(q, n) \/ RequestReset(q, n) \/ \E e \in Mails : Register(q, n, e)
  \/ \E s \in Sessions, o \in AuthOps, n \in Names : SignedIn(q, s, o, n)
  \/ \E t \in Tokens, k \in Kinds : Consume(q, t, k)
Statement(q) ==
  \/ Arrives(q) \/ CreateActor(q) \/ CreateUser(q) \/ UndoActor(q) \/ IssueToken(q)
  \/ LoginChecksActor(q) \/ CreateSession(q) \/ AuthReadsUser(q) \/ AuthReadsActor(q)
  \/ Logout(q) \/ VerifyEmail(q) \/ SetPassword(q) \/ InvalidateTokens(q)
  \/ RevokeSessions(q) \/ DeleteMe(q) \/ Erase(q) \/ BuryActor(q) \/ DeleteTokens(q)
  \/ SuspendReads(q) \/ SuspendActor(q) \/ Approve(q)
  \/ (\E m \in Modes : PutSettings(q, m)) \/ Audit(q) \/ ReadSettings(q) \/ Fails(q)
  \/ Dropped(q)

\* In every step at most one request moves, by a statement of its own.
LEMMA RequestStep ==
  ASSUME TypeInv, [Next]_vars
  PROVE  UNCHANGED request \/ \E r \in Requests : Moves(r) /\ Statement(r)
<1>1. ASSUME NEW r \in Requests, NEW n \in Names, NEW e \in Mails, Register(r, n, e) PROVE Moves(r)
  <2> DEFINE v == IF mode = "open" THEN "active" ELSE "pending"
  <2>1. Comes(r, "register", NoName, n, e, v, "creating") /\ late' = [late EXCEPT ![r] = late[r]]
    BY <1>1 DEF Register, TypeInv, TypeOK
  <2>2. "register" \in Ops /\ v \in {"active", "pending"} /\ "creating" \in Phases /\ late[r] \in BOOLEAN
    BY DEF Ops, Phases, TypeInv, TypeOK
  <2> HIDE DEF v
  <2> QED BY <2>1, <2>2, ComesMoves
<1>2. ASSUME NEW r \in Requests, CreateActor(r) PROVE Moves(r)
  BY <1>2 DEF Moves, CreateActor, At, Phases
<1>3. ASSUME NEW r \in Requests, CreateUser(r) PROVE Moves(r)
  BY <1>3 DEF Moves, CreateUser, UserRefused, Phases, Hashes
<1>4. ASSUME NEW r \in Requests, UndoActor(r) PROVE Moves(r)
  BY <1>4 DEF Moves, UndoActor
<1>5. ASSUME NEW r \in Requests, IssueToken(r) PROVE Moves(r)
  BY <1>5 DEF Moves, IssueToken
<1>6. ASSUME NEW r \in Requests, NEW n \in Names, Login(r, n) PROVE Moves(r)
  <2>1. Comes(r, "login", NoName, n, NoKey, user[n].hash, "checking") /\ late' = [late EXCEPT ![r] = Barred(n)]
    BY <1>6 DEF Login
  <2>2. "login" \in Ops /\ user[n].hash \in Hashes /\ "checking" \in Phases /\ Barred(n) \in BOOLEAN
    BY DEF Ops, Phases, TypeInv, TypeOK, Barred
  <2> QED BY <2>1, <2>2, ComesMoves
<1>7. ASSUME NEW r \in Requests, LoginChecksActor(r) PROVE Moves(r)
  BY <1>7 DEF Moves, LoginChecksActor, Phases
<1>8. ASSUME NEW r \in Requests, CreateSession(r) PROVE Moves(r)
  BY <1>8 DEF Moves, CreateSession
<1>9. ASSUME NEW r \in Requests, NEW s \in Sessions, NEW o \in AuthOps, NEW n \in Names, SignedIn(r, s, o, n)
      PROVE Moves(r)
  <2>1. /\ Comes(r, o, session[s].owner, n, s, "none", "user")
        /\ late' = [late EXCEPT ![r] = Barred(session[s].owner)]
    BY <1>9 DEF SignedIn
  <2>2. /\ o \in Ops /\ session[s].owner \in Names \cup {NoName} /\ "none" \in Hashes
        /\ "user" \in Phases /\ Barred(session[s].owner) \in BOOLEAN
    BY DEF Ops, Phases, Hashes, TypeInv, TypeOK, Barred
  <2> QED BY <2>1, <2>2, ComesMoves
<1>10. ASSUME NEW s \in Sessions, DropExpired(s) PROVE UNCHANGED request
  BY <1>10 DEF DropExpired
<1>11. ASSUME NEW r \in Requests, AuthReadsUser(r) PROVE Moves(r)
  <2>1. user[who[r]].hash \in Hashes /\ "actor" \in Phases
    BY <1>11 DEF AuthReadsUser, Phases, TypeInv, TypeOK, RequestsHold, Holds
  <2> QED BY <1>11, <2>1 DEF AuthReadsUser, Moves
<1>12. ASSUME NEW r \in Requests, AuthReadsActor(r) PROVE Moves(r)
  BY <1>12 DEF Moves, AuthReadsActor, Phases
<1>13. ASSUME NEW r \in Requests, Logout(r) PROVE Moves(r)
  BY <1>13 DEF Moves, Logout
<1>14. ASSUME NEW r \in Requests, NEW n \in Names, RequestReset(r, n) PROVE Moves(r)
  <2>1. Comes(r, "forgot", NoName, n, NoKey, user[n].hash, "mailing") /\ late' = [late EXCEPT ![r] = late[r]]
    BY <1>14 DEF RequestReset, TypeInv, TypeOK
  <2>2. "forgot" \in Ops /\ user[n].hash \in Hashes /\ "mailing" \in Phases /\ late[r] \in BOOLEAN
    BY DEF Ops, Phases, TypeInv, TypeOK
  <2> QED BY <2>1, <2>2, ComesMoves
<1>15. ASSUME NEW r \in Requests, NEW t \in Tokens, NEW k \in Kinds, Consume(r, t, k) PROVE Moves(r)
  <2>1. PICK o \in {"verify", "reset"}, ph \in {"verifying", "writing"} :
          Comes(r, o, NoName, token[t].owner, t, "none", ph)
    BY <1>15 DEF Consume
  <2>2. late' = [late EXCEPT ![r] = late[r]]
    BY <1>15 DEF Consume, TypeInv, TypeOK
  <2>3. o \in Ops /\ token[t].owner \in Names /\ "none" \in Hashes /\ ph \in Phases /\ late[r] \in BOOLEAN
    BY <1>15 DEF Ops, Phases, Hashes, TypeInv, TypeOK, TokensOwned, Consume, Usable
  <2> QED BY <2>1, <2>2, <2>3, ComesMoves
<1>16. ASSUME NEW r \in Requests, VerifyEmail(r) PROVE Moves(r)
  BY <1>16 DEF Moves, VerifyEmail
<1>17. ASSUME NEW r \in Requests, SetPassword(r) PROVE Moves(r)
  BY <1>17 DEF Moves, SetPassword, Phases
<1>18. ASSUME NEW r \in Requests, InvalidateTokens(r) PROVE Moves(r)
  BY <1>18 DEF Moves, InvalidateTokens, Phases
<1>19. ASSUME NEW r \in Requests, RevokeSessions(r) PROVE Moves(r)
  BY <1>19 DEF Moves, RevokeSessions, AfterRevoking, Phases
<1>20. ASSUME NEW r \in Requests, DeleteMe(r) PROVE Moves(r)
  BY <1>20 DEF Moves, DeleteMe, Phases
<1>21. ASSUME NEW r \in Requests, Erase(r) PROVE Moves(r)
  BY <1>21 DEF Moves, Erase, Phases
<1>22. ASSUME NEW r \in Requests, BuryActor(r) PROVE Moves(r)
  BY <1>22 DEF Moves, BuryActor, Phases
<1>23. ASSUME NEW r \in Requests, DeleteTokens(r) PROVE Moves(r)
  BY <1>23 DEF Moves, DeleteTokens
<1>24. ASSUME NEW r \in Requests, SuspendReads(r) PROVE Moves(r)
  BY <1>24 DEF Moves, SuspendReads, Phases
<1>25. ASSUME NEW r \in Requests, SuspendActor(r) PROVE Moves(r)
  BY <1>25 DEF Moves, SuspendActor, Phases
<1>26. ASSUME NEW r \in Requests, Approve(r) PROVE Moves(r)
  BY <1>26 DEF Moves, Approve, Phases
<1>27. ASSUME NEW r \in Requests, NEW m \in Modes, PutSettings(r, m) PROVE Moves(r)
  BY <1>27 DEF Moves, PutSettings, Phases
<1>28. ASSUME NEW r \in Requests, Audit(r) PROVE Moves(r)
  BY <1>28 DEF Moves, Audit, Phases
<1>29. ASSUME NEW r \in Requests, ReadSettings(r) PROVE Moves(r)
  BY <1>29 DEF Moves, ReadSettings
<1>30. ASSUME NEW s \in Sessions, ExpireSession(s) PROVE UNCHANGED request
  BY <1>30 DEF ExpireSession
<1>31. ASSUME NEW t \in Tokens, ExpireToken(t) PROVE UNCHANGED request
  BY <1>31 DEF ExpireToken
<1>32. ASSUME NEW r \in Requests, Fails(r) PROVE Moves(r)
  BY <1>32 DEF Moves, Fails, UserRefused, Unrevoked, Phases
<1>33. ASSUME NEW r \in Requests, Dropped(r) PROVE Moves(r)
  BY <1>33 DEF Moves, Dropped
<1>34. CASE UNCHANGED vars
  BY <1>34 DEF vars
<1> QED BY <1>1, <1>2, <1>3, <1>4, <1>5, <1>6, <1>7, <1>8, <1>9, <1>10, <1>11, <1>12, <1>13,
           <1>14, <1>15, <1>16, <1>17, <1>18, <1>19, <1>20, <1>21, <1>22, <1>23, <1>24, <1>25,
           <1>26, <1>27, <1>28, <1>29, <1>30, <1>31, <1>32, <1>33, <1>34, SplitNext DEF
           NextCases, Statement, Arrives

\* The statements that write each table, and what a step does to the history.
LEMMA ActorWrites ==
  ASSUME [Next]_vars
  PROVE  \/ actor' = actor
         \/ \E r \in Requests : CreateActor(r) \/ UndoActor(r) \/ BuryActor(r) \/ SuspendActor(r)
  BY SplitNext DEF NextCases, vars, tables, Register, CreateActor, CreateUser, IssueToken, Login,
       LoginChecksActor, CreateSession, SignedIn, DropExpired, AuthReadsUser, AuthReadsActor, Logout,
       RequestReset, Consume, VerifyEmail, SetPassword, InvalidateTokens, RevokeSessions, DeleteMe,
       Erase, DeleteTokens, SuspendReads, Approve, PutSettings, Audit, ReadSettings, ExpireSession,
       ExpireToken, Fails, Dropped

\* users.
LEMMA UserWrites ==
  ASSUME [Next]_vars
  PROVE  \/ user' = user
         \/ \E r \in Requests : \/ CreateUser(r) \/ VerifyEmail(r) \/ SetPassword(r)
                                \/ Erase(r) \/ Approve(r)
  BY SplitNext DEF NextCases, vars, tables, Register, CreateActor, UndoActor, IssueToken, Login,
       LoginChecksActor, CreateSession, SignedIn, DropExpired, AuthReadsUser, AuthReadsActor, Logout,
       RequestReset, Consume, InvalidateTokens, RevokeSessions, DeleteMe, BuryActor, DeleteTokens,
       SuspendReads, SuspendActor, PutSettings, Audit, ReadSettings, ExpireSession, ExpireToken,
       Fails, Dropped

\* sessions.
LEMMA SessionWrites ==
  ASSUME [Next]_vars
  PROVE  \/ session' = session
         \/ \E r \in Requests : CreateSession(r) \/ Logout(r) \/ RevokeSessions(r)
         \/ \E s \in Sessions : DropExpired(s) \/ ExpireSession(s)
  BY SplitNext DEF NextCases, vars, tables, Register, CreateActor, CreateUser, UndoActor, IssueToken,
       Login, LoginChecksActor, SignedIn, AuthReadsUser, AuthReadsActor, RequestReset, Consume,
       VerifyEmail, SetPassword, InvalidateTokens, DeleteMe, Erase, BuryActor, DeleteTokens,
       SuspendReads, SuspendActor, Approve, PutSettings, Audit, ReadSettings, ExpireToken, Fails,
       Dropped

\* email_tokens.
LEMMA TokenWrites ==
  ASSUME [Next]_vars
  PROVE  \/ token' = token /\ minted \subseteq minted'
         \/ \E r \in Requests : IssueToken(r) \/ InvalidateTokens(r) \/ DeleteTokens(r)
         \/ \E r \in Requests, t \in Tokens, k \in Kinds : Consume(r, t, k)
         \/ \E t \in Tokens : ExpireToken(t)
  BY SplitNext DEF NextCases, vars, tables, Register, CreateActor, CreateUser, UndoActor, Login,
       LoginChecksActor, CreateSession, SignedIn, DropExpired, AuthReadsUser, AuthReadsActor, Logout,
       RequestReset, VerifyEmail, SetPassword, RevokeSessions, DeleteMe, Erase, BuryActor,
       SuspendReads, SuspendActor, Approve, PutSettings, Audit, ReadSettings, ExpireSession, Fails,
       Dropped

\* The ids given out.
LEMMA MintedWrites ==
  ASSUME [Next]_vars
  PROVE  minted' = minted \/ \E r \in Requests : IssueToken(r) \/ CreateSession(r)
  BY SplitNext DEF NextCases, vars, tables, Register, CreateActor, CreateUser, UndoActor, Login,
       LoginChecksActor, SignedIn, DropExpired, AuthReadsUser, AuthReadsActor, Logout, RequestReset,
       Consume, VerifyEmail, SetPassword, InvalidateTokens, RevokeSessions, DeleteMe, Erase,
       BuryActor, DeleteTokens, SuspendReads, SuspendActor, Approve, PutSettings, Audit,
       ReadSettings, ExpireSession, ExpireToken, Fails, Dropped

\* settings and audit_log.
LEMMA AdminWrites ==
  ASSUME [Next]_vars
  PROVE  \/ mode' = mode /\ audit' = audit
         \/ \E r \in Requests, m \in Modes : PutSettings(r, m)
         \/ mode' = mode /\ \E r \in Requests : Audit(r) \/ ReadSettings(r)
  BY SplitNext DEF NextCases, vars, tables, Register, CreateActor, CreateUser, UndoActor, IssueToken,
       Login, LoginChecksActor, CreateSession, SignedIn, DropExpired, AuthReadsUser, AuthReadsActor,
       Logout, RequestReset, Consume, VerifyEmail, SetPassword, InvalidateTokens, RevokeSessions,
       DeleteMe, Erase, BuryActor, DeleteTokens, SuspendReads, SuspendActor, Approve, Audit,
       ReadSettings, ExpireSession, ExpireToken, Fails, Dropped

\* The history and the bounds.
LEMMA HistoryWrites ==
  ASSUME [Next]_vars
  PROVE  /\ \/ cut' = cut
            \/ \E r \in Requests, ph \in Owed : pc[r] # "idle" /\ cut' = cut \cup {<<op[r], ph, name[r]>>}
         /\ started' = started \/ (started < MaxRequests /\ started' = started + 1)
         /\ faults' = faults \/ (faults < MaxFaults /\ faults' = faults + 1)
<1>1. cut' = cut \/ \E r \in Requests, ph \in Owed : pc[r] # "idle" /\ cut' = cut \cup {<<op[r], ph, name[r]>>}
  <2>1. ASSUME NEW r \in Requests, Fails(r) \/ Dropped(r)
        PROVE  pc[r] # "idle" /\ (UNCHANGED cut \/ \E ph : Cuts(r, ph))
    BY <2>1 DEF Fails, Dropped
  <2>2. ASSUME NEW r \in Requests, NEW ph, Cuts(r, ph)
        PROVE  cut' = cut \/ (ph \in Owed /\ cut' = cut \cup {<<op[r], ph, name[r]>>})
    BY <2>2 DEF Cuts
  <2>3. \/ UNCHANGED vars \/ Frame \/ \E r, o, w, n, k, v, ph : Comes(r, o, w, n, k, v, ph)
        \/ (\E s \in Sessions : ExpireSession(s)) \/ (\E t \in Tokens : ExpireToken(t))
        \/ \E r \in Requests : Fails(r) \/ Dropped(r)
    BY SplitNext, Zenon DEF NextCases, Register, CreateActor, CreateUser, UndoActor, IssueToken, Login,
         LoginChecksActor, CreateSession, SignedIn, DropExpired, AuthReadsUser, AuthReadsActor, Logout,
         RequestReset, Consume, VerifyEmail, SetPassword, InvalidateTokens, RevokeSessions, DeleteMe,
         Erase, BuryActor, DeleteTokens, SuspendReads, SuspendActor, Approve, PutSettings, Audit,
         ReadSettings
  <2>4. UNCHANGED cut \/ \E r \in Requests : Fails(r) \/ Dropped(r)
    BY <2>3 DEF vars, Frame, Comes, ExpireSession, ExpireToken
  <2> QED BY <2>1, <2>2, <2>4
<1>2. UNCHANGED vars \/ Frame \/ Upset \/ \E r, o, w, n, k, v, ph : Comes(r, o, w, n, k, v, ph)
  BY SplitNext, Zenon DEF NextCases, Register, CreateActor, CreateUser, UndoActor, IssueToken, Login,
       LoginChecksActor, CreateSession, SignedIn, DropExpired, AuthReadsUser, AuthReadsActor, Logout,
       RequestReset, Consume, VerifyEmail, SetPassword, InvalidateTokens, RevokeSessions, DeleteMe,
       Erase, BuryActor, DeleteTokens, SuspendReads, SuspendActor, Approve, PutSettings, Audit,
       ReadSettings, ExpireSession, ExpireToken, Fails, Dropped
<1>3. UNCHANGED vars \/ Frame => started' = started /\ faults' = faults
  BY DEF vars, Frame
<1>4. Upset => started' = started /\ faults < MaxFaults /\ faults' = faults + 1
  BY DEF Upset
<1>5. ASSUME NEW r, NEW o, NEW w, NEW n, NEW k, NEW v, NEW ph, Comes(r, o, w, n, k, v, ph)
      PROVE  started < MaxRequests /\ started' = started + 1 /\ faults' = faults
  BY <1>5 DEF Comes
<1> QED BY <1>1, <1>2, <1>3, <1>4, <1>5

-----------------------------------------------------------------------------
(* Type correctness, table by table.                                       *)

\* An id is given out only once.
LEMMA UnusedNew ==
  ASSUME NEW S, S \ minted # {}
  PROVE  Unused(S) \in S /\ Unused(S) \notin minted
<1>1. \E i \in S : i \notin minted
  OBVIOUS
<1> QED BY <1>1 DEF Unused

\* The columns of actor.
LEMMA ActorType ==
  ASSUME TypeInv, [Next]_vars
  PROVE  actor' \in [Names -> SUBSET {"row", "suspended", "deleted"}]
<1> USE DEF TypeInv, TypeOK
<1>1. ASSUME NEW r \in Requests, CreateActor(r)
      PROVE actor' \in [Names -> SUBSET {"row", "suspended", "deleted"}]
  BY <1>1 DEF CreateActor
<1>2. ASSUME NEW r \in Requests, UndoActor(r)
      PROVE actor' \in [Names -> SUBSET {"row", "suspended", "deleted"}]
  BY <1>2 DEF UndoActor
<1>3. ASSUME NEW r \in Requests, BuryActor(r)
      PROVE actor' \in [Names -> SUBSET {"row", "suspended", "deleted"}]
  BY <1>3 DEF BuryActor
<1>4. ASSUME NEW r \in Requests, SuspendActor(r)
      PROVE actor' \in [Names -> SUBSET {"row", "suspended", "deleted"}]
  BY <1>4 DEF SuspendActor
<1> QED BY <1>1, <1>2, <1>3, <1>4, ActorWrites

\* The columns of users.
Users == [status : {"none", "pending", "active"}, email : Mails, hash : Hashes,
          admin : BOOLEAN, verified : BOOLEAN, deleted : BOOLEAN, applied : BOOLEAN]

\* What CreateUser inserts.
Inserts(r, u) ==
  /\ u.status = seen[r] /\ u.status \in {"active", "pending"}
  /\ u.hash = "registered" /\ u.deleted = FALSE /\ (u.applied => u.status = "pending")
  /\ user' = [user EXCEPT ![name[r]] = u] /\ name[r] \in Names
  /\ user'[name[r]] = u /\ \A n \in Names \ {name[r]} : user'[n] = user[n]

LEMMA CreateInserts ==
  ASSUME TypeInv, NEW r \in Requests, CreateUser(r)
  PROVE  \/ user' = user /\ Goes(r, "undoing")
         \/ \E u \in Users : Inserts(r, u)
<1>1. name[r] \in Names /\ key[r] \in Mails /\ seen[r] \in {"active", "pending"}
  BY DEF CreateUser, At, TypeInv, RequestsHold, Holds
<1> DEFINE u == [NoUser EXCEPT !.status = seen[r], !.email = key[r], !.hash = "registered",
                        !.applied = (seen[r] = "pending")]
<1>2. u \in Users
  BY <1>1 DEF Users, NoUser, Hashes
<1>3. u.status = seen[r] /\ u.hash = "registered" /\ u.deleted = FALSE /\ (u.applied => u.status = "pending")
  BY DEF NoUser
<1>4. (user' = user /\ Goes(r, "undoing")) \/ user' = [user EXCEPT ![name[r]] = u]
  BY DEF CreateUser, UserRefused
<1> HIDE DEF u
<1>5. ASSUME user' = [user EXCEPT ![name[r]] = u]
      PROVE user'[name[r]] = u /\ \A n \in Names \ {name[r]} : user'[n] = user[n]
  BY <1>1, <1>5 DEF TypeInv, TypeOK
<1>6. user' = [user EXCEPT ![name[r]] = u] => Inserts(r, u)
  BY <1>1, <1>3, <1>5 DEF Inserts
<1> QED BY <1>2, <1>4, <1>6

\* The users table keeps its type.
LEMMA UserType ==
  ASSUME TypeInv, [Next]_vars
  PROVE  user' \in [Names -> Users]
<1>0. user \in [Names -> Users] /\ \A n \in Names : user[n] \in Users
  BY DEF TypeInv, TypeOK, Users
<1>1. ASSUME NEW r \in Requests, CreateUser(r) PROVE user' \in [Names -> Users]
  BY <1>0, <1>1, CreateInserts DEF Inserts
<1>2. ASSUME NEW r \in Requests, VerifyEmail(r) PROVE user' \in [Names -> Users]
  BY <1>0, <1>2 DEF VerifyEmail, Users
<1>3. ASSUME NEW r \in Requests, SetPassword(r) PROVE user' \in [Names -> Users]
  <2>1. key[r] \in Hashes
    BY <1>3 DEF SetPassword, At, TypeInv, RequestsHold, Holds, Hashes
  <2> QED BY <1>0, <1>3, <2>1 DEF SetPassword, Users
<1>4. ASSUME NEW r \in Requests, Erase(r) PROVE user' \in [Names -> Users]
  <2> DEFINE u(n) == [user[n] EXCEPT !.deleted = TRUE, !.email = NoEmail, !.hash = "none", !.admin = FALSE]
  <2>1. name[r] \in Names
    BY <1>4 DEF Erase, At, TypeInv, RequestsHold, Holds
  <2>2. ASSUME NEW v \in Users
        PROVE [v EXCEPT !.deleted = TRUE, !.email = NoEmail, !.hash = "none", !.admin = FALSE] \in Users
    BY DEF Users, Mails, Hashes
  <2>3. user' = [user EXCEPT ![name[r]] = u(name[r])]
    BY <1>0, <1>4 DEF Erase
  <2>4. u(name[r]) \in Users
    BY <1>0, <2>1, <2>2
  <2> HIDE DEF u
  <2> QED BY <1>0, <2>3, <2>4
<1>5. ASSUME NEW r \in Requests, Approve(r) PROVE user' \in [Names -> Users]
  BY <1>0, <1>5 DEF Approve, Users
<1> QED BY <1>0, <1>1, <1>2, <1>3, <1>4, <1>5, UserWrites

\* The columns of sessions.
SessionRows == [owner : Names \cup {NoName}, hash : Hashes, expired : BOOLEAN, raced : BOOLEAN]

\* So does sessions.
LEMMA SessionType ==
  ASSUME TypeInv, [Next]_vars
  PROVE  session' \in [Sessions -> SessionRows]
<1>0. session \in [Sessions -> SessionRows] /\ NoSession \in SessionRows
  BY DEF TypeInv, TypeOK, SessionRows, NoSession, Hashes
<1>1. ASSUME NEW r \in Requests, CreateSession(r) PROVE session' \in [Sessions -> SessionRows]
  <2>1. name[r] \in Names /\ seen[r] \in Hashes
    BY <1>1 DEF CreateSession, At, TypeInv, RequestsHold, Holds
  <2>2. PICK u \in SessionRows, s \in Sessions : session' = [session EXCEPT ![s] = u]
    <3>1. (seen[r] # user[name[r]].hash \/ Barred(name[r])) \in BOOLEAN
      OBVIOUS
    <3>2. [owner |-> name[r], hash |-> seen[r], expired |-> FALSE,
           raced |-> seen[r] # user[name[r]].hash \/ Barred(name[r])] \in SessionRows
      BY <2>1, <3>1 DEF SessionRows
    <3> QED BY <1>1, <3>2, UnusedNew DEF CreateSession
  <2> QED BY <1>0, <2>2
<1>2. ASSUME NEW r \in Requests, Logout(r) PROVE session' \in [Sessions -> SessionRows]
  BY <1>0, <1>2 DEF Logout
<1>3. ASSUME NEW r \in Requests, RevokeSessions(r) PROVE session' \in [Sessions -> SessionRows]
  BY <1>0, <1>3 DEF RevokeSessions, Revoked
<1>4. ASSUME NEW s \in Sessions, DropExpired(s) PROVE session' \in [Sessions -> SessionRows]
  BY <1>0, <1>4 DEF DropExpired
<1>5. ASSUME NEW s \in Sessions, ExpireSession(s) PROVE session' \in [Sessions -> SessionRows]
  BY <1>0, <1>5 DEF ExpireSession, SessionRows
<1> QED BY <1>0, <1>1, <1>2, <1>3, <1>4, <1>5, SessionWrites

\* The columns of email_tokens.
TokenRows == [owner : Names \cup {NoName}, kind : Kinds, hash : Hashes,
              state : {"none", "fresh", "used", "expired"}, raced : BOOLEAN]
TokenTable == token \in [Tokens -> TokenRows] /\ TokensOwned

\* What IssueToken inserts.
LEMMA IssueInserts ==
  ASSUME TypeInv, NEW r \in Requests, IssueToken(r)
  PROVE  \E u \in TokenRows, t \in Tokens \ minted :
           /\ u.owner = name[r] /\ name[r] \in Names /\ u.state = "fresh" /\ u.hash = seen[r]
           /\ u.raced = (seen[r] # user[name[r]].hash \/ user[name[r]].deleted)
           /\ token' = [token EXCEPT ![t] = u] /\ minted' = minted \cup {t}
<1>1. name[r] \in Names /\ seen[r] \in Hashes
  BY DEF IssueToken, TypeInv, RequestsHold, Holds
<1> DEFINE u == [owner |-> name[r], kind |-> IF op[r] = "register" THEN "verify" ELSE "password_reset",
                 state |-> "fresh", hash |-> seen[r],
                 raced |-> seen[r] # user[name[r]].hash \/ user[name[r]].deleted]
<1>2. (seen[r] # user[name[r]].hash \/ user[name[r]].deleted) \in BOOLEAN
  OBVIOUS
<1>3. u \in TokenRows
  BY <1>1, <1>2 DEF TokenRows, Kinds
<1>4. Unused(Tokens) \in Tokens \ minted
  BY UnusedNew DEF IssueToken
<1>5. token' = [token EXCEPT ![Unused(Tokens)] = u] /\ minted' = minted \cup {Unused(Tokens)}
  BY DEF IssueToken
<1>6. /\ u.owner = name[r] /\ u.state = "fresh" /\ u.hash = seen[r]
      /\ u.raced = (seen[r] # user[name[r]].hash \/ user[name[r]].deleted)
  OBVIOUS
<1> HIDE DEF u
<1> QED BY <1>1, <1>3, <1>4, <1>5, <1>6, Zenon

\* So does email_tokens.
LEMMA TokenType ==
  ASSUME TypeInv, [Next]_vars
  PROVE  TokenTable'
<1>0. TokenTable /\ NoToken \in TokenRows
  BY DEF TypeInv, TypeOK, TokenTable, TokenRows, NoToken, Hashes, Kinds
<1> USE DEF TokenTable, TokensOwned
<1>1. ASSUME NEW r \in Requests, IssueToken(r) PROVE TokenTable'
  BY <1>0, <1>1, IssueInserts
<1>2. ASSUME NEW r \in Requests, InvalidateTokens(r) PROVE TokenTable'
  BY <1>0, <1>2 DEF InvalidateTokens, Invalidated, TokenRows
<1>3. ASSUME NEW r \in Requests, DeleteTokens(r) PROVE TokenTable'
  BY <1>0, <1>3 DEF DeleteTokens, NoToken
<1>4. ASSUME NEW r \in Requests, NEW t \in Tokens, NEW k \in Kinds, Consume(r, t, k) PROVE TokenTable'
  BY <1>0, <1>4 DEF Consume, Usable, TokenRows
<1>5. ASSUME NEW t \in Tokens, ExpireToken(t) PROVE TokenTable'
  BY <1>0, <1>5 DEF ExpireToken, TokenRows
<1> QED BY <1>0, <1>1, <1>2, <1>3, <1>4, <1>5, TokenWrites

\* The ids given out, the setting, the log and the history.
LEMMA RestType ==
  ASSUME TypeInv, [Next]_vars
  PROVE  /\ minted' \subseteq Sessions \cup Tokens /\ mode' \in Modes
         /\ audit' \subseteq (AdminOps \cup {"attempted", "read"}) \X (Names \cup Modes)
         /\ cut' \subseteq Ops \X Owed \X Names
         /\ started' \in 0..MaxRequests /\ faults' \in 0..MaxFaults
<1> USE DEF TypeInv, TypeOK
<1>1. minted' \subseteq Sessions \cup Tokens
  <2>1. ASSUME NEW r \in Requests, IssueToken(r) PROVE minted' \subseteq Sessions \cup Tokens
    BY <2>1, IssueInserts
  <2>2. ASSUME NEW r \in Requests, CreateSession(r) PROVE minted' \subseteq Sessions \cup Tokens
    BY <2>2, UnusedNew DEF CreateSession
  <2> QED BY <2>1, <2>2, MintedWrites
<1>2. mode' \in Modes
  BY AdminWrites DEF PutSettings
<1>3. audit' \subseteq (AdminOps \cup {"attempted", "read"}) \X (Names \cup Modes)
  <2>1. ASSUME NEW r \in Requests, Audit(r)
        PROVE audit' \subseteq (AdminOps \cup {"attempted", "read"}) \X (Names \cup Modes)
    <3>1. name[r] \in Names /\ (At(r, "settings", "auditing") => seen[r] \in Modes)
      BY <2>1 DEF Audit, RequestsHold, Holds
    <3> QED BY <2>1, <3>1 DEF Audit, At
  <2>2. ASSUME NEW r \in Requests, ReadSettings(r)
        PROVE audit' \subseteq (AdminOps \cup {"attempted", "read"}) \X (Names \cup Modes)
    <3>1. name[r] \in Names
      BY <2>2 DEF ReadSettings, At, RequestsHold, Holds
    <3> QED BY <2>2, <3>1 DEF ReadSettings
  <2> QED BY <2>1, <2>2, AdminWrites DEF PutSettings
<1>4. cut' \subseteq Ops \X Owed \X Names
  <2>1. \A r \in Requests, ph \in Owed : pc[r] # "idle" => <<op[r], ph, name[r]>> \in Ops \X Owed \X Names
    BY DEF RequestsHold, Holds
  <2> QED BY <2>1, HistoryWrites
<1>5. started' \in 0..MaxRequests
  BY HistoryWrites, ConstantAssumption
<1>6. faults' \in 0..MaxFaults
  BY HistoryWrites, ConstantAssumption
<1> QED BY <1>1, <1>2, <1>3, <1>4, <1>5, <1>6

\* What the requests that do not move hold.
Same(q) ==
  /\ op'[q] = op[q] /\ pc'[q] = pc[q] /\ who'[q] = who[q] /\ name'[q] = name[q]
  /\ key'[q] = key[q] /\ seen'[q] = seen[q] /\ late'[q] = late[q]

\* A request that moves leaves the others as they are.
LEMMA OthersSame ==
  ASSUME TypeOK, NEW r \in Requests, Moves(r), NEW q \in Requests, q # r
  PROVE  Same(q)
<1> USE DEF TypeOK, Same
<1>1. CASE \E o \in Ops, w \in Names \cup {NoName}, n \in Names,
              k \in Sessions \cup Tokens \cup Mails \cup {NoKey},
              v \in Hashes \cup {"active", "pending"}, ph \in Phases, l \in BOOLEAN :
             Comes(r, o, w, n, k, v, ph) /\ late' = [late EXCEPT ![r] = l]
  BY <1>1 DEF Comes
<1>2. CASE \E ph \in Phases : Goes(r, ph)
  BY <1>2 DEF Goes
<1>3. CASE \E v \in Hashes \cup Modes, ph \in Phases : Reads(r, v, ph)
  BY <1>3 DEF Reads
<1>4. CASE Done(r)
  BY <1>4 DEF Done
<1>5. QED
  BY <1>1, <1>2, <1>3, <1>4 DEF Moves

\* A request moves by its own statements only.
LEMMA OwnStatements ==
  ASSUME TypeInv, [Next]_vars, NEW q \in Requests
  PROVE  Same(q) \/ Statement(q)
<1>1. CASE UNCHANGED request
  BY <1>1 DEF request, Same
<1>2. ASSUME NEW r \in Requests, Moves(r), Statement(r) PROVE Same(q) \/ Statement(q)
  BY <1>2, OthersSame DEF TypeInv
<1> QED BY <1>1, <1>2, RequestStep

\* Every step moves at most one request and leaves it with what its next
\* statement needs.
LEMMA HoldsStep ==
  ASSUME TypeInv, [Next]_vars, NEW q \in Requests
  PROVE  Holds(q)'
<1> USE DEF TypeInv, TypeOK, RequestsHold, Holds, At
<1>1. ASSUME NEW r \in Requests, NEW n \in Names, NEW e \in Mails, Register(r, n, e) PROVE Holds(q)'
  BY <1>1 DEF Register, Goes, Done, Comes, Reads
<1>2. ASSUME NEW r \in Requests, CreateActor(r) PROVE Holds(q)'
  BY <1>2 DEF CreateActor, Goes, Done, Comes, Reads
<1>3. ASSUME NEW r \in Requests, CreateUser(r) PROVE Holds(q)'
  <2>1. "registered" \in Hashes
    BY DEF Hashes
  <2> QED BY <1>3, <2>1 DEF CreateUser, UserRefused, Goes, Done, Reads
<1>4. ASSUME NEW r \in Requests, UndoActor(r) PROVE Holds(q)'
  BY <1>4 DEF UndoActor, Goes, Done, Comes, Reads
<1>5. ASSUME NEW r \in Requests, IssueToken(r) PROVE Holds(q)'
  BY <1>5 DEF IssueToken, Goes, Done, Comes, Reads
<1>6. ASSUME NEW r \in Requests, NEW n \in Names, Login(r, n) PROVE Holds(q)'
  BY <1>6 DEF Login, Goes, Done, Comes, Reads
<1>7. ASSUME NEW r \in Requests, LoginChecksActor(r) PROVE Holds(q)'
  BY <1>7 DEF LoginChecksActor, Goes, Done, Comes, Reads
<1>8. ASSUME NEW r \in Requests, CreateSession(r) PROVE Holds(q)'
  BY <1>8 DEF CreateSession, Goes, Done, Comes, Reads
<1>9. ASSUME NEW r \in Requests, NEW s \in Sessions, NEW o \in AuthOps, NEW n \in Names, SignedIn(r, s, o, n)
      PROVE Holds(q)'
  BY <1>9 DEF SignedIn, Goes, Done, Comes, Reads
<1>10. ASSUME NEW s \in Sessions, DropExpired(s) PROVE Holds(q)'
  BY <1>10 DEF DropExpired, request
<1>11. ASSUME NEW r \in Requests, AuthReadsUser(r) PROVE Holds(q)'
  BY <1>11 DEF AuthReadsUser, Goes, Done, Comes, Reads
<1>12. ASSUME NEW r \in Requests, AuthReadsActor(r) PROVE Holds(q)'
  BY <1>12 DEF AuthReadsActor, Goes, Done, Comes, Reads
<1>13. ASSUME NEW r \in Requests, Logout(r) PROVE Holds(q)'
  BY <1>13 DEF Logout, Goes, Done, Comes, Reads
<1>14. ASSUME NEW r \in Requests, NEW n \in Names, RequestReset(r, n) PROVE Holds(q)'
  BY <1>14 DEF RequestReset, Goes, Done, Comes, Reads
<1>15. ASSUME NEW r \in Requests, NEW t \in Tokens, NEW k \in Kinds, Consume(r, t, k) PROVE Holds(q)'
  BY <1>15 DEF Consume, Usable, TokensOwned, Goes, Done, Comes, Reads
<1>16. ASSUME NEW r \in Requests, VerifyEmail(r) PROVE Holds(q)'
  BY <1>16 DEF VerifyEmail, Goes, Done, Comes, Reads
<1>17. ASSUME NEW r \in Requests, SetPassword(r) PROVE Holds(q)'
  BY <1>17 DEF SetPassword, Goes, Done, Comes, Reads
<1>18. ASSUME NEW r \in Requests, InvalidateTokens(r) PROVE Holds(q)'
  BY <1>18 DEF InvalidateTokens, Goes, Done, Comes, Reads
<1>19. ASSUME NEW r \in Requests, RevokeSessions(r) PROVE Holds(q)'
  BY <1>19 DEF RevokeSessions, AfterRevoking, Goes, Done, Comes, Reads
<1>20. ASSUME NEW r \in Requests, DeleteMe(r) PROVE Holds(q)'
  BY <1>20 DEF DeleteMe, Goes, Done, Comes, Reads
<1>21. ASSUME NEW r \in Requests, Erase(r) PROVE Holds(q)'
  BY <1>21 DEF Erase, Goes, Done, Comes, Reads
<1>22. ASSUME NEW r \in Requests, BuryActor(r) PROVE Holds(q)'
  BY <1>22 DEF BuryActor, Goes, Done, Comes, Reads
<1>23. ASSUME NEW r \in Requests, DeleteTokens(r) PROVE Holds(q)'
  BY <1>23 DEF DeleteTokens, Goes, Done, Comes, Reads
<1>24. ASSUME NEW r \in Requests, SuspendReads(r) PROVE Holds(q)'
  BY <1>24 DEF SuspendReads, Goes, Done, Comes, Reads
<1>25. ASSUME NEW r \in Requests, SuspendActor(r) PROVE Holds(q)'
  BY <1>25 DEF SuspendActor, Goes, Done, Comes, Reads
<1>26. ASSUME NEW r \in Requests, Approve(r) PROVE Holds(q)'
  BY <1>26 DEF Approve, Goes, Done, Comes, Reads
<1>27. ASSUME NEW r \in Requests, NEW m \in Modes, PutSettings(r, m) PROVE Holds(q)'
  BY <1>27 DEF PutSettings, Goes, Done, Comes, Reads
<1>28. ASSUME NEW r \in Requests, Audit(r) PROVE Holds(q)'
  BY <1>28 DEF Audit, AdminOps, Goes, Done, Comes, Reads
<1>29. ASSUME NEW r \in Requests, ReadSettings(r) PROVE Holds(q)'
  BY <1>29 DEF ReadSettings, Goes, Done, Comes, Reads
<1>30. ASSUME NEW s \in Sessions, ExpireSession(s) PROVE Holds(q)'
  BY <1>30 DEF ExpireSession, request
<1>31. ASSUME NEW t \in Tokens, ExpireToken(t) PROVE Holds(q)'
  BY <1>31 DEF ExpireToken, request
<1>32. ASSUME NEW r \in Requests, Fails(r) PROVE Holds(q)'
  BY <1>32 DEF Fails, UserRefused, Unrevoked, AdminOps, Goes, Done, Comes, Reads
<1>33. ASSUME NEW r \in Requests, Dropped(r) PROVE Holds(q)'
  BY <1>33 DEF Dropped, Goes, Done, Comes, Reads
<1>34. CASE UNCHANGED vars
  BY <1>34 DEF vars, request
<1> QED BY <1>1, <1>2, <1>3, <1>4, <1>5, <1>6, <1>7, <1>8, <1>9, <1>10, <1>11, <1>12, <1>13,
           <1>14, <1>15, <1>16, <1>17, <1>18, <1>19, <1>20, <1>21, <1>22, <1>23, <1>24, <1>25,
           <1>26, <1>27, <1>28, <1>29, <1>30, <1>31, <1>32, <1>33, <1>34, SplitNext DEF
           NextCases

\* Every step keeps the types.
LEMMA TypeStep ==
  ASSUME TypeInv, [Next]_vars
  PROVE  TypeInv'
<1>1. /\ op' \in [Requests -> Ops] /\ pc' \in [Requests -> Phases]
      /\ who' \in [Requests -> Names \cup {NoName}] /\ name' \in [Requests -> Names \cup {NoName}]
      /\ key' \in [Requests -> Sessions \cup Tokens \cup Mails \cup {NoKey}]
      /\ seen' \in [Requests -> Hashes \cup Modes \cup {"active", "pending"}]
      /\ late' \in [Requests -> BOOLEAN]
  <2>1. CASE UNCHANGED request
    BY <2>1 DEF request, TypeInv, TypeOK
  <2> QED BY <2>1, RequestStep, MovesType DEF TypeInv
<1>2. TypeOK'
  BY <1>1, ActorType, UserType, SessionType, TokenType, RestType
     DEF TypeOK, Users, SessionRows, TokenRows, TokenTable
<1> QED BY <1>2, HoldsStep, TokenType DEF TypeInv, RequestsHold, TokenTable

\* The types hold after `toottok create-admin`.
LEMMA TypeInit ==
  ASSUME Init
  PROVE  TypeInv
<1>1. actor \in [Names -> SUBSET {"row", "suspended", "deleted"}]
  BY DEF Init
<1>2. user \in [Names -> Users]
  BY DEF Init, Users, NoUser, Mails, Hashes
<1>3. session \in [Sessions -> SessionRows] /\ token \in [Tokens -> TokenRows]
  BY DEF Init, NoSession, NoToken, SessionRows, TokenRows, Hashes, Kinds
<1>4. TypeOK
  BY <1>1, <1>2, <1>3, ConstantAssumption
     DEF Init, TypeOK, Users, SessionRows, TokenRows, Ops, Phases, Hashes, Modes
<1>5. RequestsHold /\ TokensOwned
  BY DEF Init, RequestsHold, Holds, At, TokensOwned, NoToken
<1> QED BY <1>4, <1>5 DEF TypeInv

\* Every column and every variable of a handler holds a value of its type, and
\* a request has in hand what its statement needs.
THEOREM TypeCorrect == Spec => [](TypeOK /\ TypeInv)
<1>1. TypeInv => TypeOK
  BY DEF TypeInv
<1> QED BY <1>1, TypeInit, TypeStep, PTL DEF Spec

-----------------------------------------------------------------------------
(* Email tokens are spent once.                                            *)

\* An id that was not given out is in nobody's hands and on no record.
Unminted ==
  \A t \in Tokens \ minted :
    token[t].state = "none" /\ (\A r \in Requests : key[r] # t) /\ (\A n \in Names : user[n].hash # t)

SpentInv == TypeInv /\ TokenSpentOnce /\ Unminted

\* Only Consume puts a token into the hands of a request.
LEMMA KeyStep ==
  ASSUME TypeInv, [Next]_vars, NEW q \in Requests
  PROVE  \/ \E r \in Requests, t \in Tokens, k \in Kinds : Consume(r, t, k)
         \/ key'[q] = key[q]
         \/ key'[q] \notin Tokens
<1> USE ConstantAssumption DEF TypeInv, TypeOK, Mails, Goes, Done, Comes, Reads
<1> SUFFICES ASSUME ~ \E r \in Requests, t \in Tokens, k \in Kinds : Consume(r, t, k)
             PROVE  key'[q] = key[q] \/ key'[q] \notin Tokens
  OBVIOUS
<1>1. ASSUME NEW r \in Requests, NEW n \in Names, NEW e \in Mails, Register(r, n, e)
      PROVE key'[q] = key[q] \/ key'[q] \notin Tokens
  BY <1>1 DEF Register
<1>2. ASSUME NEW r \in Requests, CreateActor(r) PROVE key'[q] = key[q] \/ key'[q] \notin Tokens
  BY <1>2 DEF CreateActor
<1>3. ASSUME NEW r \in Requests, CreateUser(r) PROVE key'[q] = key[q] \/ key'[q] \notin Tokens
  BY <1>3 DEF CreateUser, UserRefused
<1>4. ASSUME NEW r \in Requests, UndoActor(r) PROVE key'[q] = key[q] \/ key'[q] \notin Tokens
  BY <1>4 DEF UndoActor
<1>5. ASSUME NEW r \in Requests, IssueToken(r) PROVE key'[q] = key[q] \/ key'[q] \notin Tokens
  BY <1>5 DEF IssueToken
<1>6. ASSUME NEW r \in Requests, NEW n \in Names, Login(r, n)
      PROVE key'[q] = key[q] \/ key'[q] \notin Tokens
  BY <1>6 DEF Login
<1>7. ASSUME NEW r \in Requests, LoginChecksActor(r) PROVE key'[q] = key[q] \/ key'[q] \notin Tokens
  BY <1>7 DEF LoginChecksActor
<1>8. ASSUME NEW r \in Requests, CreateSession(r) PROVE key'[q] = key[q] \/ key'[q] \notin Tokens
  BY <1>8 DEF CreateSession
<1>9. ASSUME NEW r \in Requests, NEW s \in Sessions, NEW o \in AuthOps, NEW n \in Names, SignedIn(r, s, o, n)
      PROVE key'[q] = key[q] \/ key'[q] \notin Tokens
  BY <1>9 DEF SignedIn
<1>10. ASSUME NEW s \in Sessions, DropExpired(s) PROVE key'[q] = key[q] \/ key'[q] \notin Tokens
  BY <1>10 DEF DropExpired, request
<1>11. ASSUME NEW r \in Requests, AuthReadsUser(r) PROVE key'[q] = key[q] \/ key'[q] \notin Tokens
  BY <1>11 DEF AuthReadsUser
<1>12. ASSUME NEW r \in Requests, AuthReadsActor(r) PROVE key'[q] = key[q] \/ key'[q] \notin Tokens
  BY <1>12 DEF AuthReadsActor
<1>13. ASSUME NEW r \in Requests, Logout(r) PROVE key'[q] = key[q] \/ key'[q] \notin Tokens
  BY <1>13 DEF Logout
<1>14. ASSUME NEW r \in Requests, NEW n \in Names, RequestReset(r, n)
       PROVE key'[q] = key[q] \/ key'[q] \notin Tokens
  BY <1>14 DEF RequestReset
<1>15. ASSUME NEW r \in Requests, VerifyEmail(r) PROVE key'[q] = key[q] \/ key'[q] \notin Tokens
  BY <1>15 DEF VerifyEmail
<1>16. ASSUME NEW r \in Requests, SetPassword(r) PROVE key'[q] = key[q] \/ key'[q] \notin Tokens
  BY <1>16 DEF SetPassword
<1>17. ASSUME NEW r \in Requests, InvalidateTokens(r) PROVE key'[q] = key[q] \/ key'[q] \notin Tokens
  BY <1>17 DEF InvalidateTokens
<1>18. ASSUME NEW r \in Requests, RevokeSessions(r) PROVE key'[q] = key[q] \/ key'[q] \notin Tokens
  BY <1>18 DEF RevokeSessions, AfterRevoking
<1>19. ASSUME NEW r \in Requests, DeleteMe(r) PROVE key'[q] = key[q] \/ key'[q] \notin Tokens
  BY <1>19 DEF DeleteMe
<1>20. ASSUME NEW r \in Requests, Erase(r) PROVE key'[q] = key[q] \/ key'[q] \notin Tokens
  BY <1>20 DEF Erase
<1>21. ASSUME NEW r \in Requests, BuryActor(r) PROVE key'[q] = key[q] \/ key'[q] \notin Tokens
  BY <1>21 DEF BuryActor
<1>22. ASSUME NEW r \in Requests, DeleteTokens(r) PROVE key'[q] = key[q] \/ key'[q] \notin Tokens
  BY <1>22 DEF DeleteTokens
<1>23. ASSUME NEW r \in Requests, SuspendReads(r) PROVE key'[q] = key[q] \/ key'[q] \notin Tokens
  BY <1>23 DEF SuspendReads
<1>24. ASSUME NEW r \in Requests, SuspendActor(r) PROVE key'[q] = key[q] \/ key'[q] \notin Tokens
  BY <1>24 DEF SuspendActor
<1>25. ASSUME NEW r \in Requests, Approve(r) PROVE key'[q] = key[q] \/ key'[q] \notin Tokens
  BY <1>25 DEF Approve
<1>26. ASSUME NEW r \in Requests, NEW m \in Modes, PutSettings(r, m)
       PROVE key'[q] = key[q] \/ key'[q] \notin Tokens
  BY <1>26 DEF PutSettings
<1>27. ASSUME NEW r \in Requests, Audit(r) PROVE key'[q] = key[q] \/ key'[q] \notin Tokens
  BY <1>27 DEF Audit
<1>28. ASSUME NEW r \in Requests, ReadSettings(r) PROVE key'[q] = key[q] \/ key'[q] \notin Tokens
  BY <1>28 DEF ReadSettings
<1>29. ASSUME NEW s \in Sessions, ExpireSession(s) PROVE key'[q] = key[q] \/ key'[q] \notin Tokens
  BY <1>29 DEF ExpireSession, request
<1>30. ASSUME NEW t \in Tokens, ExpireToken(t) PROVE key'[q] = key[q] \/ key'[q] \notin Tokens
  BY <1>30 DEF ExpireToken, request
<1>31. ASSUME NEW r \in Requests, Fails(r) PROVE key'[q] = key[q] \/ key'[q] \notin Tokens
  BY <1>31 DEF Fails, UserRefused, Unrevoked
<1>32. ASSUME NEW r \in Requests, Dropped(r) PROVE key'[q] = key[q] \/ key'[q] \notin Tokens
  BY <1>32 DEF Dropped
<1>33. CASE UNCHANGED vars
  BY <1>33 DEF vars, request
<1> QED BY <1>1, <1>2, <1>3, <1>4, <1>5, <1>6, <1>7, <1>8, <1>9, <1>10, <1>11, <1>12, <1>13,
           <1>14, <1>15, <1>16, <1>17, <1>18, <1>19, <1>20, <1>21, <1>22, <1>23, <1>24, <1>25,
           <1>26, <1>27, <1>28, <1>29, <1>30, <1>31, <1>32, <1>33, SplitNext DEF NextCases

\* Only SetPassword puts a token on record.
LEMMA HashStep ==
  ASSUME TypeInv, [Next]_vars, NEW n \in Names
  PROVE  \/ user'[n].hash = user[n].hash \/ user'[n].hash \notin Tokens
         \/ \E r \in Requests : SetPassword(r) /\ user'[n].hash = key[r]
<1>0. user \in [Names -> Users] /\ "none" \notin Tokens /\ "registered" \notin Tokens
  BY ConstantAssumption DEF TypeInv, TypeOK, Users
<1>1. ASSUME NEW r \in Requests, CreateUser(r)
      PROVE user'[n].hash = user[n].hash \/ user'[n].hash \notin Tokens
  <2>1. CASE user' = user
    BY <2>1
  <2>2. ASSUME NEW u \in Users, u.hash = "registered", user'[name[r]] = u,
               \A m \in Names \ {name[r]} : user'[m] = user[m]
        PROVE user'[n].hash = user[n].hash \/ user'[n].hash \notin Tokens
    BY <1>0, <2>2
  <2> QED BY <1>1, <2>1, <2>2, CreateInserts DEF Inserts
<1>2. ASSUME NEW r \in Requests, VerifyEmail(r) PROVE user'[n].hash = user[n].hash
  BY <1>0, <1>2 DEF VerifyEmail, Users
<1>3. ASSUME NEW r \in Requests, SetPassword(r)
      PROVE user'[n].hash = user[n].hash \/ user'[n].hash = key[r]
  BY <1>0, <1>3 DEF SetPassword, Users
<1>4. ASSUME NEW r \in Requests, Erase(r)
      PROVE user'[n].hash = user[n].hash \/ user'[n].hash \notin Tokens
  BY <1>0, <1>4 DEF Erase, Users
<1>5. ASSUME NEW r \in Requests, Approve(r) PROVE user'[n].hash = user[n].hash
  BY <1>0, <1>5 DEF Approve, Users
<1> QED BY <1>1, <1>2, <1>3, <1>4, <1>5, UserWrites

\* A token is usable, or out of time, only if it was or is given out now.
LEMMA LiveStep ==
  ASSUME TypeInv, [Next]_vars, NEW t \in Tokens
  PROVE  /\ token'[t].state \in {"fresh", "expired"} =>
              token[t].state \in {"fresh", "expired"} \/ t \notin minted
         /\ token'[t].state # "none" => token[t].state # "none" \/ t \in minted'
<1> DEFINE Live == /\ token'[t].state \in {"fresh", "expired"} =>
                        token[t].state \in {"fresh", "expired"} \/ t \notin minted
                   /\ token'[t].state # "none" => token[t].state # "none" \/ t \in minted'
<1> USE DEF TypeInv, TypeOK
<1>1. ASSUME NEW r \in Requests, IssueToken(r) PROVE Live
  BY <1>1, IssueInserts
<1>2. ASSUME NEW r \in Requests, InvalidateTokens(r) PROVE Live
  BY <1>2 DEF InvalidateTokens, Invalidated
<1>3. ASSUME NEW r \in Requests, DeleteTokens(r) PROVE Live
  BY <1>3 DEF DeleteTokens, NoToken
<1>4. ASSUME NEW r \in Requests, NEW u \in Tokens, NEW k \in Kinds, Consume(r, u, k) PROVE Live
  BY <1>4 DEF Consume, Usable
<1>5. ASSUME NEW u \in Tokens, ExpireToken(u) PROVE Live
  BY <1>5 DEF ExpireToken
<1> QED BY <1>1, <1>2, <1>3, <1>4, <1>5, TokenWrites

\* What was given out stays given out.
LEMMA MintedGrows ==
  ASSUME [Next]_vars
  PROVE  minted \subseteq minted'
  BY MintedWrites DEF IssueToken, CreateSession

\* Every step keeps tokens single-use.
LEMMA SpentStep ==
  ASSUME SpentInv, [Next]_vars
  PROVE  TokenSpentOnce' /\ Unminted'
<1> USE DEF SpentInv
<1>1. CASE \E r \in Requests, t \in Tokens, k \in Kinds : Consume(r, t, k)
  <2>1. PICK r \in Requests, t \in Tokens, k \in Kinds : Consume(r, t, k)
    BY <1>1
  <2>2. /\ token[t].state = "fresh" /\ token' = [token EXCEPT ![t].state = "used"]
        /\ key' = [key EXCEPT ![r] = t] /\ user' = user /\ minted' = minted
    BY <2>1 DEF Consume, Usable, Comes
  <2>3. t \in minted
    BY <2>2 DEF Unminted
  <2> QED BY <2>2, <2>3 DEF TypeInv, TypeOK, TokenSpentOnce, Unminted
<1>2. CASE \A q \in Requests : key'[q] = key[q] \/ key'[q] \notin Tokens
  <2>1. \A t \in Tokens, n \in Names : user'[n].hash = t =>
          user[n].hash = t \/ \E r \in Requests : key[r] = t
    BY HashStep
  <2>2. \A t \in Tokens : token'[t].state \in {"fresh", "expired"} =>
          (\A r \in Requests : key[r] # t) /\ (\A n \in Names : user[n].hash # t)
    BY LiveStep DEF TokenSpentOnce, Unminted
  <2>3. TokenSpentOnce'
    BY <1>2, <2>1, <2>2 DEF TokenSpentOnce
  <2>4. Unminted'
    BY <1>2, <2>1, MintedGrows, LiveStep DEF Unminted
  <2> QED BY <2>3, <2>4
<1> QED BY <1>1, <1>2, KeyStep

\* An email token is acted on once: no two requests hold it, and the token of a
\* request or of the password on record cannot be consumed again.
THEOREM TokensSpentOnce == Spec => []TokenSpentOnce
<1>1. Init => SpentInv
  <2>1. ASSUME Init PROVE TokenSpentOnce /\ Unminted
    BY <2>1, ConstantAssumption DEF Init, TokenSpentOnce, Unminted, NoToken, NoUser
  <2> QED BY <2>1, TypeInit DEF SpentInv
<1>2. SpentInv /\ [Next]_vars => SpentInv'
  BY SpentStep, TypeStep DEF SpentInv
<1>3. SpentInv => TokenSpentOnce
  BY DEF SpentInv
<1> QED BY <1>1, <1>2, <1>3, PTL DEF Spec

\* The statements by which a request leaves the place where it stands.
LEMMA Leaves ==
  ASSUME NEW q \in Requests, Statement(q), pc[q] # "idle"
  PROVE  \/ Fails(q) \/ Dropped(q)
         \/ At(q, "register", "creating") /\ CreateActor(q)
         \/ At(q, "register", "joining") /\ CreateUser(q)
         \/ At(q, "register", "undoing") /\ UndoActor(q)
         \/ op[q] \in {"register", "forgot"} /\ pc[q] = "mailing" /\ IssueToken(q)
         \/ At(q, "login", "checking") /\ LoginChecksActor(q)
         \/ At(q, "login", "opening") /\ CreateSession(q)
         \/ pc[q] = "user" /\ AuthReadsUser(q)
         \/ pc[q] = "actor" /\ AuthReadsActor(q)
         \/ pc[q] = "serving" /\ \/ Logout(q) \/ DeleteMe(q) \/ SuspendReads(q) \/ Approve(q)
                                 \/ \E m \in Modes : PutSettings(q, m)
         \/ At(q, "verify", "verifying") /\ VerifyEmail(q)
         \/ At(q, "reset", "writing") /\ SetPassword(q)
         \/ At(q, "reset", "invalidating") /\ InvalidateTokens(q)
         \/ pc[q] = "revoking" /\ RevokeSessions(q)
         \/ At(q, "delete", "erasing") /\ Erase(q)
         \/ At(q, "delete", "burying") /\ BuryActor(q)
         \/ At(q, "delete", "unlinking") /\ DeleteTokens(q)
         \/ At(q, "suspend", "suspending") /\ SuspendActor(q)
         \/ op[q] \in AdminOps /\ pc[q] \in {"auditing", "attempted"} /\ Audit(q)
         \/ At(q, "settings", "reading") /\ ReadSettings(q)
<1>1. ~Arrives(q)
  BY DEF Arrives, Login, RequestReset, Register, SignedIn, Consume, Comes
<1>2. /\ CreateActor(q) => At(q, "register", "creating")
      /\ CreateUser(q) => At(q, "register", "joining")
      /\ UndoActor(q) => At(q, "register", "undoing")
      /\ IssueToken(q) => op[q] \in {"register", "forgot"} /\ pc[q] = "mailing"
      /\ LoginChecksActor(q) => At(q, "login", "checking")
      /\ CreateSession(q) => At(q, "login", "opening")
      /\ AuthReadsUser(q) => pc[q] = "user"
      /\ AuthReadsActor(q) => pc[q] = "actor"
  BY DEF CreateActor, CreateUser, UndoActor, IssueToken, LoginChecksActor, CreateSession,
       AuthReadsUser, AuthReadsActor
<1>3. Logout(q) \/ DeleteMe(q) \/ SuspendReads(q) \/ Approve(q) \/ (\E m \in Modes : PutSettings(q, m))
        => pc[q] = "serving"
  BY DEF Logout, DeleteMe, SuspendReads, Approve, PutSettings, At
<1>4. /\ VerifyEmail(q) => At(q, "verify", "verifying")
      /\ SetPassword(q) => At(q, "reset", "writing")
      /\ InvalidateTokens(q) => At(q, "reset", "invalidating")
      /\ RevokeSessions(q) => pc[q] = "revoking"
      /\ Erase(q) => At(q, "delete", "erasing")
      /\ BuryActor(q) => At(q, "delete", "burying")
      /\ DeleteTokens(q) => At(q, "delete", "unlinking")
      /\ SuspendActor(q) => At(q, "suspend", "suspending")
      /\ Audit(q) => op[q] \in AdminOps /\ pc[q] \in {"auditing", "attempted"}
      /\ ReadSettings(q) => At(q, "settings", "reading")
  BY DEF VerifyEmail, SetPassword, InvalidateTokens, RevokeSessions, Erase, BuryActor, DeleteTokens,
       SuspendActor, Audit, ReadSettings
<1> QED BY <1>1, <1>2, <1>3, <1>4, Zenon DEF Statement

-----------------------------------------------------------------------------
(* Orphaned actors.                                                        *)

\* A registration between Actor::create and its end.
Registers(r) == op[r] = "register" /\ pc[r] \in {"joining", "undoing"}

\* It stays so until the user is there, the actor is gone, or it is cut.
LEMMA RegistersStep ==
  ASSUME TypeInv, [Next]_vars, NEW q \in Requests, Registers(q)
  PROVE  \/ Registers(q)' /\ name'[q] = name[q]
         \/ user'[name[q]].status # "none" \/ "row" \notin actor'[name[q]]
         \/ \E ph \in {"joining", "undoing"} : <<"register", ph, name[q]>> \in cut'
<1>1. CASE Same(q)
  BY <1>1 DEF Same, Registers
<1>2. CASE Statement(q)
  <2>0. name[q] \in Names /\ (pc[q] = "joining" => seen[q] \in {"active", "pending"})
    BY DEF Registers, TypeInv, RequestsHold, Holds
  <2>1. Fails(q) \/ Dropped(q) \/ CreateUser(q) \/ UndoActor(q)
    BY <1>2, Leaves DEF Registers, At, AdminOps
  <2>2. CASE Fails(q)
    BY <2>2 DEF Fails, Registers, At, UserRefused, AdminOps, Cuts, Owed, CutAt, Goes, TypeInv, TypeOK
  <2>3. CASE Dropped(q)
    BY <2>3 DEF Dropped, Cuts, Owed, CutAt, Registers
  <2>4. CASE CreateUser(q)
    BY <2>4, CreateInserts DEF Inserts, Goes, Registers, TypeInv, TypeOK
  <2>5. CASE UndoActor(q)
    BY <2>0, <2>5 DEF UndoActor, TypeInv, TypeOK
  <2> QED BY <2>1, <2>2, <2>3, <2>4, <2>5
<1> QED BY <1>1, <1>2, OwnStatements

\* The history of cut requests grows.
LEMMA CutGrows ==
  ASSUME [Next]_vars
  PROVE  cut \subseteq cut'
  BY HistoryWrites

\* An account loses its users row never.
LEMMA StatusStays ==
  ASSUME TypeInv, [Next]_vars, NEW n \in Names, user[n].status # "none"
  PROVE  user'[n].status # "none"
<1> USE DEF TypeInv, TypeOK
<1>1. ASSUME NEW r \in Requests, CreateUser(r) PROVE user'[n].status # "none"
  BY <1>1, CreateInserts DEF Inserts
<1>2. ASSUME NEW r \in Requests, VerifyEmail(r) PROVE user'[n].status # "none"
  BY <1>2 DEF VerifyEmail
<1>3. ASSUME NEW r \in Requests, SetPassword(r) PROVE user'[n].status # "none"
  BY <1>3 DEF SetPassword
<1>4. ASSUME NEW r \in Requests, Erase(r) PROVE user'[n].status # "none"
  BY <1>4 DEF Erase
<1>5. ASSUME NEW r \in Requests, Approve(r) PROVE user'[n].status # "none"
  BY <1>5 DEF Approve
<1> QED BY <1>1, <1>2, <1>3, <1>4, <1>5, UserWrites

\* A row of actors comes from Actor::create.
LEMMA RowStep ==
  ASSUME TypeInv, [Next]_vars, NEW n \in Names, "row" \in actor'[n], "row" \notin actor[n]
  PROVE  \E r \in Requests : Registers(r)' /\ name'[r] = n
<1> USE DEF TypeInv, TypeOK
<1>1. ASSUME NEW r \in Requests, CreateActor(r) PROVE Registers(r)' /\ name'[r] = n
  BY <1>1 DEF CreateActor, At, Goes, Registers
<1>2. ASSUME NEW r \in Requests, UndoActor(r) PROVE FALSE
  BY <1>2 DEF UndoActor
<1>3. ASSUME NEW r \in Requests, BuryActor(r) PROVE FALSE
  BY <1>3 DEF BuryActor
<1>4. ASSUME NEW r \in Requests, SuspendActor(r) PROVE FALSE
  BY <1>4 DEF SuspendActor
<1> QED BY <1>1, <1>2, <1>3, <1>4, ActorWrites

\* Every step keeps orphans accounted for.
LEMMA OrphanStep ==
  ASSUME TypeInv, OrphanNeedsFault, [Next]_vars
  PROVE  OrphanNeedsFault'
<1>1. SUFFICES ASSUME NEW n \in Names, "row" \in actor'[n], user'[n].status = "none"
               PROVE  (\E r \in Requests : Registers(r)' /\ name'[r] = n) \/ CutAt("register", {"joining", "undoing"}, n)'
  BY DEF OrphanNeedsFault, Registers, Busy
<1>2. CASE "row" \in actor[n]
  <2>1. (\E r \in Requests : Registers(r) /\ name[r] = n) \/ CutAt("register", {"joining", "undoing"}, n)
    BY <1>1, <1>2, StatusStays DEF OrphanNeedsFault, Registers, Busy
  <2> QED BY <1>1, <2>1, RegistersStep, CutGrows DEF CutAt
<1>3. CASE "row" \notin actor[n]
  BY <1>1, <1>3, RowStep
<1> QED BY <1>2, <1>3

\* A username is taken by an actor nobody can sign in to only while its
\* registration runs or after one failed between its statements.
THEOREM OrphansNeedFaults == Spec => []OrphanNeedsFault
<1>1. Init => OrphanNeedsFault
  BY DEF Init, OrphanNeedsFault, NoUser
<1>2. TypeInv /\ OrphanNeedsFault /\ [Next]_vars => OrphanNeedsFault'
  BY OrphanStep
<1> QED BY <1>1, <1>2, TypeCorrect, PTL DEF Spec

-----------------------------------------------------------------------------
(* The audit log.                                                          *)

\* A handler that still has to log the suspension, the approval, or the mode
\* it wrote.
LogsSuspension(r) == op[r] = "suspend" /\ pc[r] \in {"revoking", "auditing"}
LogsApproval(r) == op[r] = "approve" /\ pc[r] = "auditing"
LogsMode(r) == op[r] = "settings" /\ pc[r] = "auditing"

\* It does, or it is cut.
LEMMA LogsSuspensionStep ==
  ASSUME TypeInv, [Next]_vars, NEW q \in Requests, LogsSuspension(q)
  PROVE  \/ LogsSuspension(q)' /\ name'[q] = name[q]
         \/ <<"suspend", name[q]>> \in audit'
         \/ \E ph \in {"revoking", "auditing"} : <<"suspend", ph, name[q]>> \in cut'
<1>1. CASE Same(q)
  BY <1>1 DEF Same, LogsSuspension
<1>2. CASE Statement(q)
  <2>1. Fails(q) \/ Dropped(q) \/ RevokeSessions(q) \/ (pc[q] = "auditing" /\ Audit(q))
    BY <1>2, Leaves DEF LogsSuspension, At, AdminOps
  <2>2. CASE Fails(q)
    BY <2>2 DEF Fails, LogsSuspension, At, AdminOps, Unrevoked, Cuts, Owed, CutAt, Goes, TypeInv, TypeOK
  <2>3. CASE Dropped(q)
    BY <2>3 DEF Dropped, LogsSuspension, Cuts, Owed, CutAt
  <2>4. CASE RevokeSessions(q)
    BY <2>4 DEF RevokeSessions, AfterRevoking, LogsSuspension, Goes, TypeInv, TypeOK
  <2>5. CASE pc[q] = "auditing" /\ Audit(q)
    BY <2>5 DEF Audit, LogsSuspension
  <2> QED BY <2>1, <2>2, <2>3, <2>4, <2>5
<1> QED BY <1>1, <1>2, OwnStatements

\* An approval is logged, or the request is cut.
LEMMA LogsApprovalStep ==
  ASSUME TypeInv, [Next]_vars, NEW q \in Requests, LogsApproval(q)
  PROVE  \/ LogsApproval(q)' /\ name'[q] = name[q]
         \/ <<"approve", name[q]>> \in audit'
         \/ <<"approve", "auditing", name[q]>> \in cut'
<1>1. CASE Same(q)
  BY <1>1 DEF Same, LogsApproval
<1>2. CASE Statement(q)
  <2>1. Fails(q) \/ Dropped(q) \/ Audit(q)
    BY <1>2, Leaves DEF LogsApproval, At
  <2>2. CASE Fails(q)
    BY <2>2 DEF Fails, LogsApproval, At, Cuts, Owed, CutAt
  <2>3. CASE Dropped(q)
    BY <2>3 DEF Dropped, LogsApproval, Cuts, Owed, CutAt
  <2>4. CASE Audit(q)
    BY <2>4 DEF Audit, LogsApproval
  <2> QED BY <2>1, <2>2, <2>3, <2>4
<1> QED BY <1>1, <1>2, OwnStatements

\* The mode that was written is logged, or the request is cut.
LEMMA LogsModeStep ==
  ASSUME TypeInv, [Next]_vars, NEW q \in Requests, LogsMode(q)
  PROVE  \/ LogsMode(q)' /\ seen'[q] = seen[q]
         \/ <<"settings", seen[q]>> \in audit'
         \/ \E n \in Names : CutAt("settings", {"auditing"}, n)'
<1>1. CASE Same(q)
  BY <1>1 DEF Same, LogsMode
<1>2. CASE Statement(q)
  <2>0. name[q] \in Names
    BY DEF LogsMode, TypeInv, RequestsHold, Holds
  <2>1. Fails(q) \/ Dropped(q) \/ Audit(q)
    BY <1>2, Leaves DEF LogsMode, At
  <2>2. CASE Fails(q)
    BY <2>0, <2>2 DEF Fails, LogsMode, At, Cuts, Owed, CutAt
  <2>3. CASE Dropped(q)
    BY <2>0, <2>3 DEF Dropped, LogsMode, Cuts, Owed, CutAt
  <2>4. CASE Audit(q)
    BY <2>4 DEF Audit, LogsMode
  <2> QED BY <2>1, <2>2, <2>3, <2>4
<1> QED BY <1>1, <1>2, OwnStatements

\* The log grows.
LEMMA AuditGrows ==
  ASSUME [Next]_vars
  PROVE  audit \subseteq audit'
  BY AdminWrites DEF PutSettings, Audit, ReadSettings

\* The stamp comes from suspend_user, which then still has to log it.
LEMMA SuspendedStep ==
  ASSUME TypeInv, [Next]_vars, NEW n \in Names, "suspended" \in actor'[n], "suspended" \notin actor[n]
  PROVE  \E r \in Requests : LogsSuspension(r)' /\ name'[r] = n
<1> USE DEF TypeInv, TypeOK
<1>1. ASSUME NEW r \in Requests, CreateActor(r) PROVE FALSE
  BY <1>1 DEF CreateActor
<1>2. ASSUME NEW r \in Requests, UndoActor(r) PROVE FALSE
  BY <1>2 DEF UndoActor
<1>3. ASSUME NEW r \in Requests, BuryActor(r) PROVE FALSE
  BY <1>3 DEF BuryActor
<1>4. ASSUME NEW r \in Requests, SuspendActor(r) PROVE LogsSuspension(r)' /\ name'[r] = n
  BY <1>4 DEF SuspendActor, At, Goes, LogsSuspension
<1> QED BY <1>1, <1>2, <1>3, <1>4, ActorWrites

\* An account that applied becomes active by approve_user, which then still has
\* to log it.
LEMMA ApprovedStep ==
  ASSUME TypeInv, [Next]_vars, NEW n \in Names, user'[n].applied, user'[n].status = "active",
         ~(user[n].applied /\ user[n].status = "active")
  PROVE  \E r \in Requests : LogsApproval(r)' /\ name'[r] = n
<1> USE DEF TypeInv, TypeOK
<1>1. ASSUME NEW r \in Requests, CreateUser(r) PROVE FALSE
  <2>1. user' # user
    OBVIOUS
  <2>2. PICK u \in Users : Inserts(r, u)
    BY <1>1, <2>1, CreateInserts
  <2> QED BY <2>2 DEF Inserts
<1>2. ASSUME NEW r \in Requests, VerifyEmail(r) PROVE FALSE
  BY <1>2 DEF VerifyEmail
<1>3. ASSUME NEW r \in Requests, SetPassword(r) PROVE FALSE
  BY <1>3 DEF SetPassword
<1>4. ASSUME NEW r \in Requests, Erase(r) PROVE FALSE
  BY <1>4 DEF Erase
<1>5. ASSUME NEW r \in Requests, Approve(r) PROVE LogsApproval(r)' /\ name'[r] = n
  BY <1>5 DEF Approve, At, Goes, LogsApproval
<1> QED BY <1>1, <1>2, <1>3, <1>4, <1>5, UserWrites

\* The mode comes from put_settings, which then still has to log it.
LEMMA ModeStep ==
  ASSUME TypeInv, [Next]_vars, mode' # mode
  PROVE  \E r \in Requests : LogsMode(r)' /\ seen'[r] = mode'
<1>1. PICK r \in Requests, m \in Modes : PutSettings(r, m)
  BY AdminWrites
<1>2. LogsMode(r)' /\ seen'[r] = mode'
  BY <1>1 DEF PutSettings, At, Reads, LogsMode, TypeInv, TypeOK
<1> QED BY <1>2

\* Every step keeps the log complete.
LEMMA AuditedStep ==
  ASSUME TypeInv, Audited, [Next]_vars
  PROVE  Audited'
<1>1. ASSUME NEW n \in Names, "suspended" \in actor'[n]
      PROVE  \/ <<"suspend", n>> \in audit' \/ CutAt("suspend", {"revoking", "auditing"}, n)'
             \/ \E r \in Requests : LogsSuspension(r)' /\ name'[r] = n
  <2>1. CASE "suspended" \in actor[n]
    <3>1. \/ <<"suspend", n>> \in audit \/ CutAt("suspend", {"revoking", "auditing"}, n)
          \/ \E r \in Requests : LogsSuspension(r) /\ name[r] = n
      BY <2>1 DEF Audited, LogsSuspension, Busy
    <3> QED BY <3>1, LogsSuspensionStep, AuditGrows, CutGrows DEF CutAt
  <2> QED BY <1>1, <2>1, SuspendedStep
<1>2. ASSUME mode' # "open"
      PROVE  \/ <<"settings", mode'>> \in audit' \/ \E n \in Names : CutAt("settings", {"auditing"}, n)'
             \/ \E r \in Requests : LogsMode(r)' /\ seen'[r] = mode'
  <2>1. CASE mode' = mode
    <3>1. \/ <<"settings", mode>> \in audit \/ \E n \in Names : CutAt("settings", {"auditing"}, n)
          \/ \E r \in Requests : LogsMode(r) /\ seen[r] = mode
      BY <1>2, <2>1 DEF Audited, LogsMode
    <3> QED BY <2>1, <3>1, LogsModeStep, AuditGrows, CutGrows DEF CutAt
  <2> QED BY <2>1, ModeStep
<1>3. ASSUME NEW n \in Names, user'[n].applied, user'[n].status = "active"
      PROVE  \/ <<"approve", n>> \in audit' \/ CutAt("approve", {"auditing"}, n)'
             \/ \E r \in Requests : LogsApproval(r)' /\ name'[r] = n
  <2>1. CASE user[n].applied /\ user[n].status = "active"
    <3>1. \/ <<"approve", n>> \in audit \/ CutAt("approve", {"auditing"}, n)
          \/ \E r \in Requests : LogsApproval(r) /\ name[r] = n
      BY <2>1 DEF Audited, LogsApproval, Busy
    <3> QED BY <3>1, LogsApprovalStep, AuditGrows, CutGrows DEF CutAt
  <2> QED BY <1>3, <2>1, ApprovedStep
<1> QED BY <1>1, <1>2, <1>3 DEF Audited, LogsSuspension, LogsApproval, LogsMode, Busy

\* Audited: suspend_user, also when it could not revoke the sessions,
\* approve_user and put_settings change something only with an audit_log entry
\* that says so, unless they are dropped before it or its INSERT fails.
THEOREM ChangesAudited == Spec => []Audited
<1>1. Init => Audited
  BY DEF Init, Audited, NoUser
<1>2. TypeInv /\ Audited /\ [Next]_vars => Audited'
  BY AuditedStep
<1> QED BY <1>1, <1>2, TypeCorrect, PTL DEF Spec

-----------------------------------------------------------------------------
(* Accounts that are known stay known.                                     *)

Active(n) == user[n].status = "active"
OneRegisters ==
  \A r, q \in Requests : Registers(r) /\ Registers(q) /\ name[r] = name[q] => r = q
UserHasActor == \A n \in Names : user[n].status # "none" => "row" \in actor[n]
Known(r) ==
  /\ Registers(r) => user[name[r]].status = "none" /\ "row" \in actor[name[r]]
  /\ pc[r] \in {"mailing", "checking", "opening"} => Active(name[r])
  /\ pc[r] \in {"user", "actor", "serving"} => Active(who[r])
OwnersActive ==
  /\ \A s \in Sessions : session[s].owner # NoName => Active(session[s].owner)
  /\ \A t \in Tokens : token[t].state # "none" => Active(token[t].owner)

KnownInv ==
  /\ TypeInv /\ OneRegisters /\ UserHasActor /\ OwnersActive
  /\ \A r \in Requests : Known(r)

\* An account that was active stays so: a registration in between its
\* statements is about a name that has no user yet.
LEMMA ActiveStays ==
  ASSUME KnownInv, [Next]_vars, NEW n \in Names, Active(n)
  PROVE  Active(n)'
<1> USE DEF KnownInv, TypeInv, TypeOK, Active
<1>1. ASSUME NEW r \in Requests, CreateUser(r) PROVE Active(n)'
  <2>1. Registers(r)
    BY <1>1 DEF CreateUser, At, Registers
  <2>2. n # name[r]
    BY <2>1 DEF Known
  <2> QED BY <1>1, <2>2, CreateInserts DEF Inserts
<1>2. ASSUME NEW r \in Requests, VerifyEmail(r) PROVE Active(n)'
  BY <1>2 DEF VerifyEmail
<1>3. ASSUME NEW r \in Requests, SetPassword(r) PROVE Active(n)'
  BY <1>3 DEF SetPassword
<1>4. ASSUME NEW r \in Requests, Erase(r) PROVE Active(n)'
  BY <1>4 DEF Erase
<1>5. ASSUME NEW r \in Requests, Approve(r) PROVE Active(n)'
  BY <1>5 DEF Approve
<1> QED BY <1>1, <1>2, <1>3, <1>4, <1>5, UserWrites

\* The actor goes only with its registration undone.
LEMMA RowStays ==
  ASSUME KnownInv, [Next]_vars, NEW n \in Names, "row" \in actor[n]
  PROVE  "row" \in actor'[n] \/ \E r \in Requests : UndoActor(r) /\ name[r] = n
<1> USE DEF KnownInv, TypeInv, TypeOK
<1>1. ASSUME NEW r \in Requests, CreateActor(r) PROVE "row" \in actor'[n]
  BY <1>1 DEF CreateActor
<1>2. ASSUME NEW r \in Requests, UndoActor(r) PROVE "row" \in actor'[n] \/ name[r] = n
  BY <1>2 DEF UndoActor
<1>3. ASSUME NEW r \in Requests, BuryActor(r) PROVE "row" \in actor'[n]
  BY <1>3 DEF BuryActor
<1>4. ASSUME NEW r \in Requests, SuspendActor(r) PROVE "row" \in actor'[n]
  BY <1>4 DEF SuspendActor
<1> QED BY <1>1, <1>2, <1>3, <1>4, ActorWrites

\* A users row comes from CreateUser.
LEMMA StatusComes ==
  ASSUME TypeInv, [Next]_vars, NEW n \in Names, user[n].status = "none", user'[n].status # "none"
  PROVE  \E r \in Requests : CreateUser(r) /\ name[r] = n
<1> USE DEF TypeInv, TypeOK
<1>1. ASSUME NEW r \in Requests, CreateUser(r) PROVE name[r] = n
  BY <1>1, CreateInserts DEF Inserts
<1>2. ASSUME NEW r \in Requests, VerifyEmail(r) PROVE FALSE
  BY <1>2 DEF VerifyEmail
<1>3. ASSUME NEW r \in Requests, SetPassword(r) PROVE FALSE
  BY <1>3 DEF SetPassword
<1>4. ASSUME NEW r \in Requests, Erase(r) PROVE FALSE
  BY <1>4 DEF Erase
<1>5. ASSUME NEW r \in Requests, Approve(r) PROVE FALSE
  BY <1>5 DEF Approve
<1> QED BY <1>1, <1>2, <1>3, <1>4, <1>5, UserWrites

\* A registration that comes to hold an actor has just inserted it.
LEMMA RegistersNew ==
  ASSUME TypeInv, [Next]_vars, NEW q \in Requests, ~Registers(q), Registers(q)'
  PROVE  /\ CreateActor(q) /\ Goes(q, "joining") /\ "row" \notin actor[name[q]] /\ name'[q] = name[q]
         /\ actor'[name[q]] = {"row"} /\ user' = user /\ name[q] \in Names
<1>1. ~Same(q)
  BY DEF Same, Registers
<1>2. Statement(q)
  BY <1>1, OwnStatements
<1>3. ~Arrives(q)
  BY DEF Arrives, Login, RequestReset, Register, SignedIn, Consume, Comes, Registers, TypeInv, TypeOK
<1>4. CASE CreateActor(q)
  BY <1>4 DEF CreateActor, At, Done, Goes, Registers, TypeInv, TypeOK, RequestsHold, Holds
<1>5. CASE op'[q] # "register" \/ pc'[q] \notin {"joining", "undoing"}
  BY <1>5 DEF Registers
<1>6. CASE Fails(q)
  BY <1>6 DEF Fails, UserRefused, Unrevoked, Goes, Done, Registers, At, TypeInv, TypeOK
<1>7. CASE CreateUser(q)
  BY <1>7 DEF CreateUser, At, Registers
<1> QED
  BY <1>2, <1>3, <1>4, <1>5, <1>6, <1>7
     DEF Statement, UndoActor, IssueToken, LoginChecksActor, CreateSession, AuthReadsUser, AuthReadsActor,
       Logout, VerifyEmail, SetPassword, InvalidateTokens, RevokeSessions, AfterRevoking, DeleteMe,
       Erase, BuryActor, DeleteTokens, SuspendReads, SuspendActor, Approve, PutSettings, Audit,
       ReadSettings, Dropped, Goes, Done, Reads, TypeInv, TypeOK

\* A registration is about one name to its end.
LEMMA RegistersKeepName ==
  ASSUME TypeInv, [Next]_vars, NEW q \in Requests, Registers(q), Registers(q)'
  PROVE  name'[q] = name[q]
<1>1. CASE Same(q)
  BY <1>1 DEF Same
<1>2. CASE Statement(q)
  <2>1. Fails(q) \/ Dropped(q) \/ CreateUser(q) \/ UndoActor(q)
    BY <1>2, Leaves DEF Registers, At, AdminOps
  <2> QED BY <2>1 DEF Fails, Dropped, CreateUser, UndoActor, UserRefused, Unrevoked, Goes, Done, Reads, Registers,
                      TypeInv, TypeOK
<1> QED BY <1>1, <1>2, OwnStatements

\* A session is as it was, or login has just opened it.
Opened(r, s) ==
  /\ CreateSession(r) /\ session'[s].owner = name[r] /\ session'[s].hash = seen[r]
  /\ session'[s].raced = (seen[r] # user[name[r]].hash \/ Barred(name[r]))

\* How a sessions row comes about.
LEMMA SessionStep ==
  ASSUME TypeInv, [Next]_vars, NEW s \in Sessions, session'[s].owner # NoName
  PROVE  \/ /\ session'[s].owner = session[s].owner /\ session'[s].hash = session[s].hash
            /\ session'[s].raced = session[s].raced
         \/ \E r \in Requests : Opened(r, s)
<1> DEFINE Kept == /\ session'[s].owner = session[s].owner /\ session'[s].hash = session[s].hash
                   /\ session'[s].raced = session[s].raced
<1> USE DEF TypeInv, TypeOK
<1>1. ASSUME NEW r \in Requests, CreateSession(r) PROVE Kept \/ Opened(r, s)
  <2>1. session' = [session EXCEPT ![Unused(Sessions)] =
            [owner |-> name[r], hash |-> seen[r], expired |-> FALSE,
             raced |-> seen[r] # user[name[r]].hash \/ Barred(name[r])]]
    BY <1>1 DEF CreateSession
  <2>2. CASE s = Unused(Sessions)
    <3>1. session'[s] = [owner |-> name[r], hash |-> seen[r], expired |-> FALSE,
                         raced |-> seen[r] # user[name[r]].hash \/ Barred(name[r])]
      BY <2>1, <2>2
    <3> DEFINE b == seen[r] # user[name[r]].hash \/ Barred(name[r])
    <3>2. session'[s] = [owner |-> name[r], hash |-> seen[r], expired |-> FALSE, raced |-> b]
      BY <3>1
    <3> HIDE DEF b
    <3>3. session'[s].owner = name[r] /\ session'[s].hash = seen[r] /\ session'[s].raced = b
      BY <3>2
    <3> QED BY <1>1, <3>3 DEF Opened, b
  <2>3. CASE s # Unused(Sessions)
    BY <2>1, <2>3
  <2> QED BY <2>2, <2>3
<1>2. ASSUME NEW r \in Requests, Logout(r) PROVE Kept
  BY <1>2 DEF Logout, NoSession
<1>3. ASSUME NEW r \in Requests, RevokeSessions(r) PROVE Kept
  BY <1>3 DEF RevokeSessions, Revoked, NoSession
<1>4. ASSUME NEW u \in Sessions, DropExpired(u) PROVE Kept
  BY <1>4 DEF DropExpired, NoSession
<1>5. ASSUME NEW u \in Sessions, ExpireSession(u) PROVE Kept
  BY <1>5 DEF ExpireSession
<1> QED BY <1>1, <1>2, <1>3, <1>4, <1>5, SessionWrites

\* A token is as it was, but for its state, or it was given out just now.
Given(r, t) ==
  /\ IssueToken(r) /\ token'[t].owner = name[r] /\ token'[t].hash = seen[r]
  /\ token'[t].raced = (seen[r] # user[name[r]].hash \/ user[name[r]].deleted)

\* How an email_tokens row comes about.
LEMMA TokenStep ==
  ASSUME TypeInv, [Next]_vars, NEW t \in Tokens, token'[t].state # "none"
  PROVE  \/ /\ token'[t].owner = token[t].owner /\ token'[t].hash = token[t].hash
            /\ token'[t].raced = token[t].raced /\ token'[t].kind = token[t].kind
            /\ token[t].state # "none" /\ token'[t].state \in {token[t].state, "used", "expired"}
         \/ \E r \in Requests : Given(r, t)
<1> DEFINE Kept == /\ token'[t].owner = token[t].owner /\ token'[t].hash = token[t].hash
                   /\ token'[t].raced = token[t].raced /\ token'[t].kind = token[t].kind
                   /\ token[t].state # "none" /\ token'[t].state \in {token[t].state, "used", "expired"}
<1>1. ASSUME NEW r \in Requests, IssueToken(r) PROVE Kept \/ Given(r, t)
  <2>1. PICK u \in TokenRows, i \in Tokens \ minted :
          /\ u.owner = name[r] /\ u.hash = seen[r]
          /\ u.raced = (seen[r] # user[name[r]].hash \/ user[name[r]].deleted)
          /\ token' = [token EXCEPT ![i] = u]
    BY <1>1, IssueInserts
  <2>2. CASE t = i
    <3>1. token'[t] = u
      BY <2>1, <2>2 DEF TypeInv, TypeOK
    <3> QED BY <1>1, <2>1, <3>1 DEF Given
  <2>3. CASE t # i
    <3>1. token'[t] = token[t]
      BY <2>1, <2>3 DEF TypeInv, TypeOK
    <3> QED BY <3>1
  <2> QED BY <2>2, <2>3
<1> USE DEF TypeInv, TypeOK
<1>2. ASSUME NEW r \in Requests, InvalidateTokens(r) PROVE Kept
  BY <1>2 DEF InvalidateTokens, Invalidated
<1>3. ASSUME NEW r \in Requests, DeleteTokens(r) PROVE Kept
  BY <1>3 DEF DeleteTokens, NoToken
<1>4. ASSUME NEW r \in Requests, NEW u \in Tokens, NEW k \in Kinds, Consume(r, u, k) PROVE Kept
  BY <1>4 DEF Consume, Usable
<1>5. ASSUME NEW u \in Tokens, ExpireToken(u) PROVE Kept
  BY <1>5 DEF ExpireToken
<1> QED BY <1>1, <1>2, <1>3, <1>4, <1>5, TokenWrites

\* One registration at most holds the actor of a name.
LEMMA OneRegistersStep ==
  ASSUME KnownInv, [Next]_vars
  PROVE  OneRegisters'
<1> USE DEF KnownInv
<1>1. SUFFICES ASSUME NEW r \in Requests, NEW q \in Requests, r # q,
                      Registers(r)', Registers(q)', name'[r] = name'[q]
               PROVE  FALSE
  BY DEF OneRegisters
<1>2. ASSUME NEW x \in Requests, NEW y \in Requests, x # y,
             Registers(x)', Registers(y)', name'[x] = name'[y], ~Registers(x)
      PROVE  FALSE
  <2>1. /\ CreateActor(x) /\ Goes(x, "joining") /\ "row" \notin actor[name[x]] /\ name'[x] = name[x]
    BY <1>2, RegistersNew
  <2>2. Registers(y) /\ name[y] = name[x]
    BY <1>2, <2>1 DEF Goes, Registers, TypeInv, TypeOK
  <2> QED BY <2>1, <2>2 DEF Known
<1>3. Registers(r) /\ Registers(q)
  BY <1>1, <1>2
<1>4. name'[r] = name[r] /\ name'[q] = name[q]
  BY <1>1, <1>3, RegistersKeepName
<1> QED BY <1>1, <1>3, <1>4 DEF OneRegisters

\* A users row has its actor.
LEMMA UserHasActorStep ==
  ASSUME KnownInv, [Next]_vars
  PROVE  UserHasActor'
<1> USE DEF KnownInv
<1>1. SUFFICES ASSUME NEW n \in Names, user'[n].status # "none"
               PROVE  "row" \in actor'[n]
  BY DEF UserHasActor
<1>2. CASE user[n].status # "none"
  <2>1. "row" \in actor[n]
    BY <1>2 DEF UserHasActor
  <2>2. ASSUME NEW r \in Requests, UndoActor(r) PROVE name[r] # n
    BY <1>2, <2>2 DEF UndoActor, At, Registers, Known
  <2> QED BY <2>1, <2>2, RowStays
<1>3. CASE user[n].status = "none"
  <2>1. PICK r \in Requests : CreateUser(r) /\ name[r] = n
    BY <1>1, <1>3, StatusComes
  <2>2. Registers(r)
    BY <2>1 DEF CreateUser, At, Registers
  <2> QED BY <2>1, <2>2 DEF CreateUser, Known
<1> QED BY <1>2, <1>3

\* Sessions and tokens belong to active accounts.
LEMMA OwnersActiveStep ==
  ASSUME KnownInv, [Next]_vars
  PROVE  OwnersActive'
<1> USE DEF KnownInv, Active
<1>1. ASSUME NEW s \in Sessions, session'[s].owner # NoName
      PROVE user'[session'[s].owner].status = "active"
  <2>1. CASE session'[s].owner = session[s].owner
    BY <1>1, <2>1, ActiveStays DEF OwnersActive, TypeInv, TypeOK
  <2>2. ASSUME NEW r \in Requests, Opened(r, s) PROVE user'[session'[s].owner].status = "active"
    BY <2>2, ActiveStays DEF Opened, CreateSession, At, Known, TypeInv, RequestsHold, Holds
  <2> QED BY <1>1, <2>1, <2>2, SessionStep
<1>2. ASSUME NEW t \in Tokens, token'[t].state # "none" PROVE user'[token'[t].owner].status = "active"
  <2>1. CASE token'[t].owner = token[t].owner /\ token[t].state # "none"
    BY <2>1, ActiveStays DEF OwnersActive, TypeInv, TokensOwned
  <2>2. ASSUME NEW r \in Requests, Given(r, t) PROVE user'[token'[t].owner].status = "active"
    BY <2>2, ActiveStays DEF Given, IssueToken, Known, TypeInv, RequestsHold, Holds
  <2> QED BY <1>2, <2>1, <2>2, TokenStep
<1> QED BY <1>1, <1>2 DEF OwnersActive

\* The account a request is about is the one its statement expects.
LEMMA KnownStep ==
  ASSUME KnownInv, [Next]_vars, NEW q \in Requests
  PROVE  Known(q)'
<1> USE DEF KnownInv, Active
<1>1. ASSUME Registers(q)' PROVE user'[name'[q]].status = "none" /\ "row" \in actor'[name'[q]]
  <2>1. CASE ~Registers(q)
    BY <1>1, <2>1, RegistersNew DEF UserHasActor
  <2>2. CASE Registers(q)
    <3>1. name'[q] = name[q] /\ name[q] \in Names
      BY <1>1, <2>2, RegistersKeepName DEF TypeInv, RequestsHold, Holds, Registers
    <3>2. ~(Done(q) \/ \E v : Reads(q, v, "mailing"))
      BY <1>1 DEF Done, Reads, Registers, TypeInv, TypeOK
    <3>3. ASSUME NEW r \in Requests, CreateUser(r), name[r] = name[q] PROVE user' = user
      <4>1. r = q
        BY <2>2, <3>3 DEF CreateUser, At, Registers, OneRegisters
      <4> QED BY <3>2, <3>3, <4>1 DEF CreateUser
    <3>4. ASSUME NEW r \in Requests, UndoActor(r), name[r] = name[q] PROVE FALSE
      <4>1. r = q
        BY <2>2, <3>4 DEF UndoActor, At, Registers, OneRegisters
      <4> QED BY <3>2, <3>4, <4>1 DEF UndoActor
    <3>5. user[name[q]].status = "none" /\ "row" \in actor[name[q]]
      BY <2>2 DEF Known
    <3>6. user'[name[q]].status = "none"
      BY <3>1, <3>3, <3>5, StatusComes
    <3>7. "row" \in actor'[name[q]]
      BY <3>1, <3>4, <3>5, RowStays
    <3> QED BY <3>1, <3>6, <3>7
  <2> QED BY <2>1, <2>2
<1>2. ASSUME pc'[q] \in {"mailing", "checking", "opening"} PROVE user'[name'[q]].status = "active"
  <2>1. name'[q] \in Names
    BY <1>2, HoldsStep DEF Holds
  <2>2. CASE user[name'[q]].status = "active"
    BY <2>1, <2>2, ActiveStays
  <2>3. CASE Same(q)
    BY <1>2, <2>2, <2>3 DEF Same, Known
  <2>4. CASE Arrives(q)
    BY <1>2, <2>2, <2>4 DEF Arrives, Login, RequestReset, Register, SignedIn, Consume, Comes, MayLogIn,
       TypeInv, TypeOK
  <2>5. CASE CreateUser(q)
    <3>1. ~Goes(q, "undoing") /\ ~Done(q)
      BY <1>2 DEF Goes, Done, TypeInv, TypeOK
    <3>2. seen[q] = "active" /\ name'[q] = name[q]
      BY <2>5, <3>1 DEF CreateUser, UserRefused, Reads
    <3>3. PICK u \in Users : u.status = seen[q] /\ user'[name[q]] = u
      BY <2>5, <3>1, CreateInserts DEF Inserts
    <3> QED BY <3>2, <3>3
  <2>6. CASE LoginChecksActor(q)
    BY <1>2, <2>2, <2>6 DEF LoginChecksActor, At, Known, Goes, Done, TypeInv, TypeOK
  <2>7. CASE ~Same(q) /\ ~Arrives(q) /\ ~CreateUser(q) /\ ~LoginChecksActor(q)
    <3>1. Statement(q)
      BY <2>7, OwnStatements
    <3> QED BY <1>2, <2>7, <3>1
       DEF Statement, CreateActor, UndoActor, IssueToken, CreateSession, AuthReadsUser, AuthReadsActor,
         Logout, VerifyEmail, SetPassword, InvalidateTokens, RevokeSessions, AfterRevoking, DeleteMe,
         Erase, BuryActor, DeleteTokens, SuspendReads, SuspendActor, Approve, PutSettings, Audit,
         ReadSettings, Fails, UserRefused, Unrevoked, Dropped, Goes, Done, Reads, TypeInv, TypeOK
  <2> QED BY <2>3, <2>4, <2>5, <2>6, <2>7
<1>3. ASSUME pc'[q] \in {"user", "actor", "serving"} PROVE user'[who'[q]].status = "active"
  <2>1. who'[q] \in Names
    BY <1>3, HoldsStep DEF Holds
  <2>2. CASE user[who'[q]].status = "active"
    BY <2>1, <2>2, ActiveStays
  <2>3. CASE Same(q)
    BY <1>3, <2>2, <2>3 DEF Same, Known
  <2>4. CASE Arrives(q)
    <3>1. PICK s \in Sessions, o \in AuthOps, n \in Names : SignedIn(q, s, o, n)
      BY <1>3, <2>4 DEF Arrives, Login, RequestReset, Register, Consume, Comes, TypeInv, TypeOK
    <3> QED BY <2>2, <3>1 DEF SignedIn, Comes, OwnersActive, TypeInv, TypeOK
  <2>5. CASE AuthReadsUser(q) \/ AuthReadsActor(q)
    BY <1>3, <2>2, <2>5 DEF AuthReadsUser, AuthReadsActor, Known, Goes, Reads, Done, TypeInv, TypeOK
  <2>6. CASE ~Same(q) /\ ~Arrives(q) /\ ~AuthReadsUser(q) /\ ~AuthReadsActor(q)
    <3>1. Statement(q)
      BY <2>6, OwnStatements
    <3> QED BY <1>3, <2>6, <3>1
       DEF Statement, CreateActor, CreateUser, UndoActor, IssueToken, LoginChecksActor, CreateSession,
         Logout, VerifyEmail, SetPassword, InvalidateTokens, RevokeSessions, AfterRevoking, DeleteMe,
         Erase, BuryActor, DeleteTokens, SuspendReads, SuspendActor, Approve, PutSettings, Audit,
         ReadSettings, Fails, UserRefused, Unrevoked, Dropped, Goes, Done, Reads, TypeInv, TypeOK
  <2> QED BY <2>3, <2>4, <2>5, <2>6
<1> QED BY <1>1, <1>2, <1>3 DEF Known

\* Every step keeps the accounts known.
LEMMA KnownInvStep ==
  ASSUME KnownInv, [Next]_vars
  PROVE  KnownInv'
  BY TypeStep, OneRegistersStep, UserHasActorStep, OwnersActiveStep, KnownStep DEF KnownInv

\* They are at the start.
LEMMA KnownInit ==
  ASSUME Init
  PROVE  KnownInv
<1>1. OneRegisters /\ UserHasActor /\ OwnersActive
  BY DEF Init, OneRegisters, Registers, UserHasActor, OwnersActive, NoUser, NoSession, NoToken
<1>2. \A r \in Requests : Known(r)
  BY DEF Init, Known, Registers
<1> QED BY <1>1, <1>2, TypeInit DEF KnownInv

-----------------------------------------------------------------------------
(* Barred accounts.                                                        *)

Stamped(n) == actor[n] \cap {"suspended", "deleted"} # {}

\* A request of an account that was barred when it came is before the check
\* that turns it away.
LateAt(r) ==
  \/ pc[r] = "checking" /\ Stamped(name[r])
  \/ pc[r] = "user" /\ (user[who[r]].deleted \/ Stamped(who[r]))
  \/ pc[r] = "actor" /\ Stamped(who[r])
LateKnown == \A r \in Requests : late[r] => LateAt(r)

\* An account with a users row keeps its stamps: only a registration takes them
\* away, and it is about a name that has none.
LEMMA StampStays ==
  ASSUME KnownInv, [Next]_vars, NEW n \in Names, Active(n), Stamped(n)
  PROVE  Stamped(n)'
<1> USE DEF KnownInv, TypeInv, TypeOK, Stamped, Active
<1>1. ASSUME NEW r \in Requests, CreateActor(r) PROVE Stamped(n)'
  BY <1>1 DEF CreateActor, UserHasActor
<1>2. ASSUME NEW r \in Requests, UndoActor(r) PROVE Stamped(n)'
  <2>1. n # name[r]
    BY <1>2 DEF UndoActor, At, Registers, Known
  <2> QED BY <1>2, <2>1 DEF UndoActor
<1>3. ASSUME NEW r \in Requests, BuryActor(r) PROVE Stamped(n)'
  BY <1>3 DEF BuryActor
<1>4. ASSUME NEW r \in Requests, SuspendActor(r) PROVE Stamped(n)'
  BY <1>4 DEF SuspendActor
<1> QED BY <1>1, <1>2, <1>3, <1>4, ActorWrites

\* The same of users.deleted_at.
LEMMA DeletedStays ==
  ASSUME KnownInv, [Next]_vars, NEW n \in Names, Active(n), user[n].deleted
  PROVE  user'[n].deleted
<1>1. ASSUME NEW r \in Requests, CreateUser(r) PROVE user'[n].deleted
  <2>1. n # name[r]
    BY <1>1 DEF CreateUser, At, Registers, Known, KnownInv, Active
  <2>2. user'[n] = user[n]
    BY <1>1, <2>1, CreateInserts DEF Inserts, KnownInv
  <2> QED BY <2>2
<1> USE DEF KnownInv, TypeInv, TypeOK, Active
<1>2. ASSUME NEW r \in Requests, VerifyEmail(r) PROVE user'[n].deleted
  BY <1>2 DEF VerifyEmail
<1>3. ASSUME NEW r \in Requests, SetPassword(r) PROVE user'[n].deleted
  BY <1>3 DEF SetPassword
<1>4. ASSUME NEW r \in Requests, Erase(r) PROVE user'[n].deleted
  BY <1>4 DEF Erase
<1>5. ASSUME NEW r \in Requests, Approve(r) PROVE user'[n].deleted
  BY <1>5 DEF Approve
<1> QED BY <1>1, <1>2, <1>3, <1>4, <1>5, UserWrites

\* A late request stays before the check that turns it away.
LEMMA LateStep ==
  ASSUME KnownInv, LateKnown, [Next]_vars, NEW q \in Requests, late'[q]
  PROVE  LateAt(q)'
<1> USE DEF KnownInv
<1>1. CASE Same(q)
  <2>1. late[q] /\ LateAt(q)
    BY <1>1 DEF Same, LateKnown
  <2>2. CASE pc[q] = "checking" /\ Stamped(name[q])
    <3>1. name[q] \in Names /\ Active(name[q])
      BY <2>2 DEF TypeInv, RequestsHold, Holds, Known
    <3>2. Stamped(name[q])'
      BY <1>1, <2>2, <3>1, StampStays DEF Same, Stamped
    <3> QED BY <1>1, <2>2, <3>2 DEF Same, LateAt
  <2>3. CASE pc[q] \in {"user", "actor"}
    <3>1. who[q] \in Names /\ Active(who[q])
      BY <2>3 DEF TypeInv, RequestsHold, Holds, Known
    <3>2. Stamped(who[q]) => Stamped(who[q])'
      BY <1>1, <3>1, StampStays DEF Same, Stamped
    <3>3. user[who[q]].deleted => user'[who[q]].deleted
      BY <3>1, DeletedStays
    <3> QED BY <1>1, <2>1, <2>3, <3>2, <3>3 DEF Same, LateAt
  <2> QED BY <2>1, <2>2, <2>3 DEF LateAt
<1>2. CASE Arrives(q)
  <2>1. ASSUME NEW n \in Names, Login(q, n) PROVE LateAt(q)'
    <3>1. pc'[q] = "checking" /\ name'[q] = n /\ actor' = actor /\ Barred(n)
      BY <2>1 DEF Login, Comes, tables, TypeInv, TypeOK
    <3>2. Stamped(n)
      BY <2>1, <3>1 DEF Login, MayLogIn, Barred, Stamped
    <3> QED BY <3>1, <3>2 DEF LateAt, Stamped
  <2>2. ASSUME NEW s \in Sessions, NEW o \in AuthOps, NEW n \in Names, SignedIn(q, s, o, n)
        PROVE LateAt(q)'
    <3>1. /\ pc'[q] = "user" /\ who'[q] = session[s].owner /\ actor' = actor /\ user' = user
          /\ Barred(session[s].owner)
      BY <2>2 DEF SignedIn, Comes, tables, TypeInv, TypeOK
    <3>2. user[session[s].owner].deleted \/ Stamped(session[s].owner)
      BY <2>2, <3>1 DEF SignedIn, OwnersActive, Active, Barred, Stamped
    <3> QED BY <3>1, <3>2 DEF LateAt, Stamped
  <2>3. CASE late[q] /\ pc[q] = "idle"
    BY <2>3 DEF LateKnown, LateAt
  <2> QED BY <1>2, <2>1, <2>2, <2>3 DEF Arrives, RequestReset, Register, Consume, Comes
<1>3. CASE Statement(q) /\ ~Arrives(q)
  <2>1. late[q]
    BY <1>3 DEF Statement, CreateActor, CreateUser, UndoActor, IssueToken, LoginChecksActor, CreateSession,
         AuthReadsUser, AuthReadsActor, Logout, VerifyEmail, SetPassword, InvalidateTokens,
         RevokeSessions, AfterRevoking, DeleteMe, Erase, BuryActor, DeleteTokens, SuspendReads,
         SuspendActor, Approve, PutSettings, Audit, ReadSettings, Fails, UserRefused, Unrevoked, Dropped, Goes,
         Done, Reads, TypeInv, TypeOK
  <2>2. LateAt(q) /\ ~Done(q)
    BY <2>1 DEF LateKnown, Done, TypeInv, TypeOK
  <2>3. Fails(q) \/ Dropped(q) \/ LoginChecksActor(q) \/ AuthReadsUser(q) \/ AuthReadsActor(q)
    BY <1>3, <2>2, Leaves DEF LateAt, At
  <2>4. ~Dropped(q) /\ ~Fails(q)
    BY <2>2 DEF Dropped, Fails, LateAt, At
  <2>5. CASE LoginChecksActor(q)
    BY <2>2, <2>5 DEF LoginChecksActor, At, LateAt, Stamped
  <2>6. CASE AuthReadsUser(q)
    BY <2>2, <2>6 DEF AuthReadsUser, Reads, LateAt, Stamped, tables, TypeInv, TypeOK
  <2>7. CASE AuthReadsActor(q)
    BY <2>2, <2>7 DEF AuthReadsActor, ActorServed, LateAt, Stamped
  <2> QED BY <2>3, <2>4, <2>5, <2>6, <2>7
<1> QED BY <1>1, <1>2, <1>3, OwnStatements

\* No request that came when its account was not approved, suspended or deleted
\* gets past the checks of login or of the extractor.
THEOREM NobodyLate == Spec => []NoLateAccess
<1>1. Init => KnownInv /\ LateKnown
  BY KnownInit DEF Init, LateKnown
<1>2. KnownInv /\ LateKnown /\ [Next]_vars => KnownInv' /\ LateKnown'
  BY KnownInvStep, LateStep DEF LateKnown
<1>3. KnownInv /\ LateKnown => NoLateAccess
  BY DEF LateKnown, LateAt, NoLateAccess
<1> QED BY <1>1, <1>2, <1>3, PTL DEF Spec

-----------------------------------------------------------------------------
(* Sessions and reset links are revoked.                                   *)

\* A handler that still has to delete the sessions, or the reset links, of its
\* account.
EndsSessions(r) ==
  \/ op[r] = "reset" /\ pc[r] \in {"invalidating", "revoking"}
  \/ op[r] = "suspend" /\ pc[r] = "revoking"
  \/ op[r] = "delete" /\ pc[r] \in {"burying", "revoking"}
EndsLinks(r) ==
  \/ op[r] = "reset" /\ pc[r] = "invalidating"
  \/ op[r] = "delete" /\ pc[r] \in {"burying", "revoking", "unlinking"}

StaleSession(s) ==
  session[s].owner # NoName /\
    (session[s].hash # user[session[s].owner].hash \/ Barred(session[s].owner))
StaleLink(t) ==
  Usable(t, "password_reset") /\
    (token[t].hash # user[token[t].owner].hash \/ user[token[t].owner].deleted)

SessionExcused(s) ==
  \/ session[s].raced \/ Cut(session[s].owner)
  \/ \E r \in Requests : EndsSessions(r) /\ name[r] = session[s].owner
LinkExcused(t) ==
  \/ token[t].raced \/ Cut(token[t].owner)
  \/ \E r \in Requests : EndsLinks(r) /\ name[r] = token[t].owner

RevokedInv ==
  /\ \A s \in Sessions : StaleSession(s) => SessionExcused(s)
  /\ \A t \in Tokens : StaleLink(t) => LinkExcused(t)

\* RevokedInv says more than CredentialsRevoked: it names the handler and the
\* statement that will revoke.
LEMMA RevokedImplies ==
  ASSUME TypeOK, RevokedInv
  PROVE  CredentialsRevoked
<1>1. ASSUME NEW r \in Requests, EndsSessions(r) \/ EndsLinks(r) PROVE Revoking(name[r])
  BY <1>1 DEF EndsSessions, EndsLinks, Revoking, Revokers, RevokerPhases, Busy
<1> QED BY <1>1 DEF RevokedInv, CredentialsRevoked, StaleSession, StaleLink, SessionExcused, LinkExcused

\* A cut handler stays on record.
LEMMA CutStays ==
  ASSUME [Next]_vars, NEW n, Cut(n)
  PROVE  Cut(n)'
  BY CutGrows DEF Cut, CutAt

\* A handler that failed is on record.
LEMMA CutRecorded ==
  ASSUME TypeOK, NEW q \in Requests, NEW n, name[q] = n, Fails(q) \/ Dropped(q),
         op[q] \in Revokers, pc[q] \in RevokerPhases
  PROVE  Cut(n)'
<1>1. <<op[q], pc[q], n>> \in cut' \/ <<op[q], "skipped", n>> \in cut'
  BY DEF Fails, Dropped, At, Cuts, Owed, Revokers, RevokerPhases
<1> QED BY <1>1 DEF Cut, CutAt

\* The handler goes on to the statement that deletes the sessions; one that
\* stays past it belongs to somebody else.
LEMMA EndsSessionsStep ==
  ASSUME TypeInv, [Next]_vars, NEW q \in Requests, EndsSessions(q), NEW n, name[q] = n
  PROVE  \/ EndsSessions(q)' /\ name'[q] = n
         \/ Cut(n)'
         \/ \A s \in Sessions : session'[s].owner # NoName => session'[s].owner # n
<1> USE DEF TypeInv
<1>1. CASE Same(q)
  BY <1>1 DEF Same, EndsSessions
<1>2. CASE Statement(q)
  <2>1. Fails(q) \/ Dropped(q) \/ InvalidateTokens(q) \/ BuryActor(q) \/ RevokeSessions(q)
    BY <1>2, Leaves DEF EndsSessions, At
  <2>2. CASE Fails(q) \/ Dropped(q)
    BY <2>2, CutRecorded DEF EndsSessions, Revokers, RevokerPhases
  <2>3. CASE InvalidateTokens(q)
    BY <2>3 DEF InvalidateTokens, At, Goes, EndsSessions, TypeOK
  <2>4. CASE BuryActor(q)
    BY <2>4 DEF BuryActor, At, Goes, EndsSessions, TypeOK
  <2>5. CASE RevokeSessions(q)
    BY <2>5 DEF RevokeSessions, Revoked, NoSession, TypeOK
  <2> QED BY <2>1, <2>2, <2>3, <2>4, <2>5
<1> QED BY <1>1, <1>2, OwnStatements

\* The same of the reset links.
LEMMA EndsLinksStep ==
  ASSUME TypeInv, [Next]_vars, NEW q \in Requests, EndsLinks(q), NEW n, name[q] = n
  PROVE  \/ EndsLinks(q)' /\ name'[q] = n
         \/ Cut(n)'
         \/ \A t \in Tokens : Usable(t, "password_reset")' => token'[t].owner # n
<1> USE DEF TypeInv
<1>1. CASE Same(q)
  BY <1>1 DEF Same, EndsLinks
<1>2. CASE Statement(q)
  <2>1. \/ Fails(q) \/ Dropped(q) \/ InvalidateTokens(q) \/ BuryActor(q) \/ DeleteTokens(q)
        \/ op[q] = "delete" /\ RevokeSessions(q)
    BY <1>2, Leaves DEF EndsLinks, At
  <2>2. CASE Fails(q) \/ Dropped(q)
    BY <2>2, CutRecorded DEF EndsLinks, Revokers, RevokerPhases
  <2>3. CASE InvalidateTokens(q)
    BY <2>3 DEF InvalidateTokens, Invalidated, Usable, TypeOK
  <2>4. CASE BuryActor(q)
    BY <2>4 DEF BuryActor, At, Goes, EndsLinks, TypeOK
  <2>5. CASE DeleteTokens(q)
    BY <2>5 DEF DeleteTokens, NoToken, Usable, TypeOK
  <2>6. CASE op[q] = "delete" /\ RevokeSessions(q)
    BY <2>6 DEF RevokeSessions, AfterRevoking, Goes, EndsLinks, TypeOK
  <2> QED BY <2>1, <2>2, <2>3, <2>4, <2>5, <2>6
<1> QED BY <1>1, <1>2, OwnStatements

\* The password of an active account is replaced, or the account erased, by a
\* handler that still has to end its sessions and its links.
LEMMA CredentialsStep ==
  ASSUME KnownInv, [Next]_vars, NEW n \in Names, Active(n),
         user'[n].hash # user[n].hash \/ user'[n].deleted # user[n].deleted
  PROVE  \E r \in Requests : EndsSessions(r)' /\ EndsLinks(r)' /\ name'[r] = n
<1> USE DEF KnownInv, TypeInv, TypeOK, Active
<1>1. ASSUME NEW r \in Requests, CreateUser(r) PROVE FALSE
  <2>1. n # name[r]
    BY <1>1 DEF CreateUser, At, Registers, Known
  <2> QED BY <1>1, <2>1, CreateInserts DEF Inserts
<1>2. ASSUME NEW r \in Requests, VerifyEmail(r) PROVE FALSE
  BY <1>2 DEF VerifyEmail
<1>3. ASSUME NEW r \in Requests, SetPassword(r) PROVE EndsSessions(r)' /\ EndsLinks(r)' /\ name'[r] = n
  BY <1>3 DEF SetPassword, At, Goes, EndsSessions, EndsLinks
<1>4. ASSUME NEW r \in Requests, Erase(r) PROVE EndsSessions(r)' /\ EndsLinks(r)' /\ name'[r] = n
  BY <1>4 DEF Erase, At, Goes, EndsSessions, EndsLinks
<1>5. ASSUME NEW r \in Requests, Approve(r) PROVE FALSE
  BY <1>5 DEF Approve
<1> QED BY <1>1, <1>2, <1>3, <1>4, <1>5, UserWrites

\* An actor is stamped by a handler that still has to end its sessions.
LEMMA StampStep ==
  ASSUME TypeInv, [Next]_vars, NEW n \in Names, ~Stamped(n), Stamped(n)'
  PROVE  \E r \in Requests : EndsSessions(r)' /\ name'[r] = n
<1> USE DEF TypeInv, TypeOK, Stamped
<1>1. ASSUME NEW r \in Requests, CreateActor(r) PROVE FALSE
  BY <1>1 DEF CreateActor
<1>2. ASSUME NEW r \in Requests, UndoActor(r) PROVE FALSE
  BY <1>2 DEF UndoActor
<1>3. ASSUME NEW r \in Requests, BuryActor(r) PROVE EndsSessions(r)' /\ name'[r] = n
  BY <1>3 DEF BuryActor, At, Goes, EndsSessions
<1>4. ASSUME NEW r \in Requests, SuspendActor(r) PROVE EndsSessions(r)' /\ name'[r] = n
  BY <1>4 DEF SuspendActor, At, Goes, EndsSessions
<1> QED BY <1>1, <1>2, <1>3, <1>4, ActorWrites

\* Every stale session is excused after every step.
LEMMA SessionsRevokedStep ==
  ASSUME KnownInv, RevokedInv, [Next]_vars, NEW s \in Sessions, StaleSession(s)'
  PROVE  SessionExcused(s)'
<1> USE DEF KnownInv
<1>0. session'[s].owner # NoName
  BY DEF StaleSession
<1>1. ASSUME NEW r \in Requests, Opened(r, s) PROVE SessionExcused(s)'
  <2>1. user' = user /\ actor' = actor
    BY <1>1 DEF Opened, CreateSession
  <2> QED BY <1>1, <2>1 DEF Opened, StaleSession, SessionExcused, Barred
<1>2. CASE /\ session'[s].owner = session[s].owner /\ session'[s].hash = session[s].hash
           /\ session'[s].raced = session[s].raced
  <2>1. PICK n \in Names : n = session[s].owner /\ Active(n)
    BY <1>0, <1>2 DEF TypeInv, TypeOK, OwnersActive
  <2>2. CASE StaleSession(s)
    <3>1. SessionExcused(s)
      BY <2>2 DEF RevokedInv
    <3>2. CASE session[s].raced
      BY <1>2, <3>2 DEF SessionExcused
    <3>3. CASE Cut(n)
      BY <2>1, <1>2, <3>3, CutStays DEF SessionExcused
    <3>4. ASSUME NEW r \in Requests, EndsSessions(r), name[r] = n PROVE SessionExcused(s)'
      BY <2>1, <1>0, <1>2, <3>4, EndsSessionsStep DEF SessionExcused, Cut, TypeInv
    <3> QED BY <2>1, <3>1, <3>2, <3>3, <3>4 DEF SessionExcused
  <2>3. CASE ~StaleSession(s)
    <3>1. session[s].hash = user[n].hash /\ ~Barred(n)
      BY <2>1, <1>0, <1>2, <2>3 DEF StaleSession
    <3>2. session[s].hash # user'[n].hash \/ Barred(n)'
      BY <2>1, <1>2 DEF StaleSession, Barred
    <3>3. ~Stamped(n) /\ user[n].deleted # TRUE
      BY <3>1 DEF Barred, Stamped
    <3>4. Active(n)'
      BY <2>1, ActiveStays
    <3>5. user'[n].hash # user[n].hash \/ user'[n].deleted # user[n].deleted \/ Stamped(n)'
      BY <3>1, <3>2, <3>4 DEF Barred, Stamped, Active
    <3>6. \E r \in Requests : EndsSessions(r)' /\ name'[r] = n
      BY <2>1, <3>3, <3>5, CredentialsStep, StampStep DEF TypeInv
    <3> QED BY <2>1, <1>2, <3>6 DEF SessionExcused
  <2> QED BY <2>2, <2>3
<1> QED BY <1>0, <1>1, <1>2, SessionStep

\* Every stale reset link is excused after every step.
LEMMA LinksRevokedStep ==
  ASSUME KnownInv, RevokedInv, [Next]_vars, NEW t \in Tokens, StaleLink(t)'
  PROVE  LinkExcused(t)'
<1> USE DEF KnownInv
<1>0. token'[t].kind = "password_reset" /\ token'[t].state = "fresh"
  BY DEF StaleLink, Usable
<1>1. ASSUME NEW r \in Requests, Given(r, t) PROVE LinkExcused(t)'
  <2>1. user' = user
    BY <1>1 DEF Given, IssueToken
  <2> QED BY <1>1, <2>1 DEF Given, StaleLink, LinkExcused
<1>2. CASE /\ token'[t].owner = token[t].owner /\ token'[t].hash = token[t].hash
           /\ token'[t].raced = token[t].raced /\ token'[t].kind = token[t].kind
           /\ token[t].state # "none" /\ token'[t].state \in {token[t].state, "used", "expired"}
  <2>1. PICK n \in Names : n = token[t].owner /\ Active(n)
    BY <1>2 DEF TypeInv, TokensOwned, OwnersActive
  <2>2. Usable(t, "password_reset")
    BY <1>0, <1>2 DEF Usable
  <2>3. CASE StaleLink(t)
    <3>1. LinkExcused(t)
      BY <2>3 DEF RevokedInv
    <3>2. CASE token[t].raced
      BY <1>2, <3>2 DEF LinkExcused
    <3>3. CASE Cut(n)
      BY <2>1, <1>2, <3>3, CutStays DEF LinkExcused
    <3>4. ASSUME NEW r \in Requests, EndsLinks(r), name[r] = n PROVE LinkExcused(t)'
      <4>1. Usable(t, "password_reset")'
        BY <1>0 DEF Usable
      <4> QED BY <2>1, <1>2, <3>4, <4>1, EndsLinksStep DEF LinkExcused, Cut, TypeInv
    <3> QED BY <2>1, <3>1, <3>2, <3>3, <3>4 DEF LinkExcused
  <2>4. CASE ~StaleLink(t)
    <3>1. token[t].hash = user[n].hash /\ user[n].deleted # TRUE
      BY <2>1, <2>2, <2>4 DEF StaleLink
    <3>2. token[t].hash # user'[n].hash \/ user'[n].deleted
      BY <2>1, <1>2 DEF StaleLink
    <3>3. \E r \in Requests : EndsLinks(r)' /\ name'[r] = n
      BY <2>1, <3>1, <3>2, CredentialsStep
    <3> QED BY <2>1, <1>2, <3>3 DEF LinkExcused
  <2> QED BY <2>3, <2>4
<1> QED BY <1>0, <1>1, <1>2, TokenStep

\* A session whose password was replaced or whose account was suspended or
\* deleted, and a reset link asked for under an earlier password or for an
\* account deleted since, work only while the handler that must revoke them is
\* under way, after it failed, or when they were inserted by a login or a
\* request_reset that had read the account before.
THEOREM CredentialsAreRevoked == Spec => []CredentialsRevoked
<1>1. Init => KnownInv /\ RevokedInv
  <2>1. ASSUME Init PROVE RevokedInv
    BY <2>1 DEF Init, RevokedInv, StaleSession, StaleLink, Usable, NoSession, NoToken
  <2> QED BY <2>1, KnownInit
<1>2. KnownInv /\ RevokedInv /\ [Next]_vars => KnownInv' /\ RevokedInv'
  BY KnownInvStep, SessionsRevokedStep, LinksRevokedStep DEF RevokedInv
<1>3. KnownInv /\ RevokedInv => CredentialsRevoked
  BY RevokedImplies DEF KnownInv, TypeInv
<1> QED BY <1>1, <1>2, <1>3, PTL DEF Spec
=============================================================================
