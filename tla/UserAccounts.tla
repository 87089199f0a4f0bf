---------------------------- MODULE UserAccounts ----------------------------
(***************************************************************************)
(* Registration by email and its verification (app/modules/users, POST     *)
(* /auth/register and /auth/verify-email), by concurrent sessions at READ  *)
(* COMMITTED.  A variable holds what is committed.                         *)
(*                                                                         *)
(* The ORM makes two reads of a row it changes: one for the decision,      *)
(* whose object is dropped, and one for the change.  The UPDATE names the  *)
(* columns whose new value differs from that second read, and waits for    *)
(* nothing but the row, so it may overwrite what was committed meanwhile.  *)
(***************************************************************************)
EXTENDS Integers, FiniteSets

CONSTANTS
    Logins,         \* email addresses
    Sessions,       \* threads of the API process
    NoSession,      \* the holder of a login that nobody is inserting
    MaxAttempts,    \* EMAIL_VERIFICATION_MAX_ATTEMPTS
    MaxRequests     \* bound: requests served in a behaviour

ASSUME AccountsAssumption ==
    /\ NoSession \notin Sessions
    /\ MaxAttempts \in Nat \ {0}
    /\ MaxRequests \in Nat

VARIABLES
    users,      \* rows of users, each with its wallet; named after the request
    owner,      \* user_identities.user_id, 0 without an identity
    row,        \* the other columns of a login's identity
    late,       \* logins whose verification_expires_at is past
    inserting,  \* who has an uncommitted identity with this login
    session,    \* what each thread is doing
    requests,   \* requests received so far
    wrong,      \* history variable: wrong codes answered with a login's count
    again       \* history variable: logins whose owner was told to register again

vars == <<users, owner, row, late, inserting, session, requests, wrong, again>>

----------------------------------------------------------------------------
(* Identities and requests                                                 *)

\* The code and its expiry are written together; 0 stands for no count, which
\* is how decrement_identity_attempt takes it.
Rows == [verified : BOOLEAN, code : {"none", "set"}, left : 0 .. MaxAttempts]
FreshRow == [verified |-> FALSE, code |-> "none", left |-> 0]

\* Phases of a registration, and of a verification
Registering == {"added", "checked", "inserted", "registered"}
Verifying == {"clearing", "guessing", "verifying", "writing"}

IdleSession == [phase |-> "idle"]
Requests ==
    [phase  : Registering \cup Verifying,
     login  : Logins,
     user   : 1 .. MaxRequests,     \* the number of the request
     guess  : BOOLEAN,              \* the submitted code was wrong
     ended  : BOOLEAN,              \* the code is withdrawn
     before : Rows,                 \* the second read of the row
     after  : Rows]                 \* what the ORM makes of it

Idle(s) == session[s].phase = "idle"

\* A request begins in some phase.
Begin(s, l, phase) ==
    /\ Idle(s)
    /\ requests < MaxRequests
    /\ requests' = requests + 1
    /\ session' = [session EXCEPT ![s] =
          [phase |-> phase, login |-> l, user |-> requests + 1, guess |-> FALSE,
           ended |-> FALSE, before |-> FreshRow, after |-> FreshRow]]

\* It ends, and with it its transaction.
End(s) == session' = [session EXCEPT ![s] = IdleSession]

\* Mutation of Released: the transaction stays open.
ReleasedNever(s) == inserting

Released(s) == [l \in Logins |-> IF inserting[l] = s THEN NoSession ELSE inserting[l]]

Init ==
    /\ users = {}
    /\ owner = [l \in Logins |-> 0]
    /\ row = [l \in Logins |-> FreshRow]
    /\ late = {}
    /\ inserting = [l \in Logins |-> NoSession]
    /\ session = [s \in Sessions |-> IdleSession]
    /\ requests = 0
    /\ wrong = [l \in Logins |-> 0]
    /\ again = {}

----------------------------------------------------------------------------
(* POST /auth/register                                                     *)

\* Mutation of Register: it commits the user.
RegisterAndCommit(s, l) ==
    /\ Begin(s, l, "added")
    /\ users' = users \cup {requests + 1}
    /\ UNCHANGED <<owner, row, late, inserting, wrong, again>>

\* The user and the wallet are flushed, visible to nobody.
Register(s, l) ==
    /\ Begin(s, l, "added")
    /\ UNCHANGED <<users, owner, row, late, inserting, wrong, again>>

\* register_email_identity looks for the login and goes on without one.
FindLogin(s) ==
    /\ session[s].phase = "added"
    /\ owner[session[s].login] = 0
    /\ session' = [session EXCEPT ![s].phase = "checked"]
    /\ UNCHANGED <<users, owner, row, late, inserting, requests, wrong, again>>

\* "Login already registered": everything is rolled back.
RefuseLogin(s) ==
    /\ session[s].phase = "added"
    /\ owner[session[s].login] # 0
    /\ End(s)
    /\ UNCHANGED <<users, owner, row, late, inserting, requests, wrong, again>>

\* Mutation of InsertIdentity: the table has no unique constraint.
InsertAnyway(s) ==
    /\ session[s].phase = "checked"
    /\ session' = [session EXCEPT ![s].phase = "inserted"]
    /\ UNCHANGED <<users, owner, row, late, inserting, requests, wrong, again>>

\* The INSERT waits for one of the same login, by the unique constraint.
InsertIdentity(s) ==
    /\ session[s].phase = "checked"
    /\ LET l == session[s].login IN
       /\ inserting[l] = NoSession
       /\ owner[l] = 0
       /\ inserting' = [inserting EXCEPT ![l] = s]
    /\ session' = [session EXCEPT ![s].phase = "inserted"]
    /\ UNCHANGED <<users, owner, row, late, requests, wrong, again>>

\* Another registration has committed the login: IntegrityError, rolled back.
InsertFails(s) ==
    /\ session[s].phase = "checked"
    /\ inserting[session[s].login] = NoSession
    /\ owner[session[s].login] # 0
    /\ End(s)
    /\ UNCHANGED <<users, owner, row, late, inserting, requests, wrong, again>>

\* The first commit: user, wallet and identity.
CommitIdentity(s) ==
    /\ session[s].phase = "inserted"
    /\ users' = users \cup {session[s].user}
    /\ owner' = [owner EXCEPT ![session[s].login] = session[s].user]
    /\ row' = [row EXCEPT ![session[s].login] = FreshRow]
    /\ inserting' = Released(s)
    /\ session' = [session EXCEPT ![s].phase = "registered"]
    /\ UNCHANGED <<late, requests, wrong, again>>

\* The second: start_email_verification sets code, expiry and count.
IssueCode(s) ==
    /\ session[s].phase = "registered"
    /\ row' = [row EXCEPT ![session[s].login].code = "set",
                          ![session[s].login].left = MaxAttempts]
    /\ End(s)
    /\ UNCHANGED <<users, owner, late, inserting, requests, wrong, again>>

----------------------------------------------------------------------------
(* POST /auth/verify-email                                                 *)

\* Time passes.
Expire(l) ==
    /\ row[l].code = "set" /\ l \notin late
    /\ late' = late \cup {l}
    /\ UNCHANGED <<users, owner, row, inserting, session, requests, wrong, again>>

\* The first read decides: no identity or no code, and the request is refused;
\* an expired code is to be cleared, a wrong one costs an attempt.
Verify(s, l, right) ==
    /\ owner[l] # 0 /\ row[l].code = "set"
    /\ Begin(s, l, IF l \in late THEN "clearing"
                   ELSE IF right THEN "verifying" ELSE "guessing")
    /\ UNCHANGED <<users, owner, row, late, inserting, wrong, again>>

\* Mutation of Attempt: the count goes down by two.
AttemptTwice(r) ==
    IF r.left <= 2 THEN [r EXCEPT !.code = "none", !.left = 0]
                   ELSE [r EXCEPT !.left = @ - 2]

\* decrement_identity_attempt and, when nothing is left, clear_identity_verification
Attempt(r) ==
    IF r.left <= 1 THEN [r EXCEPT !.code = "none", !.left = 0]
                   ELSE [r EXCEPT !.left = @ - 1]

\* Mutation of Change: who clears a late code takes a verification back.
ChangeForgetting(s) ==
    /\ session[s].phase \in {"clearing", "guessing", "verifying"}
    /\ LET r == row[session[s].login]
           guess == session[s].phase = "guessing"
       IN session' = [session EXCEPT
             ![s].phase = "writing",
             ![s].guess = guess,
             ![s].ended = ~guess \/ Attempt(r).left = 0,
             ![s].before = r,
             ![s].after = IF guess THEN Attempt(r)
                          ELSE [verified |-> session[s].phase = "verifying",
                                code |-> "none", left |-> 0]]
    /\ UNCHANGED <<users, owner, row, late, inserting, requests, wrong, again>>

\* The second read, and the object as the service leaves it before the commit.
Change(s) ==
    /\ session[s].phase \in {"clearing", "guessing", "verifying"}
    /\ LET r == row[session[s].login]
           guess == session[s].phase = "guessing"
       IN session' = [session EXCEPT
             ![s].phase = "writing",
             ![s].guess = guess,
             ![s].ended = ~guess \/ Attempt(r).left = 0,
             ![s].before = r,
             ![s].after = IF guess THEN Attempt(r)
                          ELSE [verified |-> r.verified \/ session[s].phase = "verifying",
                                code |-> "none", left |-> 0]]
    /\ UNCHANGED <<users, owner, row, late, inserting, requests, wrong, again>>

\* What an UPDATE of the changed columns makes of the row that is stored.
Updated(stored, before, after) ==
    [c \in DOMAIN stored |-> IF before[c] # after[c] THEN after[c] ELSE stored[c]]

\* The commit.  A client whose code is withdrawn is told to register again.
CommitChange(s) ==
    /\ session[s].phase = "writing"
    /\ LET r == session[s] IN
       /\ row' = [row EXCEPT ![r.login] = Updated(@, r.before, r.after)]
       /\ wrong' = IF r.guess THEN [wrong EXCEPT ![r.login] = @ + 1] ELSE wrong
       /\ again' = IF r.ended /\ ~r.after.verified THEN again \cup {r.login} ELSE again
    /\ End(s)
    /\ UNCHANGED <<users, owner, late, inserting, requests>>

\* An error of the database or the end of the process: rolled back.
Abort(s) ==
    /\ ~Idle(s)
    /\ End(s)
    /\ inserting' = Released(s)
    /\ UNCHANGED <<users, owner, row, late, requests, wrong, again>>

----------------------------------------------------------------------------
Step(s) ==
    \/ FindLogin(s)
    \/ RefuseLogin(s)
    \/ InsertIdentity(s)
    \/ InsertFails(s)
    \/ CommitIdentity(s)
    \/ IssueCode(s)
    \/ Change(s)
    \/ CommitChange(s)

Next ==
    \/ \E s \in Sessions, l \in Logins :
          Register(s, l) \/ \E right \in BOOLEAN : Verify(s, l, right)
    \/ \E s \in Sessions : Step(s) \/ Abort(s)
    \/ \E l \in Logins : Expire(l)

Spec == Init /\ [][Next]_vars

\* A thread that can run does; the waiters of a unique index get their turn.
Fairness == \A s \in Sessions : SF_vars(Step(s))

FairSpec == Spec /\ Fairness

----------------------------------------------------------------------------
(* Properties                                                              *)

\* Every variable has its type.
TypeOK ==
    /\ users \subseteq 1 .. MaxRequests
    /\ owner \in [Logins -> 0 .. MaxRequests]
    /\ row \in [Logins -> Rows]
    /\ late \subseteq Logins /\ again \subseteq Logins
    /\ inserting \in [Logins -> Sessions \cup {NoSession}]
    /\ session \in [Sessions -> Requests \cup {IdleSession}]
    /\ requests \in 0 .. MaxRequests
    /\ wrong \in [Logins -> Nat]

\* Whatever fails, nobody is left without an identity, and no two logins have
\* the same user: user, wallet and identity are one transaction.
UsersHaveIdentities ==
    /\ users = {owner[l] : l \in Logins} \ {0}
    /\ \A k, l \in Logins : owner[k] = owner[l] /\ owner[k] # 0 => k = l

\* Two registrations with one login, between the look for it and the INSERT:
\* the second never takes the identity of the first.
IdentitiesKeepTheirUser ==
    [][\A l \in Logins : owner[l] # 0 => owner'[l] = owner[l]]_vars

\* The count may lose wrong codes that are submitted at once, but never takes an
\* attempt that was not made: a code that is not late is withdrawn only after
\* MaxAttempts wrong ones.
AttemptsAreGiven ==
    \A l \in Logins :
        /\ row[l].code = "set" => row[l].left > 0 /\ row[l].left + wrong[l] >= MaxAttempts
        /\ l \in again \ late => wrong[l] >= MaxAttempts

\* A verification is final: no wrong or late code that is still on its way
\* brings back a code or takes the verification away.
VerificationIsFinal ==
    [][\A l \in Logins : row[l].verified =>
          row'[l].verified /\ row'[l].code = "none"]_vars

\* A registration that is on its way has a user of its own, and one that has
\* inserted its login holds it.
UsersAreFresh ==
    /\ \A s \in Sessions : ~Idle(s) =>
          /\ session[s].user <= requests
          /\ \A r \in Sessions \ {s} : ~Idle(r) => session[r].user # session[s].user
          /\ session[s].phase \in {"added", "checked", "inserted"} => session[s].user \notin users
    /\ \A u \in users : u <= requests
InsertsAreOwned ==
    /\ \A l \in Logins : inserting[l] # NoSession =>
          /\ owner[l] = 0
          /\ session[inserting[l]].phase = "inserted" /\ session[inserting[l]].login = l
    /\ \A s \in Sessions : session[s].phase = "inserted" => inserting[session[s].login] = s

\* Until a login has its code, nobody verifies it.
Untouched(l) ==
    /\ row[l] = FreshRow /\ wrong[l] = 0 /\ l \notin late \cup again
    /\ \A s \in Sessions : session[s].phase \in Verifying => session[s].login # l
LoginsStartFresh ==
    /\ \A l \in Logins : owner[l] = 0 => Untouched(l)
    /\ \A s \in Sessions : session[s].phase = "registered" =>
          owner[session[s].login] = session[s].user /\ Untouched(session[s].login)

\* A code that is gone does not come back, and its login is verified or was told.
Withdrawn(r, l) == r.code = "none" /\ ~r.verified => l \in again
VerifiedHaveNoCode == \A l \in Logins : row[l].verified => row[l].code = "none"
VerifyingKnow ==
    \A s \in Sessions : session[s].phase \in Verifying =>
        /\ Withdrawn(row[session[s].login], session[s].login)
        /\ session[s].phase = "clearing" => session[s].login \in late

\* What a request is about to write, and what it has read before.
ReadsWereTrue ==
    \A s \in Sessions : session[s].phase = "writing" =>
        LET r == session[s] IN
        /\ r.before.verified => r.before.code = "none" /\ row[r.login].verified
        /\ r.before.code = "none" => row[r.login].code = "none"
        /\ r.before.code = "set" =>
              r.before.left > 0 /\ r.before.left + wrong[r.login] >= MaxAttempts
        /\ Withdrawn(r.before, r.login)
WritesFollowReads ==
    \A s \in Sessions : session[s].phase = "writing" =>
        LET r == session[s] IN
        \/ /\ r.guess
           /\ r.after = Attempt(r.before) /\ r.ended = (Attempt(r.before).left = 0)
        \/ /\ ~r.guess
           /\ r.after.code = "none" /\ r.after.left = 0 /\ r.ended
           /\ r.before.verified => r.after.verified
           /\ r.after.verified \/ r.login \in late

\* The inductive invariant.
IInv ==
    /\ TypeOK
    /\ UsersHaveIdentities
    /\ UsersAreFresh
    /\ InsertsAreOwned
    /\ LoginsStartFresh
    /\ VerifiedHaveNoCode
    /\ VerifyingKnow
    /\ ReadsWereTrue
    /\ WritesFollowReads
    /\ AttemptsAreGiven

\* Every request ends: nobody waits for ever for a login.
RequestsEnd == \A s \in Sessions : ~Idle(s) ~> Idle(s)

\* A client who was told to register again is not refused for having registered.
RegisterAgainWorks ==
    [][\A s \in Sessions : session[s].phase = "added" /\ session'[s].phase = "idle"
          /\ owner[session[s].login] # 0 => session[s].login \notin again]_vars
=============================================================================
