---------------------------- MODULE AccountProofs ----------------------------
(***************************************************************************)
(* What module UserAccounts claims of safety, for any logins, sessions and *)
(* limits.  One half of the invariant says whose a login is, the other     *)
(* what an UPDATE may make of a row that has changed since it was read.    *)
(***************************************************************************)
EXTENDS UserAccounts, TLAPS

USE DEF vars, Idle

----------------------------------------------------------------------------
(* Rows                                                                    *)

\* What the ORM makes of a row, and what it writes, are rows.
LEMMA AttemptType ==
    ASSUME NEW r \in Rows
    PROVE  /\ Attempt(r) \in Rows
           /\ Attempt(r).verified = r.verified
           /\ r.left <= 1 => Attempt(r).code = "none" /\ Attempt(r).left = 0
           /\ r.left > 1 => Attempt(r).code = r.code /\ Attempt(r).left = r.left - 1
<1>1. /\ r.left \in 0 .. MaxAttempts /\ r.code \in {"none", "set"} /\ MaxAttempts \in Nat
      /\ r = [verified |-> r.verified, code |-> r.code, left |-> r.left]
  BY AccountsAssumption DEF Rows
<1>2. CASE r.left <= 1
  <2>1. Attempt(r) = [verified |-> r.verified, code |-> "none", left |-> 0]
    BY <1>1, <1>2 DEF Attempt, Rows
  <2>. QED
    BY <1>1, <1>2, <2>1 DEF Rows
<1>3. CASE ~(r.left <= 1)
  <2>1. Attempt(r) = [verified |-> r.verified, code |-> r.code, left |-> r.left - 1]
    BY <1>1, <1>3 DEF Attempt, Rows
  <2>2. r.left - 1 \in 0 .. MaxAttempts /\ r.left > 1
    BY <1>1, <1>3
  <2>. QED
    BY <1>1, <2>1, <2>2 DEF Rows
<1>. QED
  BY <1>2, <1>3

\* An UPDATE of the changed columns writes a row, column by column.
LEMMA UpdatedColumns ==
    ASSUME NEW stored \in Rows, NEW before \in Rows, NEW after \in Rows
    PROVE  LET u == Updated(stored, before, after) IN
           /\ u \in Rows
           /\ u.verified = IF before.verified # after.verified THEN after.verified ELSE stored.verified
           /\ u.code = IF before.code # after.code THEN after.code ELSE stored.code
           /\ u.left = IF before.left # after.left THEN after.left ELSE stored.left
<1>1. DOMAIN stored = {"verified", "code", "left"}
  BY DEF Rows
<1>. QED
  BY <1>1 DEF Updated, Rows

----------------------------------------------------------------------------
(* Types                                                                   *)

\* A session at work keeps a request.
LEMMA SessionType ==
    ASSUME TypeOK, NEW s \in Sessions
    PROVE  /\ Idle(s) => session[s] = IdleSession
           /\ ~Idle(s) => session[s] \in Requests
<1>1. session[s] \in Requests \cup {IdleSession}
  BY DEF TypeOK
<1>2. CASE session[s] \in Requests
  BY <1>2 DEF Requests, Registering, Verifying
<1>3. CASE session[s] = IdleSession
  BY <1>3 DEF IdleSession
<1>. QED
  BY <1>1, <1>2, <1>3

\* A request that begins has the next number for its user.
LEMMA BeginType ==
    ASSUME TypeOK, NEW s \in Sessions, NEW l \in Logins, NEW p \in Registering \cup Verifying,
           Begin(s, l, p)
    PROVE  /\ session' \in [Sessions -> Requests \cup {IdleSession}]
           /\ requests' = requests + 1 /\ requests' \in 1 .. MaxRequests
           /\ session'[s].phase = p /\ session'[s].login = l /\ session'[s].user = requests + 1
           /\ \A q \in Sessions \ {s} : session'[q] = session[q]
<1>1. requests \in Nat /\ MaxRequests \in Nat /\ MaxAttempts \in Nat
  BY AccountsAssumption DEF TypeOK
<1>2. requests + 1 \in 1 .. MaxRequests
  BY <1>1 DEF Begin
<1>3. FreshRow \in Rows
  BY <1>1 DEF FreshRow, Rows
<1>4. [phase |-> p, login |-> l, user |-> requests + 1, guess |-> FALSE,
       ended |-> FALSE, before |-> FreshRow, after |-> FreshRow] \in Requests
  BY <1>2, <1>3 DEF Requests
<1>. QED
  BY <1>2, <1>4 DEF Begin, TypeOK

\* A request that goes on keeps its login and its user.
LEMMA AdvanceType ==
    ASSUME TypeOK, NEW s \in Sessions, ~Idle(s), NEW p \in Registering \cup Verifying,
           session' = [session EXCEPT ![s].phase = p]
    PROVE  /\ session' \in [Sessions -> Requests \cup {IdleSession}]
           /\ session'[s].phase = p /\ session'[s].login = session[s].login
           /\ session'[s].user = session[s].user
           /\ \A q \in Sessions \ {s} : session'[q] = session[q]
<1>1. session[s] \in Requests
  BY SessionType
<1>2. [session[s] EXCEPT !.phase = p] \in Requests
  BY <1>1 DEF Requests
<1>. QED
  BY <1>1, <1>2 DEF TypeOK, Requests

\* A session that ends is idle, and nobody else is touched.
LEMMA EndType ==
    ASSUME TypeOK, NEW s \in Sessions, End(s)
    PROVE  /\ session' \in [Sessions -> Requests \cup {IdleSession}]
           /\ session'[s].phase = "idle"
           /\ \A q \in Sessions \ {s} : session'[q] = session[q]
BY DEF End, TypeOK, IdleSession

\* What a second read puts into the session.
LEMMA ChangeType ==
    ASSUME TypeOK, NEW s \in Sessions, Change(s)
    PROVE  LET l == session[s].login
               new == session'[s]
               guess == session[s].phase = "guessing"
           IN
           /\ session' \in [Sessions -> Requests \cup {IdleSession}]
           /\ \A q \in Sessions \ {s} : session'[q] = session[q]
           /\ l \in Logins /\ row[l] \in Rows
           /\ new.phase = "writing" /\ new.login = l /\ new.user = session[s].user
           /\ new.before = row[l] /\ new.guess = guess
           /\ guess => new.after = Attempt(row[l]) /\ new.ended = (Attempt(row[l]).left = 0)
           /\ ~guess =>
                 /\ new.after.code = "none" /\ new.after.left = 0 /\ new.ended
                 /\ new.after.verified = (row[l].verified \/ session[s].phase = "verifying")
<1>. DEFINE l == session[s].login
            guess == session[s].phase = "guessing"
            ended == ~guess \/ Attempt(row[l]).left = 0
            after == IF guess THEN Attempt(row[l])
                     ELSE [verified |-> row[l].verified \/ session[s].phase = "verifying",
                           code |-> "none", left |-> 0]
            new == [session[s] EXCEPT !.phase = "writing", !.guess = guess, !.ended = ended,
                                      !.before = row[l], !.after = after]
<1>1. session[s] \in Requests /\ l \in Logins /\ row[l] \in Rows
  BY SessionType DEF Change, Requests, TypeOK
<1>2. after \in Rows
  BY <1>1, AttemptType, AccountsAssumption DEF Rows
<1>3. session' = [session EXCEPT ![s] = new]
  BY DEF Change
<1>4. new \in Requests
  BY <1>1, <1>2 DEF Requests, Verifying
<1>. QED
  BY <1>1, <1>3, <1>4 DEF TypeOK, Requests

\* Every step keeps the types.
LEMMA TypeStep ==
    ASSUME TypeOK, [Next]_vars
    PROVE  TypeOK'
<1>. USE DEF TypeOK
<1>1. ASSUME NEW s \in Sessions, NEW l \in Logins, Register(s, l)
      PROVE  TypeOK'
  BY <1>1, BeginType DEF Register, Registering
<1>2. ASSUME NEW s \in Sessions, NEW l \in Logins, NEW right \in BOOLEAN, Verify(s, l, right)
      PROVE  TypeOK'
  <2>1. PICK p \in Verifying : Begin(s, l, p)
    BY <1>2 DEF Verify, Verifying
  <2>. QED
    BY <1>2, <2>1, BeginType DEF Verify
<1>3. ASSUME NEW s \in Sessions, FindLogin(s)
      PROVE  TypeOK'
  BY <1>3, AdvanceType DEF FindLogin, Registering
<1>4. ASSUME NEW s \in Sessions, RefuseLogin(s) \/ InsertFails(s)
      PROVE  TypeOK'
  BY <1>4, EndType DEF RefuseLogin, InsertFails
<1>5. ASSUME NEW s \in Sessions, InsertIdentity(s)
      PROVE  TypeOK'
  BY <1>5, AdvanceType DEF InsertIdentity, Registering
<1>6. ASSUME NEW s \in Sessions
      PROVE  Released(s) \in [Logins -> Sessions \cup {NoSession}]
  BY DEF Released
<1>7. ASSUME NEW s \in Sessions, CommitIdentity(s)
      PROVE  TypeOK'
  <2>1. session[s].login \in Logins /\ session[s].user \in 1 .. MaxRequests
    BY <1>7, SessionType DEF CommitIdentity, Requests
  <2>2. FreshRow \in Rows
    BY AccountsAssumption DEF FreshRow, Rows
  <2>3. row' \in [Logins -> Rows] /\ owner' \in [Logins -> 0 .. MaxRequests]
    BY <1>7, <2>1, <2>2, AccountsAssumption DEF CommitIdentity
  <2>4. session' \in [Sessions -> Requests \cup {IdleSession}]
    BY <1>7, AdvanceType DEF CommitIdentity, Registering
  <2>5. users' \subseteq 1 .. MaxRequests /\ inserting' \in [Logins -> Sessions \cup {NoSession}]
    BY <1>6, <1>7, <2>1 DEF CommitIdentity
  <2>. QED
    BY <1>7, <2>3, <2>4, <2>5 DEF CommitIdentity
<1>8. ASSUME NEW s \in Sessions, IssueCode(s)
      PROVE  TypeOK'
  <2>1. session[s].login \in Logins
    BY <1>8, SessionType DEF IssueCode, Requests
  <2>2. [row[session[s].login] EXCEPT !.code = "set", !.left = MaxAttempts] \in Rows
    <3>1. MaxAttempts \in 0 .. MaxAttempts /\ row[session[s].login] \in Rows
      BY <2>1, AccountsAssumption
    <3>. QED
      BY <3>1 DEF Rows
  <2>3. row' \in [Logins -> Rows]
    BY <1>8, <2>1, <2>2 DEF IssueCode
  <2>. QED
    BY <1>8, <2>3, EndType DEF IssueCode
<1>9. ASSUME NEW s \in Sessions, Change(s)
      PROVE  TypeOK'
  BY <1>9, ChangeType DEF Change
<1>10. ASSUME NEW s \in Sessions, CommitChange(s)
       PROVE  TypeOK'
  <2>1. /\ session[s].login \in Logins
        /\ session[s].before \in Rows /\ session[s].after \in Rows
    BY <1>10, SessionType DEF CommitChange, Requests
  <2>2. row' \in [Logins -> Rows]
    BY <1>10, <2>1, UpdatedColumns DEF CommitChange
  <2>3. wrong' \in [Logins -> Nat] /\ again' \subseteq Logins
    BY <1>10, <2>1 DEF CommitChange
  <2>. QED
    BY <1>10, <2>2, <2>3, EndType DEF CommitChange
<1>11. ASSUME NEW s \in Sessions, Abort(s)
       PROVE  TypeOK'
  BY <1>6, <1>11, EndType DEF Abort
<1>12. ASSUME NEW l \in Logins, Expire(l)
       PROVE  TypeOK'
  BY <1>12 DEF Expire
<1>13. CASE UNCHANGED vars
  BY <1>13
<1>. QED
  BY <1>1, <1>2, <1>3, <1>4, <1>5, <1>7, <1>8, <1>9, <1>10, <1>11, <1>12, <1>13 DEF Next, Step

----------------------------------------------------------------------------
(* Whose a login is                                                        *)

Owned == UsersHaveIdentities /\ UsersAreFresh /\ InsertsAreOwned

\* A step of one session that commits no user.
LEMMA OwnedKept ==
    ASSUME TypeOK, Owned, NEW s \in Sessions, UNCHANGED <<users, owner, requests, inserting>>,
           \A q \in Sessions \ {s} : session'[q] = session[q],
           session[s].phase # "inserted", session'[s].phase # "inserted",
           Idle(s)' \/ (~Idle(s) /\ session'[s].user = session[s].user
                         /\ (session'[s].phase = "checked" => session[s].phase = "added")
                         /\ session'[s].phase # "added")
    PROVE  Owned'
<1>1. UsersHaveIdentities'
  BY DEF Owned, UsersHaveIdentities
<1>2. UsersAreFresh'
  BY DEF Owned, UsersAreFresh
<1>3. InsertsAreOwned'
  BY AccountsAssumption DEF Owned, InsertsAreOwned, TypeOK
<1>. QED
  BY <1>1, <1>2, <1>3 DEF Owned

\* A request that begins takes the next number.
LEMMA OwnedBegun ==
    ASSUME TypeOK, Owned, NEW s \in Sessions, NEW l \in Logins, NEW p, p \in Verifying \cup {"added"},
           Begin(s, l, p), UNCHANGED <<users, owner, inserting>>
    PROVE  Owned'
<1>1. /\ requests' = requests + 1 /\ requests \in Nat
      /\ session'[s].phase = p /\ session'[s].user = requests + 1
      /\ \A q \in Sessions \ {s} : session'[q] = session[q]
  <2>1. p \in Registering \cup Verifying
    BY DEF Registering
  <2>. QED
    BY <2>1, BeginType DEF TypeOK
<1>2. \A q \in Sessions : ~Idle(q) => session[q].user \in Nat
  BY SessionType, AccountsAssumption DEF Requests
<1>3. \A u \in users : u \in Nat
  BY AccountsAssumption DEF TypeOK
<1>4. UsersHaveIdentities'
  BY DEF Owned, UsersHaveIdentities
<1>5. UsersAreFresh'
  BY <1>1, <1>2, <1>3 DEF Owned, UsersAreFresh
<1>6. InsertsAreOwned'
  BY <1>1, AccountsAssumption DEF Owned, InsertsAreOwned, TypeOK, Begin, Verifying
<1>. QED
  BY <1>4, <1>5, <1>6 DEF Owned

\* Every step keeps users and logins together.
LEMMA OwnedStep ==
    ASSUME TypeOK, Owned, [Next]_vars
    PROVE  Owned'
<1>1. ASSUME NEW s \in Sessions, NEW l \in Logins, Register(s, l)
      PROVE  Owned'
  BY <1>1, OwnedBegun DEF Register
<1>2. ASSUME NEW s \in Sessions, NEW l \in Logins, NEW right \in BOOLEAN, Verify(s, l, right)
      PROVE  Owned'
  <2>1. PICK p \in Verifying : Begin(s, l, p)
    BY <1>2 DEF Verify, Verifying
  <2>. QED
    BY <1>2, <2>1, OwnedBegun DEF Verify
<1>3. ASSUME NEW s \in Sessions, FindLogin(s)
      PROVE  Owned'
  <2>1. /\ session'[s].phase = "checked" /\ session'[s].user = session[s].user
        /\ \A q \in Sessions \ {s} : session'[q] = session[q]
    BY <1>3, AdvanceType DEF FindLogin, Registering
  <2>. QED
    BY <1>3, <2>1, OwnedKept DEF FindLogin
<1>4. ASSUME NEW s \in Sessions,
             RefuseLogin(s) \/ InsertFails(s) \/ IssueCode(s) \/ CommitChange(s)
      PROVE  Owned'
  <2>1. End(s) /\ session[s].phase # "inserted" /\ UNCHANGED <<users, owner, requests, inserting>>
    BY <1>4 DEF RefuseLogin, InsertFails, IssueCode, CommitChange
  <2>. QED
    BY <2>1, EndType, OwnedKept
<1>5. ASSUME NEW s \in Sessions, Change(s)
      PROVE  Owned'
  BY <1>5, ChangeType, OwnedKept DEF Change
<1>6. ASSUME NEW s \in Sessions, InsertIdentity(s)
      PROVE  Owned'
  <2>. DEFINE l == session[s].login
  <2>1. /\ session'[s].phase = "inserted" /\ session'[s].login = l
        /\ session'[s].user = session[s].user
        /\ \A q \in Sessions \ {s} : session'[q] = session[q]
    BY <1>6, AdvanceType DEF InsertIdentity, Registering
  <2>2. l \in Logins
    BY <1>6, SessionType DEF InsertIdentity, Requests
  <2>3. UsersHaveIdentities' /\ UsersAreFresh'
    BY <1>6, <2>1 DEF InsertIdentity, Owned, UsersHaveIdentities, UsersAreFresh
  <2>4. \A r \in Sessions : session[r].phase = "inserted" => session[r].login # l
    BY <1>6, AccountsAssumption DEF InsertIdentity, Owned, InsertsAreOwned
  <2>5. InsertsAreOwned'
    BY <1>6, <2>1, <2>2, <2>4, AccountsAssumption DEF InsertIdentity, Owned, InsertsAreOwned, TypeOK
  <2>. QED
    BY <2>3, <2>5 DEF Owned
<1>7. ASSUME NEW s \in Sessions, CommitIdentity(s)
      PROVE  Owned'
  <2>. DEFINE l == session[s].login
              u == session[s].user
  <2>1. /\ session'[s].phase = "registered" /\ session'[s].user = u
        /\ \A q \in Sessions \ {s} : session'[q] = session[q]
    BY <1>7, AdvanceType DEF CommitIdentity, Registering
  <2>2. l \in Logins /\ u \in 1 .. MaxRequests /\ u # 0
    BY <1>7, SessionType DEF CommitIdentity, Requests
  <2>3. u \notin users /\ u <= requests
    BY <1>7 DEF CommitIdentity, Owned, UsersAreFresh
  <2>4. owner[l] = 0 /\ inserting[l] = s
    BY <1>7, <2>2, AccountsAssumption DEF CommitIdentity, Owned, InsertsAreOwned
  <2>5. /\ owner'[l] = u /\ \A k \in Logins \ {l} : owner'[k] = owner[k]
        /\ users' = users \cup {u}
    BY <1>7, <2>2 DEF CommitIdentity, TypeOK
  <2>6. \A k \in Logins : owner[k] # 0 => owner[k] \in users
    BY DEF Owned, UsersHaveIdentities
  <2>7. {owner'[k] : k \in Logins} \ {0} = ({owner[k] : k \in Logins} \ {0}) \cup {u}
    BY <2>2, <2>4, <2>5
  <2>8. UsersHaveIdentities'
    BY <2>2, <2>3, <2>5, <2>6, <2>7 DEF Owned, UsersHaveIdentities
  <2>9. UsersAreFresh'
    BY <1>7, <2>1, <2>3, <2>5 DEF CommitIdentity, Owned, UsersAreFresh
  <2>10. \A k \in Logins : inserting'[k] = IF inserting[k] = s THEN NoSession ELSE inserting[k]
    BY <1>7 DEF CommitIdentity, Released
  <2>11. InsertsAreOwned'
    BY <2>1, <2>4, <2>5, <2>10, SessionType, AccountsAssumption
       DEF Owned, InsertsAreOwned, TypeOK, Requests
  <2>. QED
    BY <2>8, <2>9, <2>11 DEF Owned
<1>8. ASSUME NEW s \in Sessions, Abort(s)
      PROVE  Owned'
  <2>1. session'[s].phase = "idle" /\ \A q \in Sessions \ {s} : session'[q] = session[q]
    BY <1>8, EndType DEF Abort
  <2>2. UsersHaveIdentities' /\ UsersAreFresh'
    BY <1>8, <2>1 DEF Abort, Owned, UsersHaveIdentities, UsersAreFresh
  <2>3. \A k \in Logins : inserting'[k] = IF inserting[k] = s THEN NoSession ELSE inserting[k]
    BY <1>8 DEF Abort, Released
  <2>4. InsertsAreOwned'
    BY <1>8, <2>1, <2>3, SessionType, AccountsAssumption
       DEF Abort, Owned, InsertsAreOwned, TypeOK, Requests
  <2>. QED
    BY <2>2, <2>4 DEF Owned
<1>9. ASSUME NEW l \in Logins, Expire(l)
      PROVE  Owned'
  BY <1>9 DEF Expire, Owned, UsersHaveIdentities, UsersAreFresh, InsertsAreOwned
<1>10. CASE UNCHANGED vars
  BY <1>10 DEF Owned, UsersHaveIdentities, UsersAreFresh, InsertsAreOwned
<1>. QED
  BY <1>1, <1>2, <1>3, <1>4, <1>5, <1>6, <1>7, <1>8, <1>9, <1>10 DEF Next, Step

----------------------------------------------------------------------------
(* Logins that have no code yet                                            *)

\* Who verifies a login that nobody can verify: only a session that has begun to.
LEMMA UntouchedKept ==
    ASSUME NEW l, Untouched(l), row'[l] = row[l], wrong'[l] = wrong[l],
           l \notin late' \cup again',
           \A r \in Sessions :
              \/ session'[r] = session[r]
              \/ session'[r].phase \notin Verifying
              \/ session'[r].login = session[r].login /\ session[r].phase \in Verifying
              \/ session'[r].login # l
    PROVE  Untouched(l)'
BY DEF Untouched, FreshRow

\* A session that verifies works on a login that has its code.
LEMMA VerifiedAreTouched ==
    ASSUME NEW s \in Sessions, session[s].phase \in Verifying
    PROVE  ~Untouched(session[s].login)
BY DEF Untouched

\* Steps that change no identity.
LEMMA StartKept ==
    ASSUME LoginsStartFresh, UNCHANGED <<owner, row, wrong, late, again>>, NEW s \in Sessions,
           \A q \in Sessions \ {s} : session'[q] = session[q],
           session'[s].phase # "registered",
           \/ session'[s].phase \notin Verifying
           \/ session'[s].login = session[s].login /\ session[s].phase \in Verifying
           \/ ~Untouched(session'[s].login)
    PROVE  LoginsStartFresh'
<1>1. ASSUME NEW l, Untouched(l)
      PROVE  Untouched(l)'
  BY <1>1, UntouchedKept DEF Untouched
<1>. QED
  BY <1>1 DEF LoginsStartFresh

\* Every step leaves a login without a code to the registration that gives it one.
LEMMA StartStep ==
    ASSUME TypeOK, Owned, LoginsStartFresh, [Next]_vars
    PROVE  LoginsStartFresh'
<1>1. ASSUME NEW s \in Sessions, NEW l \in Logins, Register(s, l)
      PROVE  LoginsStartFresh'
  <2>1. /\ session'[s].phase = "added"
        /\ \A q \in Sessions \ {s} : session'[q] = session[q]
    BY <1>1, BeginType DEF Register, Registering
  <2>. QED
    BY <1>1, <2>1, StartKept DEF Register, Verifying
<1>2. ASSUME NEW s \in Sessions, NEW l \in Logins, NEW right \in BOOLEAN, Verify(s, l, right)
      PROVE  LoginsStartFresh'
  <2>1. PICK p \in Verifying : Begin(s, l, p)
    BY <1>2 DEF Verify, Verifying
  <2>2. /\ session'[s].phase \in Verifying /\ session'[s].login = l
        /\ \A q \in Sessions \ {s} : session'[q] = session[q]
    BY <2>1, BeginType
  <2>3. ~Untouched(l)
    BY <1>2 DEF Verify, Untouched, FreshRow
  <2>. QED
    BY <1>2, <2>2, <2>3, StartKept DEF Verify, Verifying
<1>3. ASSUME NEW s \in Sessions, FindLogin(s) \/ InsertIdentity(s)
      PROVE  LoginsStartFresh'
  <2>1. /\ session'[s].phase \in {"checked", "inserted"}
        /\ \A q \in Sessions \ {s} : session'[q] = session[q]
    BY <1>3, AdvanceType DEF FindLogin, InsertIdentity, Registering
  <2>. QED
    BY <1>3, <2>1, StartKept DEF FindLogin, InsertIdentity, Verifying
<1>4. ASSUME NEW s \in Sessions, RefuseLogin(s) \/ InsertFails(s) \/ Abort(s)
      PROVE  LoginsStartFresh'
  <2>1. End(s) /\ UNCHANGED <<owner, row, wrong, late, again>>
    BY <1>4 DEF RefuseLogin, InsertFails, Abort
  <2>. QED
    BY <2>1, EndType, StartKept DEF Verifying
<1>5. ASSUME NEW s \in Sessions, Change(s)
      PROVE  LoginsStartFresh'
  BY <1>5, ChangeType, StartKept DEF Change, Verifying
<1>6. ASSUME NEW s \in Sessions, CommitIdentity(s)
      PROVE  LoginsStartFresh'
  <2>. DEFINE l == session[s].login
  <2>1. /\ session'[s].phase = "registered" /\ session'[s].login = l
        /\ session'[s].user = session[s].user
        /\ \A q \in Sessions \ {s} : session'[q] = session[q]
    BY <1>6, AdvanceType DEF CommitIdentity, Registering
  <2>2. l \in Logins /\ session[s].user # 0
    BY <1>6, SessionType DEF CommitIdentity, Requests
  <2>3. owner[l] = 0
    BY <1>6, <2>2, AccountsAssumption DEF CommitIdentity, Owned, InsertsAreOwned
  <2>4. Untouched(l)
    BY <2>2, <2>3 DEF LoginsStartFresh
  <2>5. /\ owner'[l] = session[s].user
        /\ \A k \in Logins \ {l} : owner'[k] = owner[k]
        /\ \A k \in Logins : Untouched(k) => row'[k] = row[k]
    BY <1>6, <2>2, <2>4 DEF CommitIdentity, TypeOK, Untouched
  <2>6. ASSUME NEW k \in Logins, Untouched(k)
        PROVE  Untouched(k)'
    <3>1. /\ wrong'[k] = wrong[k] /\ k \notin late' \cup again'
          /\ session'[s].phase \notin Verifying
      BY <1>6, <2>1, <2>6 DEF CommitIdentity, Untouched, Verifying
    <3>. QED
      BY <2>1, <2>5, <2>6, <3>1, UntouchedKept
  <2>7. ASSUME NEW r \in Sessions, session'[r].phase = "registered"
        PROVE  (owner[session[r].login] = session[r].user /\ Untouched(session[r].login))'
    <3>1. CASE r = s
      <4>1. Untouched(l)' /\ session'[r].login = l /\ session'[r].user = session[s].user
        BY <2>1, <2>2, <2>4, <2>6, <3>1
      <4>. QED
        BY <2>1, <2>5, <3>1, <4>1 DEF Untouched
    <3>2. CASE r # s
      <4>1. session'[r] = session[r] /\ session[r].login \in Logins /\ session[r].user # 0
        BY <2>1, <2>7, <3>2, SessionType DEF Requests
      <4>2. owner[session[r].login] = session[r].user /\ Untouched(session[r].login)
        BY <2>7, <4>1 DEF LoginsStartFresh
      <4>3. session[r].login # l
        BY <2>3, <4>1, <4>2
      <4>. QED
        <5>1. Untouched(session[r].login)' /\ session'[r].login = session[r].login
          <6>. DEFINE k == session[r].login
          <6>1. k \in Logins /\ Untouched(k)
            BY <4>1, <4>2
          <6>2. wrong'[k] = wrong[k] /\ k \notin late' \cup again' /\ row'[k] = row[k]
            BY <1>6, <2>5, <6>1 DEF CommitIdentity, Untouched
          <6>. QED
            BY <2>1, <4>1, <6>1, <6>2 DEF Untouched, Verifying
        <5>. QED
          BY <2>5, <4>1, <4>2, <4>3, <5>1
    <3>. QED
      BY <3>1, <3>2
  <2>8. \A k \in Logins : owner'[k] = 0 => Untouched(k)'
    BY <2>2, <2>5, <2>6 DEF LoginsStartFresh
  <2>. QED
    BY <2>7, <2>8 DEF LoginsStartFresh, Untouched
<1>7. ASSUME NEW s \in Sessions, IssueCode(s) \/ CommitChange(s)
      PROVE  LoginsStartFresh'
  <2>. DEFINE l == session[s].login
  <2>1. session'[s].phase = "idle" /\ \A q \in Sessions \ {s} : session'[q] = session[q]
    BY <1>7, EndType DEF IssueCode, CommitChange
  <2>2. session[s] \in Requests /\ l \in Logins /\ ~Idle(s)
    BY <1>7, SessionType DEF IssueCode, CommitChange, Requests
  <2>3. /\ \A k \in Logins \ {l} : row'[k] = row[k] /\ wrong'[k] = wrong[k]
        /\ again' \subseteq again \cup {l} /\ UNCHANGED <<owner, late>>
    BY <1>7, <2>2 DEF IssueCode, CommitChange, TypeOK
  <2>4. ASSUME NEW k \in Logins, k # l, Untouched(k)
        PROVE  Untouched(k)'
    <3>1. k \notin late' \cup again' /\ session'[s].phase \notin Verifying
      BY <2>1, <2>3, <2>4 DEF Untouched, Verifying
    <3>. QED
      BY <2>1, <2>3, <2>4, <3>1, UntouchedKept
  <2>5. owner[l] # 0
    <3>1. CASE IssueCode(s)
      BY <2>2, <3>1 DEF IssueCode, LoginsStartFresh, Requests
    <3>2. CASE CommitChange(s)
      BY <2>2, <3>2, VerifiedAreTouched DEF CommitChange, LoginsStartFresh, Verifying
    <3>. QED
      BY <1>7, <3>1, <3>2
  <2>6. ASSUME NEW r \in Sessions, r # s, session[r].phase = "registered"
        PROVE  session[r].login # l
    <3>1. ~Idle(r)
      BY <2>6
    <3>2. CASE IssueCode(s)
      <4>1. session[r].user # session[s].user
        BY <2>2, <2>6, <3>1 DEF Owned, UsersAreFresh
      <4>. QED
        BY <2>6, <3>2, <4>1 DEF IssueCode, LoginsStartFresh
    <3>3. CASE CommitChange(s)
      BY <2>6, <3>3, VerifiedAreTouched DEF CommitChange, LoginsStartFresh, Verifying
    <3>. QED
      BY <1>7, <3>2, <3>3
  <2>7. ASSUME NEW r \in Sessions, session'[r].phase = "registered"
        PROVE  (owner[session[r].login] = session[r].user /\ Untouched(session[r].login))'
    <3>1. r # s /\ session'[r] = session[r]
      BY <2>1, <2>7
    <3>2. session[r].login \in Logins
      BY <2>7, <3>1, SessionType DEF Requests
    <3>3. session[r].login # l /\ owner[session[r].login] = session[r].user
      BY <2>6, <2>7, <3>1 DEF LoginsStartFresh
    <3>4. Untouched(session[r].login)
      BY <2>7, <3>1 DEF LoginsStartFresh
    <3>5. /\ row'[session[r].login] = row[session[r].login]
          /\ wrong'[session[r].login] = wrong[session[r].login]
          /\ session[r].login \notin late' \cup again'
      BY <2>3, <3>2, <3>3, <3>4 DEF Untouched
    <3>. QED
      BY <2>1, <2>3, <3>1, <3>3, <3>4, <3>5 DEF Untouched, Verifying
  <2>8. \A k \in Logins : owner'[k] = 0 => Untouched(k)'
    BY <2>3, <2>4, <2>5 DEF LoginsStartFresh
  <2>. QED
    BY <2>7, <2>8 DEF LoginsStartFresh, Untouched
<1>8. ASSUME NEW l \in Logins, Expire(l)
      PROVE  LoginsStartFresh'
  <2>1. ~Untouched(l)
    BY <1>8 DEF Expire, Untouched, FreshRow
  <2>2. ASSUME NEW k, Untouched(k)
        PROVE  Untouched(k)'
    BY <1>8, <2>1, <2>2 DEF Expire, Untouched
  <2>. QED
    BY <1>8, <2>2 DEF Expire, LoginsStartFresh
<1>9. CASE UNCHANGED vars
  BY <1>9 DEF LoginsStartFresh, Untouched
<1>. QED
  BY <1>1, <1>2, <1>3, <1>4, <1>5, <1>6, <1>7, <1>8, <1>9 DEF Next, Step

----------------------------------------------------------------------------
(* Codes and attempts                                                      *)

Coded ==
    /\ VerifiedHaveNoCode
    /\ VerifyingKnow
    /\ ReadsWereTrue
    /\ WritesFollowReads
    /\ AttemptsAreGiven

\* What a commit makes of a row that may have changed since it was read: neither
\* a verification nor the end of a code is undone, and the attempts are counted.
LEMMA CommittedRow ==
    ASSUME TypeOK, Coded, NEW s \in Sessions, CommitChange(s)
    PROVE  LET l == session[s].login IN
           /\ l \in Logins /\ session[s].phase = "writing"
           /\ \A k \in Logins \ {l} : row'[k] = row[k] /\ wrong'[k] = wrong[k]
           /\ again \subseteq again' /\ again' \subseteq again \cup {l}
           /\ wrong[l] \in Nat /\ wrong'[l] \in Nat /\ wrong[l] <= wrong'[l]
           /\ row[l].verified => row'[l].verified
           /\ row[l].code = "none" => row'[l].code = "none"
           /\ row'[l].verified => row'[l].code = "none"
           /\ row'[l].code = "none" /\ ~row'[l].verified => l \in again'
           /\ row'[l].code = "set" =>
                 row'[l].left > 0 /\ row'[l].left + wrong'[l] >= MaxAttempts
           /\ l \in again' \ late => wrong'[l] >= MaxAttempts
<1>. DEFINE r == session[s]
            l == r.login
            q == row[l]
            w == row'[l]
            b == r.before
            a == r.after
<1>1. /\ r \in Requests /\ l \in Logins /\ r.phase = "writing"
      /\ q \in Rows /\ b \in Rows /\ a \in Rows
      /\ r.guess \in BOOLEAN /\ r.ended \in BOOLEAN
      /\ wrong[l] \in Nat /\ MaxAttempts \in Nat \ {0}
  BY SessionType, AccountsAssumption DEF CommitChange, Requests, TypeOK
<1>2. /\ w = Updated(q, b, a)
      /\ wrong'[l] = IF r.guess THEN wrong[l] + 1 ELSE wrong[l]
      /\ r.ended /\ ~a.verified => again' = again \cup {l}
      /\ ~r.ended \/ a.verified => again' = again
      /\ \A k \in Logins \ {l} : row'[k] = row[k] /\ wrong'[k] = wrong[k]
  BY <1>1 DEF CommitChange, TypeOK
<1>3. /\ w.verified = IF b.verified # a.verified THEN a.verified ELSE q.verified
      /\ w.code = IF b.code # a.code THEN a.code ELSE q.code
      /\ w.left = IF b.left # a.left THEN a.left ELSE q.left
  BY <1>1, <1>2, UpdatedColumns
<1>4. /\ b.verified => b.code = "none" /\ q.verified
      /\ b.code = "none" => q.code = "none"
      /\ b.code = "set" => b.left > 0 /\ b.left + wrong[l] >= MaxAttempts
      /\ b.code = "none" /\ ~b.verified => l \in again
      /\ q.code = "none" /\ ~q.verified => l \in again
      /\ q.verified => q.code = "none"
      /\ q.code = "set" => q.left > 0 /\ q.left + wrong[l] >= MaxAttempts
      /\ l \in again \ late => wrong[l] >= MaxAttempts
  BY <1>1 DEF Coded, ReadsWereTrue, VerifyingKnow, VerifiedHaveNoCode, AttemptsAreGiven,
              Withdrawn, Verifying
<1>5. /\ q.verified \in BOOLEAN /\ b.verified \in BOOLEAN /\ a.verified \in BOOLEAN
      /\ q.code \in {"none", "set"} /\ b.code \in {"none", "set"} /\ a.code \in {"none", "set"}
      /\ q.left \in Nat /\ b.left \in Nat /\ a.left \in Nat
  BY <1>1 DEF Rows
<1>. DEFINE Claim ==
               /\ wrong[l] <= wrong'[l] /\ wrong'[l] \in Nat
               /\ q.verified => w.verified
               /\ q.code = "none" => w.code = "none"
               /\ w.verified => w.code = "none"
               /\ w.code = "none" /\ ~w.verified => l \in again'
               /\ w.code = "set" => w.left > 0 /\ w.left + wrong'[l] >= MaxAttempts
               /\ l \in again' \ late => wrong'[l] >= MaxAttempts
<1>6. ASSUME r.guess
      PROVE  Claim
  <2>1. a = Attempt(b) /\ r.ended = (Attempt(b).left = 0)
    BY <1>1, <1>6 DEF Coded, WritesFollowReads
  <2>2. /\ a.verified = b.verified
        /\ b.left <= 1 => a.code = "none" /\ a.left = 0
        /\ b.left > 1 => a.code = b.code /\ a.left = b.left - 1
    BY <1>1, <2>1, AttemptType
  <2>3. w.verified = q.verified /\ wrong'[l] = wrong[l] + 1
    BY <1>2, <1>3, <1>6, <2>2
  <2>4. CASE b.left <= 1
    <3>1. w.code = "none" /\ r.ended
      BY <1>3, <1>4, <1>5, <2>1, <2>2, <2>4
    <3>2. ~w.verified => l \in again'
      <4>1. ~w.verified => ~a.verified
        BY <1>4, <2>2, <2>3
      <4>. QED
        BY <1>2, <3>1, <4>1
    <3>3. l \in again' \ late => wrong'[l] >= MaxAttempts
      <4>1. CASE b.code = "set"
        BY <1>1, <1>4, <1>5, <2>3, <2>4, <4>1
      <4>2. CASE b.code = "none"
        <5>1. l \in again' => l \in again
          BY <1>2, <1>4, <2>2, <3>1, <4>2
        <5>. QED
          BY <1>1, <1>4, <2>3, <5>1
      <4>. QED
        BY <1>5, <4>1, <4>2
    <3>. QED
      BY <1>1, <1>4, <2>3, <3>1, <3>2, <3>3
  <2>5. CASE b.left > 1
    <3>1. w.code = q.code /\ w.left = b.left - 1 /\ ~r.ended /\ again' = again
      <4>1. a.code = b.code /\ a.left = b.left - 1 /\ b.left # a.left /\ a.left # 0
        BY <1>5, <2>2, <2>5
      <4>2. ~r.ended
        BY <2>1, <4>1
      <4>. QED
        BY <1>2, <1>3, <4>1, <4>2
    <3>2. w.code = "set" => w.left > 0 /\ w.left + wrong'[l] >= MaxAttempts
      BY <1>1, <1>4, <1>5, <2>3, <2>5, <3>1
    <3>. QED
      BY <1>1, <1>4, <2>3, <3>1, <3>2
  <2>. QED
    BY <1>5, <2>4, <2>5
<1>7. ASSUME ~r.guess
      PROVE  Claim
  <2>1. /\ a.code = "none" /\ r.ended
        /\ b.verified => a.verified
        /\ a.verified \/ l \in late
    BY <1>1, <1>7 DEF Coded, WritesFollowReads
  <2>2. w.code = "none" /\ wrong'[l] = wrong[l]
    BY <1>2, <1>3, <1>4, <1>5, <1>7, <2>1
  <2>3. q.verified => w.verified
    BY <1>3, <1>5, <2>1
  <2>4. ~w.verified => l \in again'
    BY <1>2, <1>3, <1>4, <1>5, <2>1
  <2>5. l \in again' \ late => wrong'[l] >= MaxAttempts
    BY <1>2, <1>4, <2>1, <2>2
  <2>. QED
    BY <1>1, <2>2, <2>3, <2>4, <2>5
<1>8. Claim
  BY <1>1, <1>6, <1>7
<1>. QED
  BY <1>1, <1>2, <1>8

\* Steps that change no identity, and sessions that do not verify.
LEMMA CodeKept ==
    ASSUME Coded, UNCHANGED <<row, wrong, again>>, late \subseteq late',
           \A q \in Sessions : session'[q] = session[q] \/ session'[q].phase \notin Verifying
    PROVE  Coded'
<1>. USE DEF Coded
<1>1. VerifiedHaveNoCode' /\ AttemptsAreGiven'
  BY DEF VerifiedHaveNoCode, AttemptsAreGiven
<1>2. VerifyingKnow'
  BY DEF VerifyingKnow, Withdrawn
<1>3. ReadsWereTrue'
  BY DEF ReadsWereTrue, Withdrawn, Verifying
<1>4. WritesFollowReads'
  BY DEF WritesFollowReads, Verifying
<1>. QED
  BY <1>1, <1>2, <1>3, <1>4

\* A registration writes rows that nobody verifies.
LEMMA CodeIssued ==
    ASSUME TypeOK, LoginsStartFresh, Coded, NEW s \in Sessions, IssueCode(s)
    PROVE  Coded' /\ row[session[s].login] = FreshRow
<1>. DEFINE l == session[s].login
<1>. USE DEF Coded
<1>1. session[s] \in Requests /\ l \in Logins /\ row[l] \in Rows
  BY SessionType DEF IssueCode, Requests, TypeOK
<1>2. Untouched(l)
  BY DEF IssueCode, LoginsStartFresh
<1>3. /\ row'[l].code = "set" /\ row'[l].left = MaxAttempts /\ ~row'[l].verified
      /\ \A k \in Logins \ {l} : row'[k] = row[k]
      /\ UNCHANGED <<late, wrong, again>>
  BY <1>1, <1>2 DEF IssueCode, Untouched, FreshRow, Rows, TypeOK
<1>4. /\ session'[s].phase = "idle"
      /\ \A q \in Sessions \ {s} : session'[q] = session[q]
  BY EndType DEF IssueCode
<1>5. /\ row[l] = FreshRow /\ wrong[l] = 0 /\ l \notin again
      /\ \A q \in Sessions : session[q].phase \in Verifying => session[q].login # l
  BY <1>2 DEF Untouched
<1>6. \A q \in Sessions : session'[q].phase \in Verifying =>
         session'[q] = session[q] /\ session[q].login \in Logins \ {l}
  BY <1>4, <1>5, SessionType DEF Verifying, Requests
<1>7. VerifiedHaveNoCode'
  BY <1>1, <1>3 DEF VerifiedHaveNoCode
<1>8. AttemptsAreGiven'
  BY <1>1, <1>3, <1>5, AccountsAssumption DEF AttemptsAreGiven
<1>9. VerifyingKnow'
  BY <1>3, <1>6 DEF VerifyingKnow, Withdrawn
<1>10. ReadsWereTrue'
  BY <1>3, <1>6 DEF ReadsWereTrue, Withdrawn, Verifying
<1>11. WritesFollowReads'
  BY <1>3, <1>6 DEF WritesFollowReads, Verifying
<1>. QED
  BY <1>5, <1>7, <1>8, <1>9, <1>10, <1>11

\* The commit of a change that was read before.
LEMMA CodeCommitted ==
    ASSUME TypeOK, Coded, NEW s \in Sessions, CommitChange(s)
    PROVE  Coded'
<1>. DEFINE l == session[s].login
<1>1. /\ session'[s].phase = "idle" /\ UNCHANGED late
      /\ \A q \in Sessions \ {s} : session'[q] = session[q]
  BY EndType DEF CommitChange
<1>2. /\ l \in Logins
      /\ \A k \in Logins \ {l} : row'[k] = row[k] /\ wrong'[k] = wrong[k]
      /\ again \subseteq again' /\ again' \subseteq again \cup {l}
      /\ row'[l].verified => row'[l].code = "none"
      /\ row'[l].code = "none" /\ ~row'[l].verified => l \in again'
      /\ row'[l].code = "set" => row'[l].left > 0 /\ row'[l].left + wrong'[l] >= MaxAttempts
      /\ l \in again' \ late => wrong'[l] >= MaxAttempts
  BY CommittedRow
<1>3. ASSUME NEW k \in Logins
      PROVE  /\ row[k].verified => row'[k].verified
             /\ row[k].code = "none" => row'[k].code = "none"
             /\ wrong[k] \in Nat /\ wrong'[k] \in Nat /\ wrong[k] <= wrong'[k]
  <2>1. CASE k = l
    BY <2>1, CommittedRow
  <2>2. CASE k # l
    BY <1>2, <2>2 DEF TypeOK
  <2>. QED
    BY <2>1, <2>2
<1>4. \A q \in Sessions : session'[q].phase \in Verifying =>
         session'[q] = session[q] /\ session[q].login \in Logins
  BY <1>1, SessionType DEF Verifying, Requests
<1>5. VerifiedHaveNoCode' /\ AttemptsAreGiven'
  BY <1>1, <1>2 DEF Coded, VerifiedHaveNoCode, AttemptsAreGiven
<1>6. VerifyingKnow'
  BY <1>1, <1>2, <1>4 DEF Coded, VerifyingKnow, Withdrawn
<1>7. ASSUME NEW q \in Sessions, session'[q].phase = "writing"
      PROVE  LET r == session'[q] IN
             /\ r.before.verified => r.before.code = "none" /\ row'[r.login].verified
             /\ r.before.code = "none" => row'[r.login].code = "none"
             /\ r.before.code = "set" =>
                   r.before.left > 0 /\ r.before.left + wrong'[r.login] >= MaxAttempts
             /\ r.before.code = "none" /\ ~r.before.verified => r.login \in again'
  <2>1. session'[q] = session[q] /\ session[q] \in Requests
    BY <1>1, <1>7, SessionType
  <2>2. session[q].login \in Logins /\ session[q].before.left \in Nat /\ MaxAttempts \in Nat
    BY <2>1, AccountsAssumption DEF Requests, Rows
  <2>. QED
    BY <1>2, <1>3, <1>7, <2>1, <2>2 DEF Coded, ReadsWereTrue, Withdrawn
<1>8. ReadsWereTrue'
  BY <1>7 DEF ReadsWereTrue, Withdrawn
<1>9. WritesFollowReads'
  BY <1>1, <1>4 DEF Coded, WritesFollowReads, Verifying
<1>. QED
  BY <1>5, <1>6, <1>8, <1>9 DEF Coded

\* The second read.
LEMMA CodeRead ==
    ASSUME TypeOK, Coded, NEW s \in Sessions, Change(s)
    PROVE  Coded'
<1>. DEFINE l == session[s].login
            guess == session[s].phase = "guessing"
<1>1. /\ session'[s].phase = "writing" /\ session'[s].login = l /\ l \in Logins
      /\ session'[s].before = row[l] /\ session'[s].guess = guess
      /\ row[l] \in Rows
      /\ \A q \in Sessions \ {s} : session'[q] = session[q]
      /\ UNCHANGED <<row, wrong, again, late>>
  BY ChangeType DEF Change
<1>2. /\ session[s].phase \in {"clearing", "guessing", "verifying"}
      /\ session[s].phase = "clearing" => l \in late
      /\ Withdrawn(row[l], l)
  BY DEF Change, Coded, VerifyingKnow, Verifying
<1>3. VerifiedHaveNoCode' /\ AttemptsAreGiven'
  BY <1>1 DEF Coded, VerifiedHaveNoCode, AttemptsAreGiven
<1>4. VerifyingKnow'
  BY <1>1, <1>2 DEF Coded, VerifyingKnow, Withdrawn
<1>5. ReadsWereTrue'
  BY <1>1, <1>2 DEF Coded, ReadsWereTrue, Withdrawn, VerifiedHaveNoCode, AttemptsAreGiven
<1>6. CASE guess
  <2>1. session'[s].after = Attempt(row[l]) /\ session'[s].ended = (Attempt(row[l]).left = 0)
    BY <1>6, ChangeType
  <2>2. WritesFollowReads'
    <3>1. session'[s].guess
      BY <1>1, <1>6
    <3>. QED
      BY <1>1, <2>1, <3>1 DEF Coded, WritesFollowReads
  <2>. QED
    BY <1>3, <1>4, <1>5, <2>2 DEF Coded
<1>7. CASE ~guess
  <2>1. /\ session'[s].after.code = "none" /\ session'[s].after.left = 0 /\ session'[s].ended
        /\ session'[s].after.verified = (row[l].verified \/ session[s].phase = "verifying")
    BY <1>7, ChangeType
  <2>2. /\ row[l].verified => session'[s].after.verified
        /\ session'[s].after.verified \/ l \in late
    BY <1>2, <1>7, <2>1
  <2>3. WritesFollowReads'
    <3>1. ~session'[s].guess
      BY <1>1, <1>7
    <3>. QED
      BY <1>1, <2>1, <2>2, <3>1 DEF Coded, WritesFollowReads
  <2>. QED
    BY <1>3, <1>4, <1>5, <2>3 DEF Coded
<1>. QED
  BY <1>6, <1>7

\* Every step keeps what is known of the codes.
LEMMA CodeStep ==
    ASSUME TypeOK, Owned, LoginsStartFresh, Coded, [Next]_vars
    PROVE  Coded'
<1>1. ASSUME NEW s \in Sessions, NEW l \in Logins, Register(s, l)
      PROVE  Coded'
  <2>1. /\ session'[s].phase = "added"
        /\ \A q \in Sessions \ {s} : session'[q] = session[q]
    BY <1>1, BeginType DEF Register, Registering
  <2>. QED
    BY <1>1, <2>1, CodeKept DEF Register, Verifying
<1>2. ASSUME NEW s \in Sessions, NEW l \in Logins, NEW right \in BOOLEAN, Verify(s, l, right)
      PROVE  Coded'
  <2>1. PICK p \in {"clearing", "guessing", "verifying"} :
           Begin(s, l, p) /\ (p = "clearing" => l \in late)
    BY <1>2 DEF Verify
  <2>2. p \in Registering \cup Verifying
    BY DEF Verifying
  <2>3. /\ session'[s].phase = p /\ session'[s].login = l
        /\ \A q \in Sessions \ {s} : session'[q] = session[q]
    BY <2>1, <2>2, BeginType
  <2>4. row[l].code = "set" /\ UNCHANGED <<row, wrong, again, late>>
    BY <1>2 DEF Verify
  <2>5. VerifiedHaveNoCode' /\ AttemptsAreGiven'
    BY <2>4 DEF Coded, VerifiedHaveNoCode, AttemptsAreGiven
  <2>6. VerifyingKnow'
    BY <2>1, <2>3, <2>4 DEF Coded, VerifyingKnow, Withdrawn
  <2>7. ReadsWereTrue'
    BY <2>3, <2>4 DEF Coded, ReadsWereTrue, Withdrawn
  <2>8. WritesFollowReads'
    BY <2>3, <2>4 DEF Coded, WritesFollowReads
  <2>. QED
    BY <2>5, <2>6, <2>7, <2>8 DEF Coded
<1>3. ASSUME NEW s \in Sessions, FindLogin(s) \/ InsertIdentity(s)
      PROVE  Coded'
  <2>1. /\ session'[s].phase \in {"checked", "inserted"}
        /\ \A q \in Sessions \ {s} : session'[q] = session[q]
    BY <1>3, AdvanceType DEF FindLogin, InsertIdentity, Registering
  <2>. QED
    BY <1>3, <2>1, CodeKept DEF FindLogin, InsertIdentity, Verifying
<1>4. ASSUME NEW s \in Sessions, RefuseLogin(s) \/ InsertFails(s) \/ Abort(s)
      PROVE  Coded'
  <2>1. End(s) /\ UNCHANGED <<row, wrong, again, late>>
    BY <1>4 DEF RefuseLogin, InsertFails, Abort
  <2>. QED
    BY <2>1, EndType, CodeKept DEF Verifying
<1>5. ASSUME NEW s \in Sessions, CommitIdentity(s)
      PROVE  Coded'
  <2>1. /\ session'[s].phase = "registered"
        /\ \A q \in Sessions \ {s} : session'[q] = session[q]
    BY <1>5, AdvanceType DEF CommitIdentity, Registering
  <2>2. session[s].login \in Logins
    BY <1>5, SessionType DEF CommitIdentity, Requests
  <2>3. row[session[s].login] = FreshRow
    BY <1>5, <2>2, AccountsAssumption
       DEF CommitIdentity, Owned, InsertsAreOwned, LoginsStartFresh, Untouched
  <2>4. row' = row
    BY <1>5, <2>2, <2>3 DEF CommitIdentity, TypeOK
  <2>. QED
    BY <1>5, <2>1, <2>4, CodeKept DEF CommitIdentity, Verifying
<1>6. ASSUME NEW l \in Logins, Expire(l)
      PROVE  Coded'
  BY <1>6, CodeKept DEF Expire
<1>7. CASE UNCHANGED vars
  BY <1>7, CodeKept
<1>. QED
  BY <1>1, <1>2, <1>3, <1>4, <1>5, <1>6, <1>7, CodeIssued, CodeRead, CodeCommitted DEF Next, Step

----------------------------------------------------------------------------
(* The inductive invariant, and what follows                               *)

\* The first state satisfies it.
LEMMA InitIInv == Init => IInv
<1>. SUFFICES ASSUME Init PROVE IInv
  OBVIOUS
<1>1. \A s \in Sessions : session[s].phase = "idle"
  BY DEF Init, IdleSession
<1>2. \A l \in Logins : owner[l] = 0 /\ row[l] = FreshRow /\ inserting[l] = NoSession
  BY DEF Init
<1>3. FreshRow \in Rows /\ ~FreshRow.verified /\ FreshRow.code = "none"
  BY AccountsAssumption DEF FreshRow, Rows
<1>4. TypeOK
  BY <1>3, AccountsAssumption DEF Init, TypeOK
<1>5. UsersHaveIdentities /\ UsersAreFresh /\ InsertsAreOwned
  BY <1>1, <1>2 DEF Init, UsersHaveIdentities, UsersAreFresh, InsertsAreOwned
<1>6. LoginsStartFresh
  BY <1>1, <1>2 DEF Init, LoginsStartFresh, Untouched, Verifying
<1>7. VerifiedHaveNoCode /\ VerifyingKnow /\ ReadsWereTrue /\ WritesFollowReads /\ AttemptsAreGiven
  BY <1>1, <1>2, <1>3
     DEF Init, VerifiedHaveNoCode, VerifyingKnow, ReadsWereTrue, WritesFollowReads,
         AttemptsAreGiven, Verifying
<1>. QED
  BY <1>4, <1>5, <1>6, <1>7 DEF IInv

\* Every step preserves it.
LEMMA StepIInv == IInv /\ [Next]_vars => IInv'
BY TypeStep, OwnedStep, StartStep, CodeStep DEF IInv, Owned, Coded

\* The inductive invariant holds in every reachable state.
THEOREM Inductive == Spec => []IInv
BY InitIInv, StepIInv, PTL DEF Spec

\* Every variable keeps its type.
THEOREM TypeCorrect == Spec => []TypeOK
<1>1. IInv => TypeOK
  BY DEF IInv
<1>. QED
  BY <1>1, Inductive, PTL

\* Users and logins go together, whatever is rolled back.
THEOREM NobodyIsLost == Spec => []UsersHaveIdentities
<1>1. IInv => UsersHaveIdentities
  BY DEF IInv
<1>. QED
  BY <1>1, Inductive, PTL

\* However the updates of a row cross, no attempt is taken that was not made.
THEOREM AttemptsCounted == Spec => []AttemptsAreGiven
<1>1. IInv => AttemptsAreGiven
  BY DEF IInv
<1>. QED
  BY <1>1, Inductive, PTL

\* A login that has a user keeps it: who inserts it has found it free and holds it.
THEOREM LoginsKept == Spec => IdentitiesKeepTheirUser
<1>. DEFINE Kept == \A l \in Logins : owner[l] # 0 => owner'[l] = owner[l]
<1>1. ASSUME IInv, [Next]_vars
      PROVE  Kept
  <2>1. CASE owner' = owner
    BY <2>1
  <2>2. ASSUME NEW s \in Sessions, CommitIdentity(s)
        PROVE  Kept
    <3>1. session[s].login \in Logins
      BY <1>1, <2>2, SessionType DEF CommitIdentity, Requests, IInv
    <3>2. owner[session[s].login] = 0
      BY <1>1, <2>2, <3>1, AccountsAssumption DEF CommitIdentity, IInv, InsertsAreOwned
    <3>. QED
      BY <1>1, <2>2, <3>1, <3>2 DEF CommitIdentity, IInv, TypeOK
  <2>3. owner' = owner \/ \E s \in Sessions : CommitIdentity(s)
    BY <1>1 DEF Next, Step, Register, FindLogin, RefuseLogin, InsertIdentity, InsertFails,
                IssueCode, Verify, Change, CommitChange, Abort, Expire
  <2>. QED
    BY <2>1, <2>2, <2>3
<1>2. IInv /\ [Next]_vars => [Kept]_vars
  BY <1>1
<1>. QED
  BY <1>2, Inductive, PTL DEF Spec, IdentitiesKeepTheirUser

\* Nothing undoes a verification, what was read before it and is written after it included.
THEOREM VerifiedForGood == Spec => VerificationIsFinal
<1>. DEFINE Final == \A l \in Logins : row[l].verified => row'[l].verified /\ row'[l].code = "none"
<1>1. ASSUME IInv, [Next]_vars
      PROVE  Final
  <2>1. TypeOK /\ Owned /\ LoginsStartFresh /\ Coded
    BY <1>1 DEF IInv, Owned, Coded
  <2>2. CASE row' = row
    BY <2>1, <2>2 DEF Coded, VerifiedHaveNoCode
  <2>3. ASSUME NEW s \in Sessions, CommitIdentity(s) \/ IssueCode(s)
        PROVE  Final
    <3>. DEFINE l == session[s].login
    <3>1. l \in Logins
      BY <2>1, <2>3, SessionType DEF CommitIdentity, IssueCode, Requests
    <3>2. row[l] = FreshRow
      BY <2>1, <2>3, <3>1, AccountsAssumption
         DEF CommitIdentity, IssueCode, Owned, InsertsAreOwned, LoginsStartFresh, Untouched
    <3>3. ~row[l].verified /\ \A k \in Logins \ {l} : row'[k] = row[k]
      BY <2>1, <2>3, <3>1, <3>2 DEF CommitIdentity, IssueCode, FreshRow, TypeOK
    <3>. QED
      BY <2>1, <3>3 DEF Coded, VerifiedHaveNoCode
  <2>4. ASSUME NEW s \in Sessions, CommitChange(s)
        PROVE  Final
    BY <2>1, <2>4, CommittedRow DEF Coded, VerifiedHaveNoCode
  <2>5. row' = row \/ \E s \in Sessions : CommitIdentity(s) \/ IssueCode(s) \/ CommitChange(s)
    BY <1>1 DEF Next, Step, Register, FindLogin, RefuseLogin, InsertIdentity, InsertFails,
                Verify, Change, Abort, Expire
  <2>. QED
    BY <2>2, <2>3, <2>4, <2>5
<1>2. IInv /\ [Next]_vars => [Final]_vars
  BY <1>1
<1>. QED
  BY <1>2, Inductive, PTL DEF Spec, VerificationIsFinal

=============================================================================
