----------------------------- MODULE ResetProofs -----------------------------
(***************************************************************************)
(* What module PasswordReset claims of safety, for any accounts, sessions, *)
(* limits and numbers of requests.  Two ideas carry the invariant: what a  *)
(* request makes has a name that nobody has seen before (NamesAreFresh),   *)
(* and an attempt is counted before the limit is looked at, so that what   *)
(* is granted never outnumbers the attempts (GrantsAreCounted).            *)
(***************************************************************************)
EXTENDS PasswordReset, FiniteSetTheorems, TLAPS

USE DEF vars, Idle

----------------------------------------------------------------------------
(* Sessions                                                                *)

\* What a session in a given phase keeps.
LEMMA PhaseTypes ==
    ASSUME TypeOK, NEW s \in Sessions
    PROVE  /\ session[s].phase = "idle" => session[s] = IdleSession
           /\ session[s].phase = "recorded" => session[s] \in Asking
           /\ session[s].phase \in {"allowed", "deleting", "deleted", "checked"}
                 => session[s] \in Allowed
           /\ session[s].phase \in {"consumed", "revoked"} => session[s] \in Resetting
           /\ session[s] # IdleSession => session[s].phase # "idle"
<1>1. session[s] \in Asking \cup Allowed \cup Resetting \cup {IdleSession}
  BY DEF TypeOK, Requests
<1>2. CASE session[s] \in Asking
  BY <1>2 DEF Asking, IdleSession
<1>3. CASE session[s] \in Allowed
  BY <1>3 DEF Allowed, IdleSession
<1>4. CASE session[s] \in Resetting
  BY <1>4 DEF Resetting, IdleSession
<1>5. CASE session[s] = IdleSession
  BY <1>5 DEF IdleSession
<1>. QED
  BY <1>1, <1>2, <1>3, <1>4, <1>5

\* A session at work has an account and a number.
LEMMA Numbered ==
    ASSUME TypeOK, NEW s \in Sessions, ~Idle(s)
    PROVE  /\ session[s].number \in 1 .. MaxRequests
           /\ session[s].email \in Emails
           /\ session[s].phase # "recorded" => session[s].email \in Verified
           /\ session[s].seen \in SUBSET Named
<1>1. session[s] \in Asking \cup Allowed \cup Resetting
  BY DEF TypeOK, Requests, IdleSession
<1>2. CASE session[s] \in Asking
  BY <1>2 DEF Asking
<1>3. CASE session[s] \in Allowed
  BY <1>3, ResetAssumption DEF Allowed
<1>4. CASE session[s] \in Resetting
  BY <1>4, ResetAssumption DEF Resetting
<1>. QED
  BY <1>1, <1>2, <1>3, <1>4

----------------------------------------------------------------------------
(* Types                                                                   *)

\* Every step keeps the types.
LEMMA TypeStep ==
    ASSUME TypeOK, [Next]_vars
    PROVE  TypeOK'
<1>. USE DEF TypeOK
<1>. /\ session \in [Sessions -> Requests \cup {IdleSession}]
     /\ requests \in Nat /\ MaxRequests \in Nat
     /\ Verified \subseteq Emails
  BY ResetAssumption
<1>1. ASSUME NEW s \in Sessions, NEW e \in Emails, RecordAttempt(s, e)
      PROVE  TypeOK'
  <2>1. requests + 1 \in 1 .. MaxRequests
    BY <1>1 DEF RecordAttempt, Begin
  <2>2. [phase |-> "recorded", email |-> e, number |-> requests + 1, seen |-> {}] \in Asking
    BY <2>1 DEF Asking
  <2>3. session' \in [Sessions -> Requests \cup {IdleSession}]
    BY <1>1, <2>2 DEF RecordAttempt, Begin, Requests
  <2>4. attempts' \in [Emails -> Nat]
    BY <1>1 DEF RecordAttempt
  <2>. QED
    BY <1>1, <2>1, <2>3, <2>4 DEF RecordAttempt, Begin
<1>2. ASSUME NEW s \in Sessions, NEW e \in Verified, CheckPassword(s, e)
      PROVE  TypeOK'
  <2>1. requests + 1 \in 1 .. MaxRequests
    BY <1>2 DEF CheckPassword, Begin
  <2>2. [phase |-> "checked", email |-> e, number |-> requests + 1, seen |-> {}] \in Allowed
    BY <2>1 DEF Allowed
  <2>3. session' \in [Sessions -> Requests \cup {IdleSession}]
    BY <1>2, <2>2 DEF CheckPassword, Begin, Requests
  <2>. QED
    BY <1>2, <2>1, <2>3 DEF CheckPassword, Begin
<1>3. ASSUME NEW s \in Sessions, NEW k \in links, Consume(s, k)
      PROVE  TypeOK'
  <2>1. requests + 1 \in 1 .. MaxRequests
    BY <1>3 DEF Consume, Begin
  <2>2. k \in Named /\ k.email \in Verified
    BY DEF Named
  <2>3. [phase |-> "consumed", email |-> k.email, number |-> requests + 1,
         link |-> k, old |-> TokensOf(k.email), seen |-> {}] \in Resetting
    BY <2>1, <2>2 DEF Resetting, TokensOf
  <2>4. session' \in [Sessions -> Requests \cup {IdleSession}]
    BY <1>3, <2>3 DEF Consume, Begin, Requests
  <2>. QED
    BY <1>3, <2>1, <2>4 DEF Consume, Begin
<1>4. ASSUME NEW s \in Sessions, End(s)
      PROVE  session' \in [Sessions -> Requests \cup {IdleSession}]
  BY <1>4 DEF End
<1>5. ASSUME NEW s \in Sessions, Allow(s)
      PROVE  TypeOK'
  <2>1. session[s] \in Asking /\ session[s].email \in Verified
    BY <1>5, PhaseTypes DEF Allow, MayReset
  <2>2. [session[s] EXCEPT !.phase = "allowed"] \in Allowed
    BY <2>1 DEF Asking, Allowed
  <2>3. session' \in [Sessions -> Requests \cup {IdleSession}]
    BY <1>5, <2>2 DEF Allow, Advance, Requests
  <2>. QED
    BY <1>5, <2>3 DEF Allow
<1>6. ASSUME NEW s \in Sessions, SeeUnused(s)
      PROVE  TypeOK'
  <2>1. session[s] \in Allowed
    BY <1>6, PhaseTypes DEF SeeUnused
  <2>2. LinksOf(session[s].email) \cap Unused \subseteq Named
    BY DEF LinksOf
  <2>3. [session[s] EXCEPT !.phase = "deleting",
                           !.seen = LinksOf(session[s].email) \cap Unused] \in Allowed
    BY <2>1, <2>2 DEF Allowed
  <2>4. session' \in [Sessions -> Requests \cup {IdleSession}]
    BY <1>6, <2>3 DEF SeeUnused, Requests
  <2>. QED
    BY <1>6, <2>4 DEF SeeUnused
<1>7. ASSUME NEW s \in Sessions, DeleteUnused(s)
      PROVE  TypeOK'
  <2>1. session[s] \in Allowed
    BY <1>7, PhaseTypes DEF DeleteUnused
  <2>2. StillUnused(session[s].seen) \subseteq Named
    BY DEF StillUnused, Unused
  <2>3. [session[s] EXCEPT !.phase = "deleted", !.seen = StillUnused(@)] \in Allowed
    BY <2>1, <2>2 DEF Allowed
  <2>4. session' \in [Sessions -> Requests \cup {IdleSession}]
    BY <1>7, <2>3 DEF DeleteUnused, Requests
  <2>. QED
    BY <1>7, <2>4 DEF DeleteUnused
<1>8. ASSUME NEW s \in Sessions, CommitLink(s)
      PROVE  TypeOK'
  <2>1. session[s] \in Allowed
    BY <1>8, PhaseTypes DEF CommitLink
  <2>2. [email |-> session[s].email, number |-> session[s].number] \in Named
    BY <2>1 DEF Allowed, Named
  <2>3. links' \subseteq Named /\ issued' \subseteq Named
    BY <1>8, <2>2 DEF CommitLink
  <2>. QED
    BY <1>4, <1>8, <2>3 DEF CommitLink
<1>9. ASSUME NEW s \in Sessions, Revoke(s)
      PROVE  TypeOK'
  <2>1. session[s] \in Resetting
    BY <1>9, PhaseTypes DEF Revoke
  <2>2. [session[s] EXCEPT !.phase = "revoked"] \in Resetting
    BY <2>1 DEF Resetting
  <2>3. session' \in [Sessions -> Requests \cup {IdleSession}]
    BY <1>9, <2>2 DEF Revoke, Advance, Requests
  <2>. QED
    BY <1>9, <2>3 DEF Revoke
<1>10. ASSUME NEW s \in Sessions, CommitReset(s)
       PROVE  TypeOK'
  <2>1. session[s] \in Resetting
    BY <1>10, PhaseTypes DEF CommitReset
  <2>2. uses' \in [Named -> Nat]
    BY <1>10, <2>1 DEF CommitReset, Resetting
  <2>3. password' \in [Verified -> 0 .. MaxRequests]
    BY <1>10, <2>1 DEF CommitReset, Resetting
  <2>. QED
    BY <1>4, <1>10, <2>2, <2>3 DEF CommitReset
<1>11. ASSUME NEW s \in Sessions, IssueToken(s)
       PROVE  TypeOK'
  <2>1. session[s] \in Allowed
    BY <1>11, PhaseTypes DEF IssueToken
  <2>2. [email |-> session[s].email, number |-> session[s].number] \in Named
    BY <2>1 DEF Allowed, Named
  <2>. QED
    BY <1>4, <1>11, <2>2 DEF IssueToken
<1>12. ASSUME NEW s \in Sessions, Ignore(s) \/ ResetFails(s) \/ Abort(s)
       PROVE  TypeOK'
  BY <1>4, <1>12 DEF Ignore, ResetFails, Abort
<1>13. ASSUME NEW k \in links, Expire(k)
       PROVE  TypeOK'
  BY <1>13 DEF Expire
<1>14. CASE Restart
  BY <1>14 DEF Restart
<1>15. CASE UNCHANGED vars
  BY <1>15
<1>. QED
  BY <1>1, <1>2, <1>3, <1>5, <1>6, <1>7, <1>8, <1>9, <1>10, <1>11, <1>12, <1>13, <1>14, <1>15
     DEF Next, Step

----------------------------------------------------------------------------
(* Names                                                                   *)

\* Whatever is made or known is named.
LEMMA MadeAreNamed ==
    ASSUME TypeOK
    PROVE  Made \subseteq Named
<1>1. ASSUME NEW s \in Sessions
      PROVE  Known(s) \subseteq Named
  <2>1. CASE session[s].phase \in {"consumed", "revoked"}
    BY <2>1, PhaseTypes DEF Known, Resetting
  <2>. QED
    BY <2>1 DEF Known
<1>. QED
  BY <1>1 DEF Made, TypeOK

\* A step of one session changes what that session knows.
LEMMA KnownByOthers ==
    ASSUME NEW s \in Sessions, \A q \in Sessions \ {s} : session'[q] = session[q],
           Known(s)' \subseteq Known(s) \cup tokens
    PROVE  \A r \in Sessions : Known(r)' \subseteq Known(r) \cup tokens
BY DEF Known

\* What is known and made after a step, from what its session knows.
LEMMA MadeGrows ==
    ASSUME NEW X, issued' \subseteq issued \cup X, tokens' \subseteq tokens \cup X,
           \A r \in Sessions : Known(r)' \subseteq Known(r) \cup tokens
    PROVE  Made' \subseteq Made \cup X
BY Zenon DEF Made

\* Sessions that go on or end, and make nothing, leave the names fresh.
LEMMA FreshKept ==
    ASSUME NamesAreFresh, requests' = requests, Made' \subseteq Made,
           \A r \in Sessions :
              Idle(r)' \/ (~Idle(r) /\ session'[r].number = session[r].number)
    PROVE  NamesAreFresh'
BY DEF NamesAreFresh

\* A request that begins has a new name.
LEMMA FreshBegun ==
    ASSUME TypeOK, NamesAreFresh, NEW s \in Sessions, NEW r, r.number = requests + 1,
           Begin(s, r), Made' \subseteq Made
    PROVE  NamesAreFresh'
<1>1. /\ session'[s] = r /\ requests' = requests + 1 /\ requests \in Int
      /\ \A q \in Sessions \ {s} : session'[q] = session[q]
  BY DEF Begin, TypeOK
<1>2. \A q \in Sessions : ~Idle(q) => session[q].number \in Int
  BY Numbered
<1>3. \A k \in Made : k.number <= requests /\ k.number \in Int
  BY MadeAreNamed DEF NamesAreFresh, Named
<1>. QED
  BY <1>1, <1>2, <1>3 DEF NamesAreFresh

\* One that ends may leave its name behind.
LEMMA FreshMade ==
    ASSUME TypeOK, NamesAreFresh, NEW s \in Sessions, ~Idle(s), End(s), requests' = requests,
           NEW k, k.number = session[s].number, Made' \subseteq Made \cup {k}
    PROVE  NamesAreFresh'
<1>1. /\ Idle(s)'
      /\ \A q \in Sessions \ {s} : session'[q] = session[q]
  BY DEF End, TypeOK, IdleSession
<1>. QED
  BY <1>1 DEF NamesAreFresh

\* Every step keeps the names of requests new.
LEMMA FreshStep ==
    ASSUME TypeOK, NamesAreFresh, [Next]_vars
    PROVE  NamesAreFresh'
<1>1. ASSUME NEW s \in Sessions, NEW r, Begin(s, r), r.number = requests + 1,
             UNCHANGED <<issued, tokens>>,
             r.phase \in {"consumed", "revoked"} => r.old \subseteq tokens
      PROVE  NamesAreFresh'
  <2>1. session'[s] = r /\ \A q \in Sessions \ {s} : session'[q] = session[q]
    BY <1>1 DEF Begin, TypeOK
  <2>2. Known(s)' \subseteq tokens
    BY <1>1, <2>1 DEF Known
  <2>3. Made' \subseteq Made
    BY <1>1, <2>1, <2>2, KnownByOthers, MadeGrows
  <2>. QED
    BY <1>1, <2>3, FreshBegun
<1>2. ASSUME NEW s \in Sessions, ~Idle(s), End(s), requests' = requests, NEW X,
             issued' \subseteq issued \cup X, tokens' \subseteq tokens \cup X
      PROVE  Made' \subseteq Made \cup X
  <2>1. session'[s].phase = "idle" /\ \A q \in Sessions \ {s} : session'[q] = session[q]
    BY <1>2 DEF End, TypeOK, IdleSession
  <2>2. Known(s)' = {}
    BY <2>1 DEF Known
  <2>. QED
    BY <1>2, <2>1, <2>2, KnownByOthers, MadeGrows
<1>3. ASSUME NEW s \in Sessions, ~Idle(s), End(s), requests' = requests,
             issued' = issued, tokens' = tokens
      PROVE  NamesAreFresh'
  <2>1. Made' \subseteq Made \cup {}
    BY <1>2, <1>3
  <2>2. \A q \in Sessions : Idle(q)' \/ session'[q] = session[q]
    BY <1>3 DEF End, TypeOK, IdleSession
  <2>. QED
    BY <1>3, <2>1, <2>2, FreshKept
<1>4. ASSUME NEW s \in Sessions, ~Idle(s), requests' = requests, issued' = issued,
             tokens' \subseteq tokens,
             \A q \in Sessions \ {s} : session'[q] = session[q],
             session'[s].number = session[s].number,
             session'[s].phase \in {"allowed", "deleting", "deleted"}
                \/ (Known(s)' \subseteq Known(s))
      PROVE  NamesAreFresh'
  <2>1. Known(s)' \subseteq Known(s)
    BY <1>4 DEF Known
  <2>2. Made' \subseteq Made \cup {}
    BY <1>4, <2>1, KnownByOthers, MadeGrows
  <2>. QED
    BY <1>4, <2>2, FreshKept
<1>5. ASSUME NEW s \in Sessions, NEW e \in Emails, RecordAttempt(s, e)
      PROVE  NamesAreFresh'
  BY <1>1, <1>5 DEF RecordAttempt
<1>6. ASSUME NEW s \in Sessions, NEW e \in Verified, CheckPassword(s, e)
      PROVE  NamesAreFresh'
  BY <1>1, <1>6 DEF CheckPassword
<1>7. ASSUME NEW s \in Sessions, NEW k \in links, Consume(s, k)
      PROVE  NamesAreFresh'
  <2>1. TokensOf(k.email) \subseteq tokens
    BY DEF TokensOf
  <2>. QED
    BY <1>1, <1>7, <2>1 DEF Consume
<1>8. ASSUME NEW s \in Sessions, Allow(s) \/ SeeUnused(s) \/ DeleteUnused(s)
      PROVE  NamesAreFresh'
  <2>1. session[s] \in Asking \cup Allowed
    BY <1>8, PhaseTypes DEF Allow, SeeUnused, DeleteUnused
  <2>2. /\ session'[s].number = session[s].number
        /\ session'[s].phase \in {"allowed", "deleting", "deleted"}
        /\ \A q \in Sessions \ {s} : session'[q] = session[q]
    BY <1>8, <2>1 DEF Allow, SeeUnused, DeleteUnused, Advance, TypeOK, Asking, Allowed
  <2>. QED
    BY <1>4, <1>8, <2>2 DEF Allow, SeeUnused, DeleteUnused
<1>9. ASSUME NEW s \in Sessions, Revoke(s)
      PROVE  NamesAreFresh'
  <2>1. session[s] \in Resetting
    BY <1>9, PhaseTypes DEF Revoke
  <2>2. /\ session'[s].number = session[s].number
        /\ session'[s].old = session[s].old
        /\ \A q \in Sessions \ {s} : session'[q] = session[q]
    BY <1>9, <2>1 DEF Revoke, Advance, TypeOK, Resetting
  <2>3. Known(s)' \subseteq Known(s)
    BY <1>9, <2>2 DEF Known, Revoke
  <2>. QED
    BY <1>4, <1>9, <2>2, <2>3 DEF Revoke
<1>10. ASSUME NEW s \in Sessions, CommitLink(s) \/ IssueToken(s)
       PROVE  NamesAreFresh'
  <2>. DEFINE k == [email |-> session[s].email, number |-> session[s].number]
  <2>1. Made' \subseteq Made \cup {k}
    BY <1>2, <1>10 DEF CommitLink, IssueToken
  <2>. QED
    BY <1>10, <2>1, FreshMade DEF CommitLink, IssueToken
<1>11. ASSUME NEW s \in Sessions, Ignore(s) \/ ResetFails(s) \/ CommitReset(s) \/ Abort(s)
       PROVE  NamesAreFresh'
  BY <1>3, <1>11 DEF Ignore, ResetFails, CommitReset, Abort
<1>12. ASSUME NEW k \in links, Expire(k)
       PROVE  NamesAreFresh'
  BY <1>12 DEF Expire, NamesAreFresh, Made, Known
<1>13. CASE Restart
  <2>1. \A s \in Sessions : Idle(s)'
    BY <1>13 DEF Restart, IdleSession
  <2>2. \A s \in Sessions : Known(s)' = {}
    BY <2>1 DEF Known
  <2>3. Made' \subseteq Made
    BY <1>13, <2>2 DEF Restart, Made
  <2>. QED
    BY <1>13, <2>1, <2>3, FreshKept DEF Restart
<1>14. CASE UNCHANGED vars
  BY <1>14 DEF NamesAreFresh, Made, Known
<1>. QED
  BY <1>5, <1>6, <1>7, <1>8, <1>9, <1>10, <1>11, <1>12, <1>13, <1>14 DEF Next, Step

----------------------------------------------------------------------------
(* Tokens and links                                                        *)

\* What a session that does not act keeps, and one that ends drops.
LEMMA TokenStep ==
    ASSUME TypeOK, NamesAreFresh, KnownAreOwn, OldTokensRevoked, [Next]_vars
    PROVE  KnownAreOwn' /\ OldTokensRevoked'
<1>. USE DEF KnownAreOwn, OldTokensRevoked
<1>1. ASSUME NEW s \in Sessions, tokens' = tokens,
             \A q \in Sessions \ {s} : session'[q] = session[q],
             session'[s].phase \notin {"consumed", "revoked"}
      PROVE  KnownAreOwn' /\ OldTokensRevoked'
  BY <1>1 DEF Known
<1>2. ASSUME NEW s \in Sessions, End(s)
      PROVE  /\ \A q \in Sessions \ {s} : session'[q] = session[q]
             /\ session'[s].phase \notin {"consumed", "revoked"}
  BY <1>2 DEF End, TypeOK, IdleSession
<1>3. ASSUME NEW s \in Sessions, NEW e \in Emails, RecordAttempt(s, e)
      PROVE  KnownAreOwn' /\ OldTokensRevoked'
  BY <1>1, <1>3 DEF RecordAttempt, Begin, TypeOK
<1>4. ASSUME NEW s \in Sessions, NEW e \in Verified, CheckPassword(s, e)
      PROVE  KnownAreOwn' /\ OldTokensRevoked'
  BY <1>1, <1>4 DEF CheckPassword, Begin, TypeOK
<1>5. ASSUME NEW s \in Sessions, NEW k \in links, Consume(s, k)
      PROVE  KnownAreOwn' /\ OldTokensRevoked'
  <2>1. /\ session'[s].phase = "consumed"
        /\ session'[s].email = k.email
        /\ session'[s].old = TokensOf(k.email)
        /\ \A q \in Sessions \ {s} : session'[q] = session[q]
    BY <1>5 DEF Consume, Begin, TypeOK
  <2>. QED
    BY <1>5, <2>1 DEF Consume, Known, TokensOf
<1>6. ASSUME NEW s \in Sessions, Allow(s) \/ SeeUnused(s) \/ DeleteUnused(s)
      PROVE  KnownAreOwn' /\ OldTokensRevoked'
  <2>1. session[s] \in Asking \cup Allowed
    BY <1>6, PhaseTypes DEF Allow, SeeUnused, DeleteUnused
  <2>2. /\ session'[s].phase \in {"allowed", "deleting", "deleted"}
        /\ \A q \in Sessions \ {s} : session'[q] = session[q]
    BY <1>6, <2>1 DEF Allow, SeeUnused, DeleteUnused, Advance, TypeOK, Asking, Allowed
  <2>. QED
    BY <1>1, <1>6, <2>2 DEF Allow, SeeUnused, DeleteUnused
<1>7. ASSUME NEW s \in Sessions, Revoke(s)
      PROVE  KnownAreOwn' /\ OldTokensRevoked'
  <2>1. session[s] \in Resetting /\ session[s].phase = "consumed"
    BY <1>7, PhaseTypes DEF Revoke
  <2>2. /\ session'[s].email = session[s].email
        /\ session'[s].old = session[s].old
        /\ \A q \in Sessions \ {s} : session'[q] = session[q]
    BY <1>7, <2>1 DEF Revoke, Advance, TypeOK, Resetting
  <2>3. \A t \in session[s].old : t.email = session[s].email
    BY <2>1 DEF Known
  <2>4. session'[s].old \cap tokens' = {}
    BY <1>7, <2>2, <2>3 DEF Revoke, TokensOf
  <2>5. KnownAreOwn'
    BY <2>1, <2>2, <2>3 DEF Known
  <2>. QED
    BY <1>7, <2>2, <2>4, <2>5 DEF Revoke
<1>8. ASSUME NEW s \in Sessions, IssueToken(s)
      PROVE  KnownAreOwn' /\ OldTokensRevoked'
  <2>1. ~Idle(s) /\ \A k \in Made : k.number # session[s].number
    BY <1>8 DEF IssueToken, NamesAreFresh
  <2>2. KnownAreOwn'
    BY <1>2, <1>8 DEF IssueToken, Known
  <2>3. ASSUME NEW r \in Sessions, session'[r].phase = "revoked"
        PROVE  session'[r].old \cap tokens' = {}
    <3>1. r # s /\ session'[r] = session[r]
      BY <1>2, <1>8, <2>3 DEF IssueToken
    <3>2. session[r].old \subseteq Made
      BY <2>3, <3>1 DEF Made, Known
    <3>3. [email |-> session[s].email, number |-> session[s].number] \notin session[r].old
      BY <2>1, <3>2
    <3>. QED
      BY <1>8, <2>3, <3>1, <3>3 DEF IssueToken
  <2>. QED
    BY <2>2, <2>3
<1>9. ASSUME NEW s \in Sessions,
             Ignore(s) \/ ResetFails(s) \/ CommitReset(s) \/ CommitLink(s) \/ Abort(s)
      PROVE  KnownAreOwn' /\ OldTokensRevoked'
  BY <1>1, <1>2, <1>9 DEF Ignore, ResetFails, CommitReset, CommitLink, Abort
<1>10. ASSUME NEW k \in links, Expire(k)
       PROVE  KnownAreOwn' /\ OldTokensRevoked'
  BY <1>10 DEF Expire, Known
<1>11. CASE Restart
  BY <1>11 DEF Restart, Known, IdleSession
<1>12. CASE UNCHANGED vars
  BY <1>12 DEF Known
<1>. QED
  BY <1>3, <1>4, <1>5, <1>6, <1>7, <1>8, <1>9, <1>10, <1>11, <1>12 DEF Next, Step

\* Deletions and uses exclude each other, by the locks of the rows.
LEMMA LinkStep ==
    ASSUME TypeOK, links \subseteq issued, SeenAreDeletable, UsedLinksStay, LinkIsReplaced,
           [Next]_vars
    PROVE  (links \subseteq issued)' /\ SeenAreDeletable' /\ UsedLinksStay' /\ LinkIsReplaced'
<1>. USE DEF SeenAreDeletable, UsedLinksStay, LinkIsReplaced
<1>. DEFINE Rows == UNCHANGED <<links, issued, uses>>
            Goal == (links \subseteq issued)' /\ SeenAreDeletable'
                       /\ UsedLinksStay' /\ LinkIsReplaced'
<1>1. ASSUME NEW s \in Sessions, Rows, \A q \in Sessions \ {s} : session'[q] = session[q],
             session'[s].seen = {}
      PROVE  Goal
  BY <1>1 DEF Locked, LinksOf
<1>2. ASSUME NEW s \in Sessions, End(s)
      PROVE  /\ \A q \in Sessions \ {s} : session'[q] = session[q]
             /\ session'[s].seen = {}
  BY <1>2 DEF End, TypeOK, IdleSession
<1>3. ASSUME NEW s \in Sessions, NEW e \in Emails, RecordAttempt(s, e)
      PROVE  Goal
  BY <1>1, <1>3 DEF RecordAttempt, Begin, TypeOK
<1>4. ASSUME NEW s \in Sessions, NEW e \in Verified, CheckPassword(s, e)
      PROVE  Goal
  BY <1>1, <1>4 DEF CheckPassword, Begin, TypeOK
<1>5. ASSUME NEW s \in Sessions, NEW k \in links, Consume(s, k)
      PROVE  Goal
  BY <1>1, <1>5 DEF Consume, Begin, TypeOK
<1>6. ASSUME NEW s \in Sessions, Allow(s)
      PROVE  Goal
  BY <1>1, <1>6, PhaseTypes DEF Allow, Advance, TypeOK, Asking
<1>7. ASSUME NEW s \in Sessions, SeeUnused(s)
      PROVE  Goal
  <2>1. session[s] \in Allowed
    BY <1>7, PhaseTypes DEF SeeUnused
  <2>2. /\ session'[s].phase = "deleting" /\ session'[s].email = session[s].email
        /\ session'[s].seen = LinksOf(session[s].email) \cap Unused
        /\ \A q \in Sessions \ {s} : session'[q] = session[q]
    BY <1>7, <2>1 DEF SeeUnused, TypeOK, Allowed
  <2>3. SeenAreDeletable'
    BY <1>7, <2>2 DEF SeeUnused, Locked, LinksOf
  <2>. QED
    BY <1>7, <2>3 DEF SeeUnused, LinksOf
<1>8. ASSUME NEW s \in Sessions, DeleteUnused(s)
      PROVE  Goal
  <2>1. session[s] \in Allowed
    BY <1>8, PhaseTypes DEF DeleteUnused
  <2>2. /\ session'[s].phase = "deleted" /\ session'[s].email = session[s].email
        /\ session'[s].seen = session[s].seen \cap Unused
        /\ \A q \in Sessions \ {s} : session'[q] = session[q]
    BY <1>8, <2>1 DEF DeleteUnused, StillUnused, TypeOK, Allowed
  <2>3. SeenAreDeletable'
    BY <1>8, <2>2 DEF DeleteUnused, Locked, Unused
  <2>. QED
    BY <1>8, <2>3 DEF DeleteUnused, LinksOf
<1>9. ASSUME NEW s \in Sessions, CommitLink(s)
      PROVE  Goal
  <2>. DEFINE new == [email |-> session[s].email, number |-> session[s].number]
  <2>1. \A k \in session[s].seen : uses[k] = 0 /\ k.email = session[s].email
    BY <1>9 DEF CommitLink, Locked
  <2>2. UsedLinksStay' /\ (links \subseteq issued)'
    BY <1>9, <2>1 DEF CommitLink
  <2>3. SeenAreDeletable'
    BY <1>2, <1>9 DEF CommitLink, Locked
  <2>4. ASSUME NEW k \in issued'
        PROVE  LinksOf(k.email)' # {}
    <3>1. CASE k.email = session[s].email
      <4>1. new \in links' /\ new.email = k.email
        BY <1>9, <3>1 DEF CommitLink
      <4>. QED
        BY <4>1 DEF LinksOf
    <3>2. CASE k.email # session[s].email
      <4>1. k \in issued
        BY <1>9, <3>2 DEF CommitLink
      <4>2. PICK l \in links : l.email = k.email
        BY <4>1 DEF LinksOf
      <4>3. l \in links'
        BY <1>9, <2>1, <3>2, <4>2 DEF CommitLink
      <4>. QED
        BY <4>2, <4>3 DEF LinksOf
    <3>. QED
      BY <3>1, <3>2
  <2>. QED
    BY <2>2, <2>3, <2>4
<1>10. ASSUME NEW s \in Sessions, Revoke(s)
       PROVE  Goal
  BY <1>1, <1>10, PhaseTypes DEF Revoke, Advance, TypeOK, Resetting
<1>11. ASSUME NEW s \in Sessions, CommitReset(s)
       PROVE  Goal
  <2>1. /\ session[s].link \in links
        /\ \A r \in Sessions \ {s} : session[s].link \notin Locked(r)
    BY <1>11 DEF CommitReset, Updates, LockedByOthers
  <2>2. UsedLinksStay'
    BY <1>11, <2>1 DEF CommitReset, TypeOK
  <2>3. \A k \in Named \ {session[s].link} : uses'[k] = uses[k]
    BY <1>11 DEF CommitReset, TypeOK
  <2>4. ASSUME NEW r \in Sessions
        PROVE  /\ \A k \in session'[r].seen : k.email = session'[r].email
               /\ \A k \in Locked(r)' : uses'[k] = 0
    <3>1. CASE r = s
      BY <1>2, <1>11, <3>1 DEF CommitReset, Locked
    <3>2. CASE r # s
      <4>1. session'[r] = session[r] /\ Locked(r)' = Locked(r)
        BY <1>2, <1>11, <3>2 DEF CommitReset, Locked
      <4>2. Locked(r) \subseteq Named
        BY Numbered DEF Locked
      <4>. QED
        BY <2>1, <2>3, <3>2, <4>1, <4>2
    <3>. QED
      BY <3>1, <3>2
  <2>. QED
    BY <1>11, <2>2, <2>4 DEF CommitReset, LinksOf
<1>12. ASSUME NEW s \in Sessions, Ignore(s) \/ ResetFails(s) \/ IssueToken(s) \/ Abort(s)
       PROVE  Goal
  BY <1>1, <1>2, <1>12 DEF Ignore, ResetFails, IssueToken, Abort
<1>13. ASSUME NEW k \in links, Expire(k)
       PROVE  Goal
  BY <1>13 DEF Expire, Locked, LinksOf
<1>14. CASE Restart
  BY <1>14 DEF Restart, Locked, LinksOf, IdleSession
<1>15. CASE UNCHANGED vars
  BY <1>15 DEF Locked, LinksOf
<1>. QED
  BY <1>3, <1>4, <1>5, <1>6, <1>7, <1>8, <1>9, <1>10, <1>11, <1>12, <1>13, <1>14, <1>15
     DEF Next, Step

----------------------------------------------------------------------------
(* The limit                                                               *)

\* There are finitely many names of one account.
LEMMA FewNames ==
    ASSUME NEW e \in Verified
    PROVE  IsFiniteSet({k \in Named : k.email = e})
<1>. DEFINE T == {k \in Named : k.email = e}
            f == [n \in 1 .. MaxRequests |-> [email |-> e, number |-> n]]
<1>1. IsFiniteSet(1 .. MaxRequests)
  BY FS_Interval, ResetAssumption
<1>2. f \in [1 .. MaxRequests -> T]
  BY DEF Named
<1>3. \A k \in T : \E n \in 1 .. MaxRequests : f[n] = k
  <2>. TAKE k \in T
  <2>1. k = [email |-> e, number |-> k.number] /\ k.number \in 1 .. MaxRequests
    BY DEF Named
  <2>. QED
    BY <2>1
<1>4. f \in Surjection(1 .. MaxRequests, T)
  BY <1>2, <1>3 DEF Surjection
<1>. QED
  BY <1>1, <1>4, FS_Surjection

\* So counts of what is asked and granted can be compared.
LEMMA Countable ==
    ASSUME NEW e \in Verified
    PROVE  /\ IsFiniteSet(Asked(e)) /\ Cardinality(Asked(e)) \in Nat
           /\ Granted(e) \subseteq Asked(e)
           /\ \A T \in SUBSET Asked(e) :
                 Cardinality(T) \in Nat /\ Cardinality(T) <= Cardinality(Asked(e))
           /\ \A T \in SUBSET Granted(e) :
                 Cardinality(T) \in Nat /\ Cardinality(T) <= Cardinality(Granted(e))
           /\ Cardinality(Granted(e)) \in Nat
<1>1. Granted(e) \subseteq Asked(e) /\ Asked(e) \subseteq {k \in Named : k.email = e}
  BY DEF Granted, Asked, Carries
<1>2. IsFiniteSet(Asked(e)) /\ IsFiniteSet(Granted(e))
  BY <1>1, FewNames, FS_Subset
<1>. QED
  BY <1>1, <1>2, FS_Subset, FS_CardinalityType

\* A step that grants nothing more keeps within the limit.
LEMMA GrantsKept ==
    ASSUME TypeOK, GrantsAreCounted, attempts' = attempts,
           \A e \in Verified : Granted(e)' \subseteq Granted(e) /\ Asked(e)' \subseteq Asked(e)
    PROVE  GrantsAreCounted'
<1>1. ASSUME NEW e \in Verified
      PROVE  /\ Cardinality(Granted(e)') <= MaxPerHour
             /\ Cardinality(Asked(e)') <= attempts'[e]
  <2>1. attempts[e] \in Nat /\ MaxPerHour \in Nat
    BY ResetAssumption DEF TypeOK
  <2>. QED
    BY <2>1, Countable DEF GrantsAreCounted
<1>. QED
  BY <1>1 DEF GrantsAreCounted

\* Sessions grant what they carry: those that carry nothing new grant nothing more.
LEMMA GrantsCarried ==
    ASSUME issued' = issued,
           \A r \in Sessions :
              \/ session'[r] = session[r]
              \/ session'[r].phase \notin {"recorded", "allowed", "deleting", "deleted"}
              \/ /\ session[r].phase \in {"allowed", "deleting"}
                 /\ session'[r].phase \in {"deleting", "deleted"}
                 /\ session'[r].email = session[r].email
                 /\ session'[r].number = session[r].number
    PROVE  \A e \in Verified : Granted(e)' \subseteq Granted(e) /\ Asked(e)' \subseteq Asked(e)
BY DEF Granted, Asked, Carries

\* Every step keeps what is granted within what was counted.
LEMMA GrantStep ==
    ASSUME TypeOK, GrantsAreCounted, [Next]_vars
    PROVE  GrantsAreCounted'
<1>1. ASSUME NEW s \in Sessions, NEW e \in Emails, RecordAttempt(s, e)
      PROVE  GrantsAreCounted'
  <2>. DEFINE new == [email |-> e, number |-> requests + 1]
  <2>1. /\ session'[s].phase = "recorded" /\ session'[s].email = e
        /\ session'[s].number = requests + 1
        /\ \A q \in Sessions \ {s} : session'[q] = session[q]
    BY <1>1 DEF RecordAttempt, Begin, TypeOK
  <2>2. ASSUME NEW d \in Verified
        PROVE  Granted(d)' \subseteq Granted(d)
    BY <1>1, <2>1 DEF RecordAttempt, Granted, Carries
  <2>3. ASSUME NEW d \in Verified, d # e
        PROVE  Asked(d)' \subseteq Asked(d) /\ attempts'[d] = attempts[d]
    BY <1>1, <2>1, <2>3, ResetAssumption DEF RecordAttempt, Asked, Carries, TypeOK
  <2>4. ASSUME e \in Verified
        PROVE  Asked(e)' \subseteq Asked(e) \cup {new} /\ attempts'[e] = attempts[e] + 1
    BY <1>1, <2>1, <2>4 DEF RecordAttempt, Asked, Carries, TypeOK, Named
  <2>5. ASSUME NEW d \in Verified
        PROVE  /\ Cardinality(Granted(d)') <= MaxPerHour
               /\ Cardinality(Asked(d)') <= attempts'[d]
    <3>1. attempts[d] \in Nat /\ MaxPerHour \in Nat
      BY ResetAssumption DEF TypeOK
    <3>2. Cardinality(Granted(d)') <= MaxPerHour
      BY <2>2, <3>1, Countable DEF GrantsAreCounted
    <3>3. CASE d # e
      BY <2>3, <3>1, <3>2, <3>3, Countable DEF GrantsAreCounted
    <3>4. CASE d = e
      <4>1. IsFiniteSet(Asked(e)) /\ Cardinality(Asked(e)) \in Nat
        BY <3>4, Countable
      <4>2. /\ IsFiniteSet(Asked(e) \cup {new})
            /\ Cardinality(Asked(e) \cup {new}) <= Cardinality(Asked(e)) + 1
        <5>1. Cardinality(Asked(e) \cup {new})
                 = IF new \in Asked(e) THEN Cardinality(Asked(e)) ELSE Cardinality(Asked(e)) + 1
          BY <4>1, FS_AddElement
        <5>. QED
          BY <4>1, <5>1, FS_AddElement
      <4>3. /\ Cardinality(Asked(e)') <= Cardinality(Asked(e) \cup {new})
            /\ Cardinality(Asked(e)') \in Nat
            /\ Cardinality(Asked(e) \cup {new}) \in Nat
        BY <2>4, <3>4, <4>2, FS_Subset, FS_CardinalityType
      <4>. QED
        BY <2>4, <3>1, <3>2, <3>4, <4>1, <4>2, <4>3 DEF GrantsAreCounted
    <3>. QED
      BY <3>3, <3>4
  <2>. QED
    BY <2>5 DEF GrantsAreCounted
<1>2. ASSUME NEW s \in Sessions, Allow(s)
      PROVE  GrantsAreCounted'
  <2>1. session[s] \in Asking /\ session[s].phase = "recorded"
    BY <1>2, PhaseTypes DEF Allow
  <2>2. /\ session'[s].phase = "allowed" /\ session'[s].email = session[s].email
        /\ session'[s].number = session[s].number
        /\ \A q \in Sessions \ {s} : session'[q] = session[q]
    BY <1>2, <2>1 DEF Allow, Advance, TypeOK, Asking
  <2>3. ASSUME NEW e \in Verified
        PROVE  Asked(e)' \subseteq Asked(e)
    BY <1>2, <2>1, <2>2 DEF Allow, Asked, Carries
  <2>4. ASSUME NEW e \in Verified, e # session[s].email
        PROVE  Granted(e)' \subseteq Granted(e)
    BY <1>2, <2>2, <2>4 DEF Allow, Granted, Carries
  <2>5. ASSUME NEW e \in Verified
        PROVE  /\ Cardinality(Granted(e)') <= MaxPerHour
               /\ Cardinality(Asked(e)') <= attempts'[e]
    <3>1. attempts[e] \in Nat /\ attempts' = attempts /\ MaxPerHour \in Nat
      BY <1>2, ResetAssumption DEF TypeOK, Allow
    <3>2. Cardinality(Asked(e)') <= attempts'[e]
      BY <2>3, <3>1, Countable DEF GrantsAreCounted
    <3>3. CASE e # session[s].email
      BY <2>4, <3>1, <3>2, <3>3, Countable DEF GrantsAreCounted
    <3>4. CASE e = session[s].email
      <4>1. attempts[e] <= MaxPerHour
        BY <1>2, <3>4 DEF Allow, MayReset
      <4>2. Granted(e)' \subseteq Asked(e)
        BY <2>3 DEF Granted, Asked, Carries
      <4>. QED
        BY <3>1, <3>2, <4>1, <4>2, Countable DEF GrantsAreCounted
    <3>. QED
      BY <3>3, <3>4
  <2>. QED
    BY <2>5 DEF GrantsAreCounted
<1>3. ASSUME NEW s \in Sessions, SeeUnused(s) \/ DeleteUnused(s)
      PROVE  GrantsAreCounted'
  <2>1. session[s] \in Allowed
    BY <1>3, PhaseTypes DEF SeeUnused, DeleteUnused
  <2>2. /\ session[s].phase \in {"allowed", "deleting"}
        /\ session'[s].phase \in {"deleting", "deleted"}
        /\ session'[s].email = session[s].email
        /\ session'[s].number = session[s].number
        /\ \A q \in Sessions \ {s} : session'[q] = session[q]
    BY <1>3, <2>1 DEF SeeUnused, DeleteUnused, TypeOK, Allowed
  <2>. QED
    BY <1>3, <2>2, GrantsCarried, GrantsKept DEF SeeUnused, DeleteUnused
<1>4. ASSUME NEW s \in Sessions, CommitLink(s)
      PROVE  GrantsAreCounted'
  <2>. DEFINE new == [email |-> session[s].email, number |-> session[s].number]
  <2>1. session[s] \in Allowed /\ session[s].phase = "deleted"
    BY <1>4, PhaseTypes DEF CommitLink
  <2>2. /\ session'[s].phase = "idle" /\ issued' = issued \cup {new}
        /\ \A q \in Sessions \ {s} : session'[q] = session[q]
    BY <1>4, <2>1 DEF CommitLink, End, TypeOK, IdleSession
  <2>3. Carries(s, {"allowed", "deleting", "deleted"}, new)
    BY <2>1 DEF Carries
  <2>4. Carries(s, {"recorded", "allowed", "deleting", "deleted"}, new)
    BY <2>1 DEF Carries
  <2>5. ASSUME NEW e \in Verified
        PROVE  Granted(e)' \subseteq Granted(e) /\ Asked(e)' \subseteq Asked(e)
    <3>1. \A r \in Sessions, k \in Named :
             /\ Carries(r, {"allowed", "deleting", "deleted"}, k)'
                   => Carries(r, {"allowed", "deleting", "deleted"}, k)
             /\ Carries(r, {"recorded", "allowed", "deleting", "deleted"}, k)'
                   => Carries(r, {"recorded", "allowed", "deleting", "deleted"}, k)
      BY <2>2 DEF Carries
    <3>. QED
      BY <2>2, <2>3, <2>4, <3>1 DEF Granted, Asked
  <2>. QED
    BY <1>4, <2>5, GrantsKept DEF CommitLink
<1>5. ASSUME NEW s \in Sessions, UNCHANGED <<attempts, issued>>,
             session'[s].phase \notin {"recorded", "allowed", "deleting", "deleted"},
             \A q \in Sessions \ {s} : session'[q] = session[q]
      PROVE  GrantsAreCounted'
  BY <1>5, GrantsCarried, GrantsKept
<1>6. ASSUME NEW s \in Sessions, NEW e \in Verified, CheckPassword(s, e)
      PROVE  GrantsAreCounted'
  BY <1>5, <1>6 DEF CheckPassword, Begin, TypeOK
<1>7. ASSUME NEW s \in Sessions, NEW k \in links, Consume(s, k)
      PROVE  GrantsAreCounted'
  BY <1>5, <1>7 DEF Consume, Begin, TypeOK
<1>8. ASSUME NEW s \in Sessions, Revoke(s)
      PROVE  GrantsAreCounted'
  BY <1>5, <1>8, PhaseTypes DEF Revoke, Advance, TypeOK, Resetting
<1>9. ASSUME NEW s \in Sessions,
             Ignore(s) \/ ResetFails(s) \/ CommitReset(s) \/ IssueToken(s) \/ Abort(s)
      PROVE  GrantsAreCounted'
  <2>1. End(s) /\ UNCHANGED <<attempts, issued>>
    BY <1>9 DEF Ignore, ResetFails, CommitReset, IssueToken, Abort
  <2>. QED
    BY <1>5, <2>1 DEF End, TypeOK, IdleSession
<1>10. ASSUME NEW k \in links, Expire(k)
       PROVE  GrantsAreCounted'
  BY <1>10, GrantsCarried, GrantsKept DEF Expire
<1>11. CASE Restart
  BY <1>11, GrantsCarried, GrantsKept DEF Restart, IdleSession
<1>12. CASE UNCHANGED vars
  BY <1>12, GrantsCarried, GrantsKept
<1>. QED
  BY <1>1, <1>2, <1>3, <1>4, <1>6, <1>7, <1>8, <1>9, <1>10, <1>11, <1>12 DEF Next, Step

----------------------------------------------------------------------------
(* The uses of a link                                                      *)

\* The resets that are on their way with a link can be counted.
LEMMA FewClaims ==
    ASSUME NEW k
    PROVE  /\ IsFiniteSet(Claims(k)) /\ Cardinality(Claims(k)) \in Nat
           /\ Cardinality(Claims(k)) <= Cardinality(Sessions)
           /\ Cardinality(Sessions) \in Nat
           /\ \A T \in SUBSET Claims(k) :
                 Cardinality(T) \in Nat /\ Cardinality(T) <= Cardinality(Claims(k))
<1>1. Claims(k) \subseteq Sessions /\ IsFiniteSet(Sessions)
  BY ResetAssumption DEF Claims
<1>2. IsFiniteSet(Claims(k)) /\ Cardinality(Claims(k)) <= Cardinality(Sessions)
  BY <1>1, FS_Subset
<1>. QED
  BY <1>1, <1>2, FS_Subset, FS_CardinalityType

\* A step that uses no link, and lets no reset in with a used one
LEMMA ClaimsKept ==
    ASSUME TypeOK, UsesAreClaimed, uses' = uses,
           \A k \in Named : uses[k] > 0 => Claims(k)' \subseteq Claims(k)
    PROVE  UsesAreClaimed'
<1>1. ASSUME NEW k \in Named, uses[k] > 0
      PROVE  uses'[k] + Cardinality(Claims(k)') <= Cardinality(Sessions)
  <2>1. uses[k] \in Nat
    BY DEF TypeOK
  <2>2. uses[k] + Cardinality(Claims(k)) <= Cardinality(Sessions)
    BY <1>1 DEF UsesAreClaimed
  <2>3. Cardinality(Claims(k)') \in Nat /\ Cardinality(Claims(k)') <= Cardinality(Claims(k))
    BY <1>1, FewClaims
  <2>. QED
    BY <2>1, <2>2, <2>3, FewClaims
<1>. QED
  BY <1>1 DEF UsesAreClaimed

\* A session that does not come to hold a link adds no claim.
LEMMA ClaimsOfOthers ==
    ASSUME NEW s \in Sessions, \A q \in Sessions \ {s} : session'[q] = session[q],
           \/ session'[s].phase \notin {"consumed", "revoked"}
           \/ /\ session[s].phase \in {"consumed", "revoked"}
              /\ session'[s].link = session[s].link
    PROVE  \A k \in Named : Claims(k)' \subseteq Claims(k)
BY DEF Claims

\* Every step keeps uses and claims together within the threads.
LEMMA ClaimStep ==
    ASSUME TypeOK, UsesAreClaimed, [Next]_vars
    PROVE  UsesAreClaimed'
<1>1. ASSUME NEW s \in Sessions, NEW k \in links, Consume(s, k)
      PROVE  UsesAreClaimed'
  <2>1. /\ session'[s].phase = "consumed" /\ session'[s].link = k /\ uses[k] = 0
        /\ \A q \in Sessions \ {s} : session'[q] = session[q]
        /\ uses' = uses
    BY <1>1 DEF Consume, Begin, Unused, TypeOK
  <2>2. \A j \in Named : uses[j] > 0 => Claims(j)' \subseteq Claims(j)
    BY <2>1 DEF Claims
  <2>. QED
    BY <2>1, <2>2, ClaimsKept
<1>2. ASSUME NEW s \in Sessions, CommitReset(s)
      PROVE  UsesAreClaimed'
  <2>. DEFINE l == session[s].link
  <2>1. session[s] \in Resetting /\ l \in Named
    BY <1>2, PhaseTypes DEF CommitReset, Resetting
  <2>2. /\ s \in Claims(l) /\ uses' = [uses EXCEPT ![l] = @ + 1]
        /\ session'[s].phase = "idle"
        /\ \A q \in Sessions \ {s} : session'[q] = session[q]
    BY <1>2, <2>1 DEF CommitReset, End, TypeOK, IdleSession, Claims
  <2>. HIDE DEF l
  <2>3. ASSUME NEW k \in Named, uses'[k] > 0
        PROVE  uses'[k] + Cardinality(Claims(k)') <= Cardinality(Sessions)
    <3>1. uses[k] \in Nat /\ (uses[k] > 0 => uses[k] + Cardinality(Claims(k)) <= Cardinality(Sessions))
      BY DEF TypeOK, UsesAreClaimed
    <3>2. CASE k # l
      <4>1. Claims(k)' \subseteq Claims(k)
        BY <2>2 DEF Claims
      <4>2. Cardinality(Claims(k)') \in Nat /\ Cardinality(Claims(k)') <= Cardinality(Claims(k))
        BY <4>1, FewClaims
      <4>3. uses'[k] = uses[k]
        BY <2>1, <2>2, <3>2 DEF TypeOK
      <4>. QED
        BY <2>3, <3>1, <4>2, <4>3, FewClaims
    <3>3. CASE k = l
      <4>1. Claims(k)' \subseteq Claims(k) \ {s} /\ s \in Claims(k)
        BY <2>2, <3>3 DEF Claims
      <4>2. Cardinality(Claims(k) \ {s}) = Cardinality(Claims(k)) - 1
        BY <4>1, FewClaims, FS_RemoveElement
      <4>3. /\ Cardinality(Claims(k)') \in Nat
            /\ Cardinality(Claims(k)') <= Cardinality(Claims(k) \ {s})
        <5>1. IsFiniteSet(Claims(k) \ {s})
          BY FewClaims, FS_RemoveElement
        <5>. QED
          BY <4>1, <5>1, FS_Subset, FS_CardinalityType
      <4>4. uses'[k] = uses[k] + 1
        BY <2>1, <2>2, <3>3 DEF TypeOK
      <4>. QED
        BY <3>1, <4>2, <4>3, <4>4, FewClaims
    <3>. QED
      BY <3>2, <3>3
  <2>. QED
    BY <2>3 DEF UsesAreClaimed
<1>3. ASSUME NEW s \in Sessions, uses' = uses,
             \A q \in Sessions \ {s} : session'[q] = session[q],
             \/ session'[s].phase \notin {"consumed", "revoked"}
             \/ /\ session[s].phase \in {"consumed", "revoked"}
                /\ session'[s].link = session[s].link
      PROVE  UsesAreClaimed'
  BY <1>3, ClaimsOfOthers, ClaimsKept
<1>4. ASSUME NEW s \in Sessions,
             (\E e \in Emails : RecordAttempt(s, e)) \/ (\E e \in Verified : CheckPassword(s, e))
      PROVE  UsesAreClaimed'
  BY <1>3, <1>4 DEF RecordAttempt, CheckPassword, Begin, TypeOK
<1>5. ASSUME NEW s \in Sessions, Allow(s) \/ SeeUnused(s) \/ DeleteUnused(s)
      PROVE  UsesAreClaimed'
  <2>1. session[s] \in Asking \cup Allowed
    BY <1>5, PhaseTypes DEF Allow, SeeUnused, DeleteUnused
  <2>2. session'[s].phase \in {"allowed", "deleting", "deleted"}
    BY <1>5, <2>1 DEF Allow, SeeUnused, DeleteUnused, Advance, TypeOK, Asking, Allowed
  <2>3. \A q \in Sessions \ {s} : session'[q] = session[q]
    BY <1>5 DEF Allow, SeeUnused, DeleteUnused, Advance, TypeOK
  <2>. QED
    BY <1>3, <1>5, <2>2, <2>3 DEF Allow, SeeUnused, DeleteUnused
<1>6. ASSUME NEW s \in Sessions, Revoke(s)
      PROVE  UsesAreClaimed'
  <2>1. session[s] \in Resetting /\ session[s].phase = "consumed"
    BY <1>6, PhaseTypes DEF Revoke
  <2>2. session'[s].link = session[s].link /\ \A q \in Sessions \ {s} : session'[q] = session[q]
    BY <1>6, <2>1 DEF Revoke, Advance, TypeOK, Resetting
  <2>. QED
    BY <1>3, <1>6, <2>1, <2>2 DEF Revoke
<1>7. ASSUME NEW s \in Sessions,
             CommitLink(s) \/ Ignore(s) \/ ResetFails(s) \/ IssueToken(s) \/ Abort(s)
      PROVE  UsesAreClaimed'
  <2>1. End(s) /\ uses' = uses
    BY <1>7 DEF CommitLink, Ignore, ResetFails, IssueToken, Abort
  <2>. QED
    BY <1>3, <2>1 DEF End, TypeOK, IdleSession
<1>8. ASSUME NEW k \in links, Expire(k)
      PROVE  UsesAreClaimed'
  BY <1>8 DEF Expire, UsesAreClaimed, Claims
<1>9. CASE Restart
  <2>1. uses' = uses /\ \A k \in Named : Claims(k)' \subseteq Claims(k)
    BY <1>9 DEF Restart, Claims, IdleSession
  <2>. QED
    BY <2>1, ClaimsKept
<1>10. CASE UNCHANGED vars
  BY <1>10 DEF UsesAreClaimed, Claims
<1>. QED
  BY <1>1, <1>2, <1>4, <1>5, <1>6, <1>7, <1>8, <1>9, <1>10 DEF Next, Step

----------------------------------------------------------------------------
(* The inductive invariant, and what follows                               *)

\* The first state satisfies it.
LEMMA InitIInv == Init => IInv
<1>. SUFFICES ASSUME Init PROVE IInv
  OBVIOUS
<1>. USE DEF Init
<1>1. TypeOK
  BY ResetAssumption DEF TypeOK
<1>2. \A s \in Sessions : session[s].phase = "idle" /\ session[s].seen = {}
  BY DEF IdleSession
<1>3. Made = {}
  BY <1>2 DEF Made, Known
<1>4. NamesAreFresh /\ KnownAreOwn /\ OldTokensRevoked
  BY <1>2, <1>3 DEF NamesAreFresh, KnownAreOwn, OldTokensRevoked, Known
<1>5. SeenAreDeletable /\ UsedLinksStay /\ LinkIsReplaced /\ links \subseteq issued
  BY <1>2 DEF SeenAreDeletable, UsedLinksStay, LinkIsReplaced, Locked
<1>6. \A e \in Verified : Granted(e) = {} /\ Asked(e) = {}
  BY <1>2 DEF Granted, Asked, Carries
<1>7. GrantsAreCounted
  BY <1>6, FS_EmptySet, ResetAssumption DEF GrantsAreCounted
<1>8. UsesAreClaimed
  BY DEF UsesAreClaimed
<1>. QED
  BY <1>1, <1>4, <1>5, <1>7, <1>8 DEF IInv

\* Every step preserves it.
LEMMA StepIInv == IInv /\ [Next]_vars => IInv'
BY TypeStep, FreshStep, TokenStep, LinkStep, GrantStep, ClaimStep DEF IInv

\* The inductive invariant holds in every reachable state.
THEOREM Inductive == Spec => []IInv
BY InitIInv, StepIInv, PTL DEF Spec

\* Every variable keeps its type.
THEOREM TypeCorrect == Spec => []TypeOK
<1>1. IInv => TypeOK
  BY DEF IInv
<1>. QED
  BY <1>1, Inductive, PTL

\* However many ask at once, no more links than the limit are sent to an address.
THEOREM LimitHolds == Spec => []LinksWithinLimit
<1>1. ASSUME IInv, NEW e \in Emails
      PROVE  Cardinality({k \in issued : k.email = e}) <= MaxPerHour
  <2>. DEFINE T == {k \in issued : k.email = e}
  <2>1. issued \subseteq Named /\ MaxPerHour \in Nat
    BY <1>1, ResetAssumption DEF IInv, TypeOK
  <2>2. CASE e \in Verified
    <3>1. T \subseteq Granted(e)
      BY <2>1 DEF Granted
    <3>2. Cardinality(Granted(e)) <= MaxPerHour
      BY <1>1, <2>2 DEF IInv, GrantsAreCounted
    <3>. QED
      BY <2>1, <2>2, <3>1, <3>2, Countable
  <2>3. CASE e \notin Verified
    <3>1. T = {}
      BY <2>1, <2>3 DEF Named
    <3>. QED
      BY <2>1, <3>1, FS_EmptySet
  <2>. QED
    BY <2>2, <2>3
<1>2. IInv => LinksWithinLimit
  BY <1>1 DEF LinksWithinLimit
<1>. QED
  BY <1>2, Inductive, PTL

\* A DELETE of unused links never takes one that was used.
THEOREM UsedStay == Spec => []UsedLinksStay
<1>1. IInv => UsedLinksStay
  BY DEF IInv
<1>. QED
  BY <1>1, Inductive, PTL

\* A link sets no more passwords than resets can find it unused at once.
THEOREM UsesOverlap == Spec => []UsesNeedOverlap
<1>1. ASSUME IInv, NEW k \in Named
      PROVE  uses[k] <= Cardinality(Sessions)
  <2>1. uses[k] \in Nat /\ (uses[k] > 0 => uses[k] + Cardinality(Claims(k)) <= Cardinality(Sessions))
    BY <1>1 DEF IInv, TypeOK, UsesAreClaimed
  <2>. QED
    BY <2>1, FewClaims
<1>2. IInv => UsesNeedOverlap
  BY <1>1 DEF UsesNeedOverlap
<1>. QED
  BY <1>2, Inductive, PTL

\* An account that was sent a link has one, whatever fails while it is replaced.
THEOREM Replaced == Spec => []LinkIsReplaced
<1>1. IInv => LinkIsReplaced
  BY DEF IInv
<1>. QED
  BY <1>1, Inductive, PTL

\* A reset commits with no token alive that is older than it.
THEOREM Revoked == Spec => []OldTokensRevoked
<1>1. IInv => OldTokensRevoked
  BY DEF IInv
<1>. QED
  BY <1>1, Inductive, PTL

\* No step, a reset that had found its link valid included, uses a deleted link
\* or brings it back: the link of a request has a name that was never issued.
THEOREM DeletedStayDead == Spec => DeletedLinksAreDead
<1>. DEFINE Dead == \A k \in issued \ links : k \notin links' /\ uses'[k] = uses[k]
<1>1. ASSUME IInv, [Next]_vars
      PROVE  Dead
  <2>. SUFFICES ASSUME NEW k \in issued, k \notin links
                PROVE  k \notin links' /\ uses'[k] = uses[k]
    OBVIOUS
  <2>1. TypeOK /\ NamesAreFresh /\ k \in Made
    BY <1>1 DEF IInv, Made
  <2>2. CASE UNCHANGED <<links, uses>>
    BY <2>2
  <2>3. ASSUME NEW s \in Sessions, CommitLink(s)
        PROVE  k \notin links' /\ uses'[k] = uses[k]
    <3>1. k.number # session[s].number
      BY <2>1, <2>3 DEF CommitLink, NamesAreFresh
    <3>2. k # [email |-> session[s].email, number |-> session[s].number]
      BY <3>1
    <3>. QED
      BY <2>3, <3>2 DEF CommitLink
  <2>4. ASSUME NEW s \in Sessions, CommitReset(s)
        PROVE  k \notin links' /\ uses'[k] = uses[k]
    <3>1. session[s].link # k
      BY <2>4 DEF CommitReset, Updates
    <3>2. k \in Named
      BY <2>1 DEF TypeOK
    <3>. QED
      BY <2>1, <2>4, <3>1, <3>2 DEF CommitReset, TypeOK
  <2>5. UNCHANGED <<links, uses>> \/ \E s \in Sessions : CommitLink(s) \/ CommitReset(s)
    BY <1>1 DEF Next, Step, RecordAttempt, CheckPassword, Consume, Allow, Ignore, SeeUnused,
                DeleteUnused, Revoke, ResetFails, IssueToken, Abort, Expire, Restart
  <2>. QED
    BY <2>2, <2>3, <2>4, <2>5
<1>2. IInv /\ [Next]_vars => [Dead]_vars
  BY <1>1
<1>. QED
  BY <1>2, Inductive, PTL DEF Spec, DeletedLinksAreDead

=============================================================================
