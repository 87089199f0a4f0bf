---------------------------- MODULE PasswordReset ----------------------------
(***************************************************************************)
(* The reset of a forgotten password by a link, and the bearer tokens of   *)
(* the API process (app/modules/users: POST /auth/forgot-password,         *)
(* /auth/reset-password, /auth/login), by concurrent sessions at READ      *)
(* COMMITTED.  A variable holds what is committed, but for the tokens,     *)
(* which live in the memory of the process.                                *)
(*                                                                         *)
(* One account has one email.  A behaviour lies within one hour, the       *)
(* window of the rate limit.                                               *)
(***************************************************************************)
EXTENDS Integers, FiniteSets

CONSTANTS
    Emails,         \* addresses a link may be asked for
    Verified,       \* those with a verified identity and a password
    Sessions,       \* threads of the API process
    MaxPerHour,     \* PASSWORD_RESET_MAX_PER_EMAIL_PER_HOUR
    MaxRequests     \* bound: requests served in a behaviour

ASSUME ResetAssumption ==
    /\ Verified \subseteq Emails
    /\ IsFiniteSet(Sessions)
    /\ MaxPerHour \in Nat \ {0}
    /\ MaxRequests \in Nat

\* A link, like a bearer token, is named after its account and the request that
\* made it.
Named == [email : Verified, number : 1 .. MaxRequests]

VARIABLES
    attempts,   \* rows of password_reset_attempts of an address
    links,      \* rows of password_reset_tokens
    uses,       \* resets done with a link; used_at is set after the first
    late,       \* links whose expires_at is past
    password,   \* the request that set an account's password, 0 for the first
    tokens,     \* bearer tokens, in memory
    session,    \* what each thread is doing
    requests,   \* requests received so far
    issued      \* history variable: links that have ever been committed

vars == <<attempts, links, uses, late, password, tokens, session, requests, issued>>

LinksOf(e) == {k \in links : k.email = e}
TokensOf(e) == {t \in tokens : t.email = e}
Unused == {k \in links : uses[k] = 0}

----------------------------------------------------------------------------
(* Requests                                                                *)

IdleSession == [phase |-> "idle", seen |-> {}]

\* Each phase of a request keeps what the later ones need.
Asking == [phase : {"recorded"}, email : Emails, number : 1 .. MaxRequests, seen : {{}}]
Allowed == [phase : {"allowed", "deleting", "deleted", "checked"},
            email : Verified, number : 1 .. MaxRequests, seen : SUBSET Named]
Resetting == [phase : {"consumed", "revoked"}, email : Verified, number : 1 .. MaxRequests,
              link : Named, old : SUBSET Named, seen : {{}}]
Requests == Asking \cup Allowed \cup Resetting

Idle(s) == session[s].phase = "idle"

Begin(s, r) ==
    /\ Idle(s)
    /\ requests < MaxRequests
    /\ requests' = requests + 1
    /\ session' = [session EXCEPT ![s] = r]

Advance(s, phase) == session' = [session EXCEPT ![s].phase = phase]

\* A request ends, and with it its transaction.
End(s) == session' = [session EXCEPT ![s] = IdleSession]

\* Mutation of Locked: rows are locked, in a way that two can share, once seen.
LockedWhenSeen(s) == session[s].seen

\* Rows that a session's uncommitted DELETE has locked
Locked(s) == IF session[s].phase = "deleted" THEN session[s].seen ELSE {}
LockedByOthers(s) == UNION {Locked(r) : r \in Sessions \ {s}}

Init ==
    /\ attempts = [e \in Emails |-> 0]
    /\ links = {} /\ late = {} /\ issued = {}
    /\ uses = [k \in Named |-> 0]
    /\ password = [e \in Verified |-> 0]
    /\ tokens = {}
    /\ session = [s \in Sessions |-> IdleSession]
    /\ requests = 0

----------------------------------------------------------------------------
(* POST /auth/forgot-password                                              *)

\* Mutation of RecordAttempt: the attempt is not recorded when it is counted.
RecordNothing(s, e) ==
    /\ Begin(s, [phase |-> "recorded", email |-> e, number |-> requests + 1, seen |-> {}])
    /\ UNCHANGED <<attempts, links, uses, late, password, tokens, issued>>

\* record_password_reset_attempt, committed at once
RecordAttempt(s, e) ==
    /\ Begin(s, [phase |-> "recorded", email |-> e, number |-> requests + 1, seen |-> {}])
    /\ attempts' = [attempts EXCEPT ![e] = @ + 1]
    /\ UNCHANGED <<links, uses, late, password, tokens, issued>>

MayReset(e) == attempts[e] <= MaxPerHour /\ e \in Verified

Allow(s) ==
    /\ session[s].phase = "recorded" /\ MayReset(session[s].email)
    /\ Advance(s, "allowed")
    /\ UNCHANGED <<attempts, links, uses, late, password, tokens, requests, issued>>

\* The same answer as ever, and no link.
Ignore(s) ==
    /\ session[s].phase = "recorded" /\ ~MayReset(session[s].email)
    /\ End(s)
    /\ UNCHANGED <<attempts, links, uses, late, password, tokens, requests, issued>>

\* invalidate_unused_password_reset_tokens: the DELETE sees the unused links
\* that are committed now.
SeeUnused(s) ==
    /\ session[s].phase = "allowed"
    /\ session' = [session EXCEPT ![s].phase = "deleting",
                                  ![s].seen = LinksOf(session[s].email) \cap Unused]
    /\ UNCHANGED <<attempts, links, uses, late, password, tokens, requests, issued>>

\* Mutation of StillUnused: the DELETE has no condition on used_at.
StillStored(seen) == seen \cap links

\* Those that an UPDATE or a DELETE of others has spared in the meantime
StillUnused(seen) == seen \cap Unused

\* It waits for rows that are locked, and locks the others until the commit.
DeleteUnused(s) ==
    /\ session[s].phase = "deleting"
    /\ session[s].seen \cap LockedByOthers(s) = {}
    /\ session' = [session EXCEPT ![s].phase = "deleted", ![s].seen = StillUnused(@)]
    /\ UNCHANGED <<attempts, links, uses, late, password, tokens, requests, issued>>

\* insert_password_reset_token and the commit
CommitLink(s) ==
    /\ session[s].phase = "deleted"
    /\ LET link == [email |-> session[s].email, number |-> session[s].number] IN
       /\ links' = (links \ session[s].seen) \cup {link}
       /\ issued' = issued \cup {link}
    /\ End(s)
    /\ UNCHANGED <<attempts, uses, late, password, tokens, requests>>

----------------------------------------------------------------------------
(* POST /auth/reset-password                                               *)

\* Time passes.
Expire(k) ==
    /\ k \notin late
    /\ late' = late \cup {k}
    /\ UNCHANGED <<attempts, links, uses, password, tokens, session, requests, issued>>

\* Mutation of Consume: used_at is not looked at.
ConsumeAny(s, k) ==
    /\ k \notin late
    /\ Begin(s, [phase |-> "consumed", email |-> k.email, number |-> requests + 1,
                 link |-> k, old |-> TokensOf(k.email), seen |-> {}])
    /\ UNCHANGED <<attempts, links, uses, late, password, tokens, issued>>

\* try_consume_password_reset_token reads the link and sets used_at in memory;
\* a link that is unknown, used or late is refused.
Consume(s, k) ==
    /\ k \in Unused \ late
    /\ Begin(s, [phase |-> "consumed", email |-> k.email, number |-> requests + 1,
                 link |-> k, old |-> TokensOf(k.email), seen |-> {}])
    /\ UNCHANGED <<attempts, links, uses, late, password, tokens, issued>>

\* Mutation of Revoke: no token is revoked.
RevokeNone(s) ==
    /\ session[s].phase = "consumed"
    /\ Advance(s, "revoked")
    /\ UNCHANGED <<attempts, links, uses, late, password, tokens, requests, issued>>

\* revoke_access_tokens_for_user, before the commit
Revoke(s) ==
    /\ session[s].phase = "consumed"
    /\ tokens' = tokens \ TokensOf(session[s].email)
    /\ Advance(s, "revoked")
    /\ UNCHANGED <<attempts, links, uses, late, password, requests, issued>>

\* Mutation of Updates: an UPDATE of no row passes unnoticed.
UpdatesAnything(s) == session[s].link \notin LockedByOthers(s)

\* The UPDATE of the link waits for a DELETE of it, and must find a row.
Updates(s) == session[s].link \in links \ LockedByOthers(s)

\* The commit: the link is used and the password is the new one.
CommitReset(s) ==
    /\ session[s].phase = "revoked"
    /\ Updates(s)
    /\ uses' = [uses EXCEPT ![session[s].link] = @ + 1]
    /\ password' = [password EXCEPT ![session[s].email] = session[s].number]
    /\ End(s)
    /\ UNCHANGED <<attempts, links, late, tokens, requests, issued>>

\* The link has been deleted meanwhile: StaleDataError, rolled back.
ResetFails(s) ==
    /\ session[s].phase = "revoked"
    /\ session[s].link \notin links
    /\ End(s)
    /\ UNCHANGED <<attempts, links, uses, late, password, tokens, requests, issued>>

----------------------------------------------------------------------------
(* POST /auth/login, and the end of a transaction or of the process        *)

\* get_auth_token has found the password right.
CheckPassword(s, e) ==
    /\ Begin(s, [phase |-> "checked", email |-> e, number |-> requests + 1, seen |-> {}])
    /\ UNCHANGED <<attempts, links, uses, late, password, tokens, issued>>

\* issue_access_token
IssueToken(s) ==
    /\ session[s].phase = "checked"
    /\ tokens' = tokens \cup {[email |-> session[s].email, number |-> session[s].number]}
    /\ End(s)
    /\ UNCHANGED <<attempts, links, uses, late, password, requests, issued>>

\* An error of the database: rolled back.  What is revoked stays revoked.
Abort(s) ==
    /\ ~Idle(s)
    /\ End(s)
    /\ UNCHANGED <<attempts, links, uses, late, password, tokens, requests, issued>>

\* The process ends, and with it its memory and its transactions.
Restart ==
    /\ session' = [s \in Sessions |-> IdleSession]
    /\ tokens' = {}
    /\ UNCHANGED <<attempts, links, uses, late, password, requests, issued>>

----------------------------------------------------------------------------
Step(s) ==
    \/ Allow(s)
    \/ Ignore(s)
    \/ SeeUnused(s)
    \/ DeleteUnused(s)
    \/ CommitLink(s)
    \/ Revoke(s)
    \/ CommitReset(s)
    \/ ResetFails(s)
    \/ IssueToken(s)

Next ==
    \/ \E s \in Sessions :
          \/ \E e \in Emails : RecordAttempt(s, e)
          \/ \E e \in Verified : CheckPassword(s, e)
          \/ \E k \in links : Consume(s, k)
          \/ Step(s)
          \/ Abort(s)
    \/ \E k \in links : Expire(k)
    \/ Restart

Spec == Init /\ [][Next]_vars

\* A thread that can run does; those that wait for a row get their turn.
Fairness == \A s \in Sessions : SF_vars(Step(s))

FairSpec == Spec /\ Fairness

----------------------------------------------------------------------------
(* Properties                                                              *)

\* Every variable has its type.
TypeOK ==
    /\ attempts \in [Emails -> Nat]
    /\ links \subseteq Named /\ late \subseteq Named /\ issued \subseteq Named
    /\ uses \in [Named -> Nat]
    /\ password \in [Verified -> 0 .. MaxRequests]
    /\ tokens \subseteq Named
    /\ session \in [Sessions -> Requests \cup {IdleSession}]
    /\ requests \in 0 .. MaxRequests

\* However many ask at once, an address is sent no more links within the hour
\* than the limit: each request counts itself before it looks at the limit.
LinksWithinLimit ==
    \A e \in Emails : Cardinality({k \in issued : k.email = e}) <= MaxPerHour

\* A used link is never deleted, by a request that saw it unused either.
UsedLinksStay == \A k \in Named : uses[k] > 0 => k \in links

\* The deletion of the old links and the new one are one transaction: whatever
\* fails, an account that was sent a link has one.
LinkIsReplaced == \A k \in issued : LinksOf(k.email) # {}

\* A link that a newer request deleted sets no password, one that was found
\* valid before the deletion included.
DeletedLinksAreDead ==
    [][\A k \in issued \ links : k \notin links' /\ uses'[k] = uses[k]]_vars

\* A reset is committed only when every token that was issued before it began
\* is revoked.
OldTokensRevoked ==
    \A s \in Sessions : session[s].phase = "revoked" => session[s].old \cap tokens = {}

\* A link that should set one password may set more, but only by resets that had all
\* found it unused before the first of them committed: however many follow one
\* another, with whatever crashes and newer links, no more than there are threads.
UsesNeedOverlap == \A k \in Named : uses[k] <= Cardinality(Sessions)

\* The reason: once a link is used no more resets are let in, and those that are on
\* their way with it make room by committing.
Claims(k) ==
    {s \in Sessions : session[s].phase \in {"consumed", "revoked"} /\ session[s].link = k}
UsesAreClaimed ==
    \A k \in Named :
        uses[k] > 0 => uses[k] + Cardinality(Claims(k)) <= Cardinality(Sessions)

\* Requests have names of their own: none that is on its way has made a link or a
\* token before, or found one of its name.
Known(s) == IF session[s].phase \in {"consumed", "revoked"} THEN session[s].old ELSE {}
Made == issued \cup tokens \cup UNION {Known(s) : s \in Sessions}
NamesAreFresh ==
    /\ \A s \in Sessions : ~Idle(s) =>
          /\ session[s].number <= requests
          /\ \A r \in Sessions \ {s} : ~Idle(r) => session[r].number # session[s].number
          /\ \A k \in Made : k.number # session[s].number
    /\ \A k \in Made : k.number <= requests

\* A reset knows tokens of its account.
KnownAreOwn == \A s \in Sessions : \A t \in Known(s) : t.email = session[s].email

\* A deletion takes links of its account, which nobody has used.
SeenAreDeletable ==
    \A s \in Sessions :
        /\ \A k \in session[s].seen : k.email = session[s].email
        /\ \A k \in Locked(s) : uses[k] = 0

\* Links that are issued, or to be; with those that are not decided yet they
\* are no more than the attempts.
Carries(s, phases, k) ==
    session[s].phase \in phases /\ session[s].email = k.email /\ session[s].number = k.number
Granted(e) == {k \in Named : k.email = e /\ (k \in issued
    \/ \E s \in Sessions : Carries(s, {"allowed", "deleting", "deleted"}, k))}
Asked(e) == {k \in Named : k.email = e /\ (k \in issued
    \/ \E s \in Sessions : Carries(s, {"recorded", "allowed", "deleting", "deleted"}, k))}
GrantsAreCounted ==
    \A e \in Verified :
        /\ Cardinality(Granted(e)) <= MaxPerHour
        /\ Cardinality(Asked(e)) <= attempts[e]

\* The inductive invariant.
IInv ==
    /\ TypeOK
    /\ links \subseteq issued
    /\ NamesAreFresh
    /\ KnownAreOwn
    /\ SeenAreDeletable
    /\ UsedLinksStay
    /\ LinkIsReplaced
    /\ OldTokensRevoked
    /\ UsesAreClaimed
    /\ GrantsAreCounted

\* Every request ends: nobody waits for ever for a link.
RequestsEnd == \A s \in Sessions : ~Idle(s) ~> Idle(s)
=============================================================================
