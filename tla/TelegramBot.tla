---------------------------- MODULE TelegramBot ----------------------------
(***************************************************************************)
(* The Telegram bot: POST /telegram/webhook handled by concurrent threads  *)
(* of the API (app/modules/telegram/webhook_service.py).  Telegram repeats *)
(* an update until a delivery of it is answered with success, and an error *)
(* of a reply, like any other exception, fails the delivery whatever it    *)
(* has committed before.                                                   *)
(*                                                                         *)
(* A variable of the database holds what is committed; a handler's own     *)
(* flushed rows are in its record.  The calls that issue and check a code  *)
(* are one step each: UserAccounts has the interleavings inside them.      *)
(***************************************************************************)
EXTENDS Integers, FiniteSets

CONSTANTS
    Persons,        \* Telegram accounts
    Emails,
    Member,         \* a person who has sent an email to the bot before,
    MemberEmail,    \* this one
    Handlers,       \* threads of the API process
    NoEmail,
    MaxAttempts,    \* EMAIL_VERIFICATION_MAX_ATTEMPTS
    MaxUpdates,     \* bound: messages written to the bot
    MaxHeld,        \* bound: messages not delivered yet when one more is written
    MaxFailures     \* bound: failed replies, timeouts and ends of the process

ASSUME BotAssumption ==
    /\ Member \in Persons /\ MemberEmail \in Emails /\ NoEmail \notin Emails
    /\ Persons \cap Emails = {}
    /\ IsFiniteSet(Emails) /\ IsFiniteSet(Handlers)
    /\ MaxAttempts \in Nat \ {0}
    /\ MaxUpdates \in Nat /\ MaxHeld \in Nat /\ MaxFailures \in Nat

VARIABLES
    updates,        \* how many messages have been written
    held,           \* the messages that Telegram has to deliver, for the first time or again
    users,          \* rows of users: the delivery that made one, and the name of its person
    owner,          \* user_identities.user_id of a Telegram account or email, or 0
    verified,       \* emails whose identity is verified
    code,           \* the delivery that issued an email's code, or 0
    left,           \* verification_attempts_left
    handler,        \* what each thread is doing
    deliveries,     \* deliveries so far
    tasks,          \* prediction tasks committed for an update
    failed,         \* history variable: failed deliveries of an update
    crossed,        \* history variable: persons whose messages were handled at once
    failures

identities == <<owner, verified, code, left>>
telegram == <<updates, held, deliveries, failed, failures>>
vars == <<telegram, users, identities, handler, tasks, crossed>>

----------------------------------------------------------------------------
(* Messages and deliveries                                                 *)

Updates == 1 .. MaxUpdates
Keys == Persons \cup Emails

\* What a text is to the bot.  A code is named after the delivery that issued
\* it.  Before an email is verified, "predict" is any other text, which is no
\* code; afterwards a text that is no /predict does what a refused one does.
Texts ==
    [kind : {"start", "predict"}]
    \cup [kind : {"email"}, email : Emails]
    \cup [kind : {"code"}, code : Nat]
Messages == [from : Persons, text : Texts]
NoMessage == [from |-> "none"]

Phases ==
    {"new",         \* no identity was found for the Telegram account
     "joining",     \* its user is flushed
     "known",       \* the user of this delivery is settled
     "unverified",  \* without a verified email
     "verified",    \* with one
     "email",       \* the text is an email
     "binding",     \* nobody has this email
     "issuing",     \* the user has this email
     "checking",    \* the text is taken for the code of an email
     "reply"}       \* about to send the reply and to return

Replies == {"none", "text", "taken", "sent", "right", "wrong", "expired"}

IdleHandler == [phase |-> "idle"]
Deliveries ==
    [phase  : Phases,
     update : Updates,
     message : Messages,
     number : Nat,
     user   : Nat,
     email  : Emails \cup {NoEmail},
     reply  : Replies,
     given  : BOOLEAN]      \* Telegram does not wait for the answer any more

Waiting == {u \in Updates : held[u] # NoMessage}

Idle(h) == handler[h].phase = "idle"
Person(h) == handler[h].message.from
Text(h) == handler[h].message.text
Guess(h) == IF Text(h).kind = "code" THEN Text(h).code ELSE 0

EmailsOf(u) == {e \in Emails : owner[e] = u}

Goto(h, phase) == handler' = [handler EXCEPT ![h].phase = phase]
Reply(h, reply) == handler' = [handler EXCEPT ![h].phase = "reply", ![h].reply = reply]

\* The first delivery made the user of the member and issued a code.
Init ==
    /\ updates = 0 /\ deliveries = 1 /\ failures = 0
    /\ held = [u \in Updates |-> NoMessage]
    /\ users = {[id |-> 1, name |-> Member]}
    /\ owner = [k \in Keys |-> IF k \in {Member, MemberEmail} THEN 1 ELSE 0]
    /\ verified = {}
    /\ code = [e \in Emails |-> owner[e]]
    /\ left = [e \in Emails |-> IF e = MemberEmail THEN MaxAttempts ELSE 0]
    /\ handler = [h \in Handlers |-> IdleHandler]
    /\ tasks = [u \in Updates |-> 0]
    /\ failed = [u \in Updates |-> 0]
    /\ crossed = {}

----------------------------------------------------------------------------
(* Telegram                                                                *)

\* A person writes; a code is one that is set.
Write(p, text) ==
    /\ updates < MaxUpdates /\ Cardinality(Waiting) < MaxHeld
    /\ text.kind = "code" => text.code \in {code[e] : e \in Emails} \ {0}
    /\ updates' = updates + 1
    /\ held' = [held EXCEPT ![updates + 1] = [from |-> p, text |-> text]]
    /\ UNCHANGED <<users, identities, handler, deliveries, tasks,
                   failed, crossed, failures>>

\* A delivery: the handler looks for the identity of the Telegram account.
Deliver(h, u) ==
    /\ Idle(h)
    /\ u \in Waiting
    /\ held' = [held EXCEPT ![u] = NoMessage]
    /\ deliveries' = deliveries + 1
    /\ LET found == owner[held[u].from] IN
       handler' = [handler EXCEPT ![h] =
          [phase  |-> IF found = 0 THEN "new" ELSE "known",
           update |-> u, message |-> held[u], number |-> deliveries + 1, user |-> found,
           email  |-> NoEmail, reply |-> "none", given |-> FALSE]]
    /\ crossed' = IF \E g \in Handlers : ~Idle(g) /\ Person(g) = held[u].from
                  THEN crossed \cup {held[u].from} ELSE crossed
    /\ UNCHANGED <<updates, users, identities, tasks, failed, failures>>

\* The delivery fails, its transaction is rolled back, and Telegram repeats it.
Undo(h) ==
    /\ handler' = [handler EXCEPT ![h] = IdleHandler]
    /\ IF handler[h].given
       THEN UNCHANGED <<held, failed>>
       ELSE /\ held' = [held EXCEPT ![handler[h].update] = handler[h].message]
            /\ failed' = [failed EXCEPT ![handler[h].update] = @ + 1]
    /\ UNCHANGED <<updates, deliveries, users, identities, tasks, crossed>>

\* send_message raises, or anything else does, or the process ends.
Fail(h) ==
    /\ ~Idle(h)
    /\ failures < MaxFailures
    /\ failures' = failures + 1
    /\ Undo(h)

\* Telegram gives up waiting for an answer that is still to come.
GiveUp(h) ==
    /\ ~Idle(h) /\ ~handler[h].given
    /\ failures < MaxFailures
    /\ failures' = failures + 1
    /\ handler' = [handler EXCEPT ![h].given = TRUE]
    /\ held' = [held EXCEPT ![handler[h].update] = handler[h].message]
    /\ failed' = [failed EXCEPT ![handler[h].update] = @ + 1]
    /\ UNCHANGED <<updates, deliveries, users, identities, tasks, crossed>>

\* The replies are sent and the webhook returns.
Answer(h) ==
    /\ handler[h].phase = "reply"
    /\ handler' = [handler EXCEPT ![h] = IdleHandler]
    /\ UNCHANGED <<telegram, users, identities, tasks, crossed>>

----------------------------------------------------------------------------
(* _ensure_telegram_user                                                   *)

\* Mutation of RegisterUser: the user is committed before its identity.
RegisterUserAlone(h) ==
    /\ handler[h].phase = "new"
    /\ users' = users \cup {[id |-> handler[h].number, name |-> Person(h)]}
    /\ handler' = [handler EXCEPT
          ![h].user = handler[h].number,
          ![h].phase = IF owner[Person(h)] # 0 THEN "known" ELSE "joining"]
    /\ UNCHANGED <<telegram, identities, tasks, crossed>>

\* A new user is flushed; register_telegram_identity looks again, and if the
\* identity is there by now, this delivery goes on with a user of its own.
RegisterUser(h) ==
    /\ handler[h].phase = "new"
    /\ handler' = [handler EXCEPT
          ![h].user = handler[h].number,
          ![h].phase = IF owner[Person(h)] # 0 THEN "known" ELSE "joining"]
    /\ UNCHANGED <<telegram, users, identities, tasks, crossed>>

\* The INSERT of an identity and the commit, with the user if this delivery has
\* flushed one.  An INSERT of the same identifier by another waits until then,
\* so the two are one step.
Insert(h, key, phase) ==
    /\ owner[key] = 0
    /\ owner' = [owner EXCEPT ![key] = handler[h].user]
    /\ users' = users \cup {[id |-> handler[h].user, name |-> Person(h)]}
    /\ Goto(h, phase)
    /\ UNCHANGED <<telegram, verified, code, left, tasks, crossed>>

\* IntegrityError, or "Login already registered"
InsertFails(h, key) ==
    /\ owner[key] # 0
    /\ Undo(h)
    /\ UNCHANGED failures

JoinChat(h) ==
    /\ handler[h].phase = "joining"
    /\ Insert(h, Person(h), "known") \/ InsertFails(h, Person(h))

----------------------------------------------------------------------------
(* handle_telegram_update                                                  *)

\* Mutation of FindVerified: is_verified is not looked at.
FindAnyEmail(h) ==
    /\ handler[h].phase = "known"
    /\ Goto(h, IF EmailsOf(handler[h].user) # {} THEN "verified" ELSE "unverified")
    /\ UNCHANGED <<telegram, users, identities, tasks, crossed>>

\* _verified_email_login
FindVerified(h) ==
    /\ handler[h].phase = "known"
    /\ Goto(h, IF EmailsOf(handler[h].user) \cap verified # {}
               THEN "verified" ELSE "unverified")
    /\ UNCHANGED <<telegram, users, identities, tasks, crossed>>

\* _pending_email_login takes the first of the unverified emails, in no order
\* that the query asks for.  An email is bound; any other text but /start is
\* taken for the code of the pending one.
FindPending(h) ==
    /\ handler[h].phase = "unverified"
    /\ LET pending == EmailsOf(handler[h].user) \ verified IN
       \/ Text(h).kind = "start" /\ Reply(h, "text")
       \/ Text(h).kind = "email" /\ Goto(h, "email")
       \/ Text(h).kind \notin {"start", "email"} /\ pending = {} /\ Reply(h, "text")
       \/ /\ Text(h).kind \notin {"start", "email"}
          /\ \E e \in pending :
                handler' = [handler EXCEPT ![h].phase = "checking", ![h].email = e]
    /\ UNCHANGED <<telegram, users, identities, tasks, crossed>>

\* get_email_identity: nobody's, the user's own, or that of another account
FindEmail(h) ==
    /\ handler[h].phase = "email"
    /\ LET e == Text(h).email IN
       \/ owner[e] = 0 /\ Goto(h, "binding")
       \/ owner[e] # 0 /\ owner[e] = handler[h].user /\ Goto(h, "issuing")
       \/ owner[e] \notin {0, handler[h].user} /\ Reply(h, "taken")
    /\ UNCHANGED <<telegram, users, identities, tasks, crossed>>

\* Mutation of BindEmail: an insertion that fails is tried again.
BindEmailRetried(h) ==
    /\ handler[h].phase = "binding"
    /\ \/ Insert(h, Text(h).email, "issuing")
       \/ owner[Text(h).email] # 0 /\ UNCHANGED vars

\* register_email_identity
BindEmail(h) ==
    /\ handler[h].phase = "binding"
    /\ Insert(h, Text(h).email, "issuing") \/ InsertFails(h, Text(h).email)

\* start_email_verification; the code it returns is dropped
IssueCode(h) ==
    /\ handler[h].phase = "issuing"
    /\ code' = [code EXCEPT ![Text(h).email] = handler[h].number]
    /\ left' = [left EXCEPT ![Text(h).email] = MaxAttempts]
    /\ Reply(h, "sent")
    /\ UNCHANGED <<telegram, users, owner, verified, tasks, crossed>>

\* verify_email_code for the pending email: no code, a late one, a wrong text
\* that costs an attempt and with the last one the code, or the right one
CheckCode(h, late) ==
    /\ handler[h].phase = "checking"
    /\ LET e == handler[h].email
           withdrawn == [code EXCEPT ![e] = 0]
       IN
       \/ /\ code[e] = 0
          /\ Reply(h, "expired")
          /\ UNCHANGED <<verified, code, left>>
       \/ /\ code[e] # 0 /\ late
          /\ Reply(h, "expired")
          /\ code' = withdrawn /\ left' = [left EXCEPT ![e] = 0]
          /\ UNCHANGED verified
       \/ /\ code[e] # 0 /\ ~late /\ Guess(h) # code[e]
          /\ Reply(h, "wrong")
          /\ left' = [left EXCEPT ![e] = IF @ <= 1 THEN 0 ELSE @ - 1]
          /\ code' = IF left[e] <= 1 THEN withdrawn ELSE code
          /\ UNCHANGED verified
       \/ /\ code[e] # 0 /\ ~late /\ Guess(h) = code[e]
          /\ Reply(h, "right")
          /\ verified' = verified \cup {e}
          /\ code' = withdrawn /\ left' = [left EXCEPT ![e] = 0]
    /\ UNCHANGED <<telegram, users, owner, tasks, crossed>>

\* Mutation of RunCommand: the command is run again until its reply is sent.
RunCommandAgain(h) ==
    /\ handler[h].phase = "verified"
    /\ \/ Reply(h, "text") /\ UNCHANGED tasks
       \/ /\ Text(h).kind = "predict"
          /\ tasks' = [tasks EXCEPT ![handler[h].update] = @ + 1]
          /\ UNCHANGED handler
    /\ UNCHANGED <<telegram, users, identities, crossed>>

\* /predict commits a task and publishes it, unless it is refused; the other
\* commands only read.
RunCommand(h) ==
    /\ handler[h].phase = "verified"
    /\ Reply(h, "text")
    /\ \/ /\ Text(h).kind = "predict"
          /\ tasks' = [tasks EXCEPT ![handler[h].update] = @ + 1]
       \/ UNCHANGED tasks
    /\ UNCHANGED <<telegram, users, identities, crossed>>

----------------------------------------------------------------------------
Step(h) ==
    \/ RegisterUser(h)
    \/ JoinChat(h)
    \/ FindVerified(h)
    \/ FindPending(h)
    \/ FindEmail(h)
    \/ BindEmail(h)
    \/ IssueCode(h)
    \/ \E late \in BOOLEAN : CheckCode(h, late)
    \/ RunCommand(h)
    \/ Answer(h)

Next ==
    \/ \E p \in Persons :
          \/ \E kind \in {"start", "predict"} : Write(p, [kind |-> kind])
          \/ \E e \in Emails : Write(p, [kind |-> "email", email |-> e])
          \/ \E c \in 1 .. deliveries : Write(p, [kind |-> "code", code |-> c])
    \/ \E h \in Handlers, u \in Updates : Deliver(h, u)
    \/ \E h \in Handlers : Step(h) \/ Fail(h) \/ GiveUp(h)

Spec == Init /\ [][Next]_vars

\* Telegram delivers as long as it holds an update, and a thread goes on.
Fairness ==
    /\ WF_vars(\E h \in Handlers, u \in Updates : Deliver(h, u))
    /\ \A h \in Handlers : WF_vars(Step(h))

FairSpec == Spec /\ Fairness

----------------------------------------------------------------------------
(* Properties                                                              *)

\* Every variable has its type.
TypeOK ==
    /\ updates \in 0 .. MaxUpdates
    /\ held \in [Updates -> Messages \cup {NoMessage}]
    /\ users \subseteq [id : Nat, name : Persons]
    /\ owner \in [Keys -> Nat]
    /\ verified \subseteq Emails
    /\ code \in [Emails -> Nat] /\ left \in [Emails -> 0 .. MaxAttempts]
    /\ handler \in [Handlers -> Deliveries \cup {IdleHandler}]
    /\ deliveries \in Nat
    /\ tasks \in [Updates -> Nat] /\ failed \in [Updates -> Nat]
    /\ crossed \subseteq Persons
    /\ failures \in 0 .. MaxFailures

\* A command whose delivery is repeated creates its task again, but never
\* more often than Telegram had to deliver it again.
TasksNeedFailures == \A u \in Updates : tasks[u] <= 1 + failed[u]

\* The Telegram account of a person leads to the user that was made for it;
\* a user that it does not lead to, with whatever emails were bound to it, is
\* there only if two messages of this person were handled at once.
StraysNeedOverlap ==
    \A user \in users : owner[user.name] = user.id \/ user.name \in crossed

\* A task is created for a user that the writer's Telegram account leads to and
\* that has a verified email by then: not for one that went astray.
TasksNeedVerified ==
    [][\A u \in Updates : tasks'[u] # tasks[u] =>
          \E h \in Handlers :
             /\ handler[h].phase = "verified" /\ handler[h].update = u
             /\ handler[h].user = owner[Person(h)]
             /\ \E e \in verified : owner[e] = handler[h].user]_vars

\* The code of an email of the writer, sent while it is valid, is refused only
\* when this user has bound another email too: the bot checks the first
\* unverified one that the query returns.
CodeIsAccepted ==
    [][\A h \in Handlers :
          /\ handler[h].phase = "checking" /\ handler'[h].phase = "reply"
          /\ handler'[h].reply = "wrong"
          /\ \E e \in EmailsOf(handler[h].user) : code[e] # 0 /\ Guess(h) = code[e]
          => Cardinality(EmailsOf(handler[h].user)) > 1]_vars

\* Every message is answered in the end: failed deliveries are repeated, and
\* the insertions that threads wait for end.
UpdatesAreAnswered ==
    \A u \in Updates :
        (u <= updates) ~>
            (u \notin Waiting /\ \A h \in Handlers : Idle(h) \/ handler[h].update # u)
=============================================================================
