--------------------------- MODULE TelegramProofs ---------------------------
(***************************************************************************)
(* What module TelegramBot claims of safety, for any people, emails and    *)
(* threads.  A user that a delivery makes is named after the delivery.  So *)
(* a delivery whose person has another user by now knows that nobody else  *)
(* can see its own (NumbersAreOwn), and therefore finds no email for it    *)
(* before it binds one itself; that is why no user that went astray ever   *)
(* has a verified email.                                                   *)
(***************************************************************************)
EXTENDS TelegramBot, FiniteSetTheorems, TLAPS

Phase(h) == handler[h].phase
User(h) == handler[h].user
Number(h) == handler[h].number

Busy == {h \in Handlers : ~Idle(h)}
Settled(h) == Phase(h) \notin {"idle", "new", "joining"}

\* Numbers of deliveries are new when they are given, and differ.
NumbersAreFresh ==
    /\ \A k \in Keys : owner[k] <= deliveries
    /\ \A u \in users : u.id > 0
    /\ \A h \in Busy :
          /\ Number(h) \in 1 .. deliveries
          /\ \A g \in Busy \ {h} : Number(g) # Number(h)

\* The user of a delivery is the one its person had, or one of its own.
UsersAreKnown ==
    \A h \in Busy :
        /\ Phase(h) = "new" => User(h) = 0
        /\ Phase(h) = "joining" => User(h) = Number(h)
        /\ Settled(h) => User(h) \in {owner[Person(h)], Number(h)} \ {0}

\* A user that the account of its person does not lead to belongs to one delivery.
NumbersAreOwn ==
    \A h \in Busy :
        /\ \A p \in Persons : owner[p] = Number(h) => p = Person(h)
        /\ owner[Person(h)] # Number(h) =>
              /\ \A e \in Emails : owner[e] = Number(h) => Phase(h) \in {"issuing", "reply"}
              /\ \A g \in Busy \ {h} : User(g) # Number(h)

\* What a delivery has found is still so.
Seen(h) ==
    /\ Phase(h) \in {"verified", "checking"} => User(h) = owner[Person(h)]
    /\ Phase(h) = "verified" => \E e \in verified : owner[e] = User(h)
    /\ Phase(h) = "checking" => handler[h].email \in Emails /\ owner[handler[h].email] = User(h)
    /\ Phase(h) \in {"email", "binding", "issuing"} => Text(h).kind = "email"

LookedUp == \A h \in Busy : Seen(h)

\* Where two messages of a person are handled at once, this is recorded; where
\* they are not, a delivery has the user that its person has.
Crossings ==
    \A h \in Busy :
        /\ \A g \in Busy \ {h} : Person(g) = Person(h) => Person(h) \in crossed
        /\ ~Settled(h) => owner[Person(h)] = 0 \/ Person(h) \in crossed
        /\ Settled(h) => User(h) = owner[Person(h)] \/ Person(h) \in crossed

\* The invariant about users and identities
Owned == NumbersAreFresh /\ UsersAreKnown /\ NumbersAreOwn /\ Crossings /\ StraysNeedOverlap

----------------------------------------------------------------------------
(* Threads                                                                 *)

\* An email's text has its email.
LEMMA EmailTexts ==
    ASSUME NEW t \in Texts, t.kind = "email"
    PROVE  t.email \in Emails
<1>1. t \in [kind : {"start", "predict"}] => t.kind # "email"
  OBVIOUS
<1>2. t \in [kind : {"code"}, code : Nat] => t.kind # "email"
  OBVIOUS
<1>3. t \in [kind : {"email"}, email : Emails]
  BY <1>1, <1>2 DEF Texts
<1>. QED
  BY <1>3

\* What the record of a thread at work holds.
LEMMA BusyTypes ==
    ASSUME TypeOK, NEW h \in Busy
    PROVE  /\ h \in Handlers /\ handler[h] \in Deliveries
           /\ Phase(h) \in Phases /\ Phase(h) # "idle"
           /\ User(h) \in Nat /\ Number(h) \in Nat
           /\ Person(h) \in Persons /\ Text(h) \in Texts /\ Person(h) \in Keys
           /\ handler[h].update \in Updates
<1>1. handler[h] \in Deliveries
  BY DEF TypeOK, Busy, Idle, IdleHandler
<1>2. handler[h].message \in Messages
  BY <1>1 DEF Deliveries
<1>3. Person(h) \in Persons /\ Text(h) \in Texts
  BY <1>2 DEF Messages, Person, Text
<1>. QED
  BY <1>1, <1>3 DEF Deliveries, Phases, Busy, Phase, User, Number, Keys

\* A delivery is no idle record.
LEMMA DeliveriesAreBusy ==
    ASSUME NEW d \in Deliveries
    PROVE  d.phase # "idle"
  BY DEF Deliveries, Phases

\* A step that changes the record of one thread.
Changes(h, d) == handler' = [handler EXCEPT ![h] = d]

\* What such a step does to the set of busy threads.
LEMMA BusyAfter ==
    ASSUME TypeOK, NEW h \in Handlers, NEW d, Changes(h, d)
    PROVE  /\ handler'[h] = d
           /\ \A g \in Handlers \ {h} : handler'[g] = handler[g]
           /\ d = IdleHandler => Busy' = Busy \ {h}
           /\ d \in Deliveries => Busy' = Busy \cup {h}
<1>1. handler'[h] = d /\ \A g \in Handlers \ {h} : handler'[g] = handler[g]
  BY DEF Changes, TypeOK
<1>2. d = IdleHandler => d.phase = "idle"
  BY DEF IdleHandler
<1>. QED
  BY <1>1, <1>2, DeliveriesAreBusy DEF Busy, Idle

\* Only a thread at work takes a step.
LEMMA StepsAreBusy ==
    ASSUME NEW h \in Handlers, Phase(h) # "idle"
    PROVE  h \in Busy
  BY DEF Busy, Phase, Idle

----------------------------------------------------------------------------
(* Types                                                                   *)

\* A record with another phase, and with another field of an answer
LEMMA RecordTypes ==
    ASSUME TypeOK, NEW h \in Busy, NEW p \in Phases
    PROVE  /\ [handler[h] EXCEPT !.phase = p] \in Deliveries
           /\ \A r \in Replies : [handler[h] EXCEPT !.phase = p, !.reply = r] \in Deliveries
           /\ \A e \in Emails : [handler[h] EXCEPT !.phase = p, !.email = e] \in Deliveries
           /\ \A u \in Nat : [handler[h] EXCEPT !.phase = p, !.user = u] \in Deliveries
           /\ [handler[h] EXCEPT !.given = TRUE] \in Deliveries
<1>1. handler[h] \in Deliveries
  BY BusyTypes
<1>. QED
  BY <1>1 DEF Deliveries

\* The record of a thread that goes on has its type.
LEMMA HandlerTypes ==
    ASSUME TypeOK, NEW h \in Busy, NEW d \in Deliveries \cup {IdleHandler}, Changes(h, d)
    PROVE  handler' \in [Handlers -> Deliveries \cup {IdleHandler}]
  BY DEF TypeOK, Changes, Busy

\* Goto and Reply change one record.
LEMMA GotoChanges ==
    ASSUME NEW h \in Handlers, NEW p, Goto(h, p)
    PROVE  Changes(h, [handler[h] EXCEPT !.phase = p])
  BY DEF Goto, Changes

LEMMA ReplyChanges ==
    ASSUME NEW h \in Handlers, NEW r, Reply(h, r)
    PROVE  Changes(h, [handler[h] EXCEPT !.phase = "reply", !.reply = r])
  BY DEF Reply, Changes

\* A message that is delivered again keeps its type.
LEMMA HeldTypes ==
    ASSUME TypeOK, NEW h \in Busy
    PROVE  /\ [held EXCEPT ![handler[h].update] = handler[h].message]
                \in [Updates -> Messages \cup {NoMessage}]
           /\ [failed EXCEPT ![handler[h].update] = @ + 1] \in [Updates -> Nat]
<1>1. handler[h].message \in Messages /\ handler[h].update \in Updates
  BY BusyTypes DEF Deliveries
<1>. QED
  BY <1>1 DEF TypeOK

LEMMA UndoTypes ==
    ASSUME TypeOK, NEW h \in Busy, Undo(h), failures' \in 0 .. MaxFailures
    PROVE  TypeOK'
<1>1. handler' \in [Handlers -> Deliveries \cup {IdleHandler}]
  BY DEF TypeOK, Undo
<1>2. held' \in [Updates -> Messages \cup {NoMessage}] /\ failed' \in [Updates -> Nat]
  BY HeldTypes DEF TypeOK, Undo
<1>. QED
  BY <1>1, <1>2 DEF TypeOK, Undo, identities, Keys, Updates, Messages, NoMessage

LEMMA InsertTypes ==
    ASSUME TypeOK, NEW h \in Busy, NEW k \in Keys, NEW p \in Phases, Insert(h, k, p)
    PROVE  TypeOK'
<1>1. handler' \in [Handlers -> Deliveries \cup {IdleHandler}]
  BY HandlerTypes, RecordTypes, GotoChanges, BusyTypes DEF Insert
<1>2. owner' \in [Keys -> Nat]
  BY BusyTypes DEF Insert, TypeOK, User
<1>3. users' \subseteq [id : Nat, name : Persons]
  <2>1. [id |-> handler[h].user, name |-> Person(h)] \in [id : Nat, name : Persons]
    BY BusyTypes DEF User
  <2>. QED
    BY <2>1 DEF TypeOK, Insert
<1>. QED
  BY <1>1, <1>2, <1>3 DEF TypeOK, Insert, telegram, Keys, Updates, Messages, NoMessage

----------------------------------------------------------------------------
(* The phases of a step                                                    *)

\* Every operation belongs to a thread at work.
LEMMA ActorsAreBusy ==
    ASSUME NEW h \in Handlers,
           \/ Step(h) \/ Fail(h) \/ GiveUp(h)
    PROVE  h \in Busy
  BY StepsAreBusy DEF Step, Fail, GiveUp, RegisterUser, JoinChat, FindVerified, FindPending,
     FindEmail, BindEmail, IssueCode, CheckCode, RunCommand, Answer, Phase, Idle, Busy

\* Each operation, by what it makes of its thread's record.  The operations in
\* between keep everything that Owned is about.
Between(h) ==
    /\ \E d \in Deliveries :
          /\ Changes(h, d)
          /\ d.message = handler[h].message /\ d.update = handler[h].update
          /\ d.number = Number(h) /\ d.user = User(h)
          /\ d.phase \in {"new", "joining"} => d.phase = Phase(h)
          /\ Settled(h) => d.phase \notin {"new", "joining"}
          /\ ~Settled(h) => d.phase = Phase(h)
          /\ Phase(h) \in {"issuing", "reply"} => d.phase \in {"issuing", "reply"}
          /\ Phase(h) = "reply" => d.phase = "reply"
    /\ UNCHANGED <<owner, users, deliveries, crossed, updates>>

\* A move to another phase is such an operation.
LEMMA MovesAreBetween ==
    ASSUME TypeOK, NEW h \in Busy, Settled(h), NEW p \in Phases, p \notin {"new", "joining"},
           Phase(h) \in {"issuing", "reply"} => p \in {"issuing", "reply"},
           Phase(h) = "reply" => p = "reply",
           UNCHANGED <<owner, users, deliveries, crossed, updates>>
    PROVE  /\ Changes(h, [handler[h] EXCEPT !.phase = p]) => Between(h)
           /\ \A r \in Replies : Changes(h, [handler[h] EXCEPT !.phase = p, !.reply = r]) => Between(h)
           /\ \A e \in Emails : Changes(h, [handler[h] EXCEPT !.phase = p, !.email = e]) => Between(h)
<1>1. handler[h] \in Deliveries
  BY BusyTypes
<1>2. ASSUME Changes(h, [handler[h] EXCEPT !.phase = p]) PROVE Between(h)
  <2>. DEFINE d == [handler[h] EXCEPT !.phase = p]
  <2>1. d \in Deliveries
    BY RecordTypes
  <2>2. /\ d.message = handler[h].message /\ d.update = handler[h].update
        /\ d.number = Number(h) /\ d.user = User(h) /\ d.phase = p
    BY <1>1 DEF Deliveries, Number, User
  <2>3. Changes(h, d)
    BY <1>2
  <2>. HIDE DEF d
  <2>. QED
    BY <2>1, <2>2, <2>3 DEF Between
<1>3. ASSUME NEW r \in Replies, Changes(h, [handler[h] EXCEPT !.phase = p, !.reply = r])
      PROVE  Between(h)
  <2>. DEFINE d == [handler[h] EXCEPT !.phase = p, !.reply = r]
  <2>1. d \in Deliveries
    BY RecordTypes
  <2>2. /\ d.message = handler[h].message /\ d.update = handler[h].update
        /\ d.number = Number(h) /\ d.user = User(h) /\ d.phase = p
    BY <1>1 DEF Deliveries, Number, User
  <2>3. Changes(h, d)
    BY <1>3
  <2>. HIDE DEF d
  <2>. QED
    BY <2>1, <2>2, <2>3 DEF Between
<1>4. ASSUME NEW e \in Emails, Changes(h, [handler[h] EXCEPT !.phase = p, !.email = e])
      PROVE  Between(h)
  <2>. DEFINE d == [handler[h] EXCEPT !.phase = p, !.email = e]
  <2>1. d \in Deliveries
    BY RecordTypes
  <2>2. /\ d.message = handler[h].message /\ d.update = handler[h].update
        /\ d.number = Number(h) /\ d.user = User(h) /\ d.phase = p
    BY <1>1 DEF Deliveries, Number, User
  <2>3. Changes(h, d)
    BY <1>4
  <2>. HIDE DEF d
  <2>. QED
    BY <2>1, <2>2, <2>3 DEF Between
<1>. QED
  BY <1>2, <1>3, <1>4

\* The operations that are so.
LEMMA OperationsBetween ==
    ASSUME TypeOK, NEW h \in Busy,
           \/ FindVerified(h) \/ FindPending(h) \/ FindEmail(h) \/ IssueCode(h)
           \/ \E late \in BOOLEAN : CheckCode(h, late)
           \/ RunCommand(h) \/ GiveUp(h)
    PROVE  Between(h)
<1>. h \in Handlers
  BY BusyTypes
<1>1. CASE FindVerified(h)
  <2>. DEFINE p == IF EmailsOf(handler[h].user) \cap verified # {} THEN "verified" ELSE "unverified"
  <2>1. Changes(h, [handler[h] EXCEPT !.phase = p])
    BY <1>1, GotoChanges DEF FindVerified
  <2>2. p \in Phases /\ p \notin {"new", "joining"}
    BY DEF Phases
  <2>. HIDE DEF p
  <2>. QED
    BY <1>1, <2>1, <2>2, MovesAreBetween DEF FindVerified, telegram, identities, Settled, Phase
<1>2. CASE FindPending(h)
  <2>1. \/ Changes(h, [handler[h] EXCEPT !.phase = "reply", !.reply = "text"])
        \/ Changes(h, [handler[h] EXCEPT !.phase = "email"])
        \/ \E e \in Emails : Changes(h, [handler[h] EXCEPT !.phase = "checking", !.email = e])
    <3>1. ASSUME NEW e \in Emails,
                 handler' = [handler EXCEPT ![h].phase = "checking", ![h].email = e]
          PROVE  Changes(h, [handler[h] EXCEPT !.phase = "checking", !.email = e])
      BY <3>1 DEF Changes
    <3>2. \/ Reply(h, "text") \/ Goto(h, "email")
          \/ \E e \in Emails :
                handler' = [handler EXCEPT ![h].phase = "checking", ![h].email = e]
      BY <1>2, Zenon DEF FindPending, EmailsOf
    <3>. QED
      BY <3>1, <3>2, GotoChanges, ReplyChanges
  <2>2. {"reply", "email", "checking"} \subseteq Phases /\ "text" \in Replies
    BY DEF Phases, Replies
  <2>3. Settled(h) /\ Phase(h) \notin {"issuing", "reply"}
    BY <1>2 DEF FindPending, Settled, Phase
  <2>. QED
    BY <1>2, <2>1, <2>2, <2>3, MovesAreBetween DEF FindPending, telegram, identities
<1>3. CASE FindEmail(h)
  <2>1. \/ \E p \in {"binding", "issuing"} : Changes(h, [handler[h] EXCEPT !.phase = p])
        \/ Changes(h, [handler[h] EXCEPT !.phase = "reply", !.reply = "taken"])
    BY <1>3, GotoChanges, ReplyChanges DEF FindEmail
  <2>2. {"reply", "binding", "issuing"} \subseteq Phases /\ "taken" \in Replies
    BY DEF Phases, Replies
  <2>3. Settled(h) /\ Phase(h) \notin {"issuing", "reply"}
    BY <1>3 DEF FindEmail, Settled, Phase
  <2>. QED
    BY <1>3, <2>1, <2>2, <2>3, MovesAreBetween DEF FindEmail, telegram, identities
<1>4. ASSUME \E r \in Replies : Reply(h, r), Settled(h),
             UNCHANGED <<owner, users, deliveries, crossed, updates>>
      PROVE  Between(h)
  <2>1. "reply" \in Phases
    BY DEF Phases
  <2>. QED
    BY <1>4, <2>1, ReplyChanges, MovesAreBetween
<1>5. CASE IssueCode(h) \/ RunCommand(h) \/ \E late \in BOOLEAN : CheckCode(h, late)
  <2>1. \E r \in Replies : Reply(h, r)
    BY <1>5 DEF IssueCode, RunCommand, CheckCode, Replies
  <2>2. Settled(h) /\ UNCHANGED <<owner, users, deliveries, crossed, updates>>
    BY <1>5 DEF IssueCode, RunCommand, CheckCode, Settled, Phase, telegram, identities
  <2>. QED
    BY <1>4, <2>1, <2>2
<1>6. CASE GiveUp(h)
  <2>. DEFINE d == [handler[h] EXCEPT !.given = TRUE]
  <2>1. d \in Deliveries
    BY RecordTypes, BusyTypes
  <2>2. /\ d.message = handler[h].message /\ d.update = handler[h].update
        /\ d.number = Number(h) /\ d.user = User(h) /\ d.phase = Phase(h)
    <3>1. handler[h] \in Deliveries
      BY BusyTypes
    <3>. QED
      BY <3>1 DEF Deliveries, Number, User, Phase
  <2>3. Changes(h, d)
    BY <1>6 DEF GiveUp, Changes
  <2>4. UNCHANGED <<owner, users, deliveries, crossed, updates>>
    BY <1>6 DEF GiveUp, identities
  <2>5. Settled(h) => Phase(h) \notin {"new", "joining"}
    BY DEF Settled
  <2>. HIDE DEF d
  <2>. QED
    BY <2>1, <2>2, <2>3, <2>4, <2>5 DEF Between
<1>. QED
  BY <1>1, <1>2, <1>3, <1>5, <1>6

----------------------------------------------------------------------------
(* Users and identities                                                    *)

\* A step of one thread that keeps its message, its number and its user
LEMMA BetweenKeepsOwned ==
    ASSUME TypeOK, Owned, NEW h \in Busy, Between(h)
    PROVE  Owned'
<1>. h \in Handlers
  BY BusyTypes
<1>1. PICK d \in Deliveries :
          /\ Changes(h, d)
          /\ d.message = handler[h].message /\ d.update = handler[h].update
          /\ d.number = Number(h) /\ d.user = User(h)
          /\ d.phase \in {"new", "joining"} => d.phase = Phase(h)
          /\ Settled(h) => d.phase \notin {"new", "joining"}
          /\ ~Settled(h) => d.phase = Phase(h)
          /\ Phase(h) \in {"issuing", "reply"} => d.phase \in {"issuing", "reply"}
  BY DEF Between
<1>2. Busy' = Busy /\ handler'[h] = d /\ \A g \in Handlers \ {h} : handler'[g] = handler[g]
  BY <1>1, BusyAfter
<1>3. UNCHANGED <<owner, users, deliveries, crossed>>
  BY DEF Between
<1>4. \A g \in Busy :
          /\ g \in Handlers
          /\ Person(g)' = Person(g) /\ Number(g)' = Number(g) /\ User(g)' = User(g)
          /\ Phase(g)' \in {"new", "joining"} => Phase(g)' = Phase(g)
          /\ Settled(g)' <=> Settled(g)
          /\ Phase(g) \in {"issuing", "reply"} => Phase(g)' \in {"issuing", "reply"}
  <2>. TAKE g \in Busy
  <2>1. g \in Handlers
    BY BusyTypes
  <2>2. CASE g = h
    <3>1. d.phase # "idle" /\ Phase(h) # "idle"
      BY DeliveriesAreBusy, BusyTypes
    <3>. QED
      BY <1>1, <1>2, <2>1, <2>2, <3>1 DEF Person, Number, User, Phase, Settled
  <2>3. CASE g # h
    BY <1>2, <2>1, <2>3 DEF Person, Number, User, Phase, Settled
  <2>. QED
    BY <2>2, <2>3
<1>5. NumbersAreFresh' /\ StraysNeedOverlap'
  BY <1>2, <1>3, <1>4 DEF Owned, NumbersAreFresh, StraysNeedOverlap, Keys
<1>6. UsersAreKnown'
  BY <1>2, <1>3, <1>4 DEF Owned, UsersAreKnown
<1>7. NumbersAreOwn'
  BY <1>2, <1>3, <1>4 DEF Owned, NumbersAreOwn
<1>8. Crossings'
  BY <1>2, <1>3, <1>4 DEF Owned, Crossings
<1>. QED
  BY <1>5, <1>6, <1>7, <1>8 DEF Owned

\* A thread that is done
LEMMA ReleaseKeepsOwned ==
    ASSUME TypeOK, Owned, NEW h \in Busy, Changes(h, IdleHandler),
           UNCHANGED <<owner, users, deliveries, crossed>>
    PROVE  Owned'
<1>. h \in Handlers
  BY BusyTypes
<1>1. Busy' = Busy \ {h} /\ \A g \in Handlers \ {h} : handler'[g] = handler[g]
  BY BusyAfter
<1>2. \A g \in Busy \ {h} :
          /\ Person(g)' = Person(g) /\ Number(g)' = Number(g) /\ User(g)' = User(g)
          /\ Phase(g)' = Phase(g) /\ (Settled(g)' <=> Settled(g))
  BY <1>1 DEF Busy, Person, Number, User, Phase, Settled
<1>3. NumbersAreFresh' /\ StraysNeedOverlap'
  BY <1>1, <1>2 DEF Owned, NumbersAreFresh, StraysNeedOverlap, Keys
<1>4. UsersAreKnown'
  BY <1>1, <1>2 DEF Owned, UsersAreKnown
<1>5. NumbersAreOwn'
  BY <1>1, <1>2 DEF Owned, NumbersAreOwn
<1>6. Crossings'
  BY <1>1, <1>2 DEF Owned, Crossings
<1>. QED
  BY <1>3, <1>4, <1>5, <1>6 DEF Owned

\* The other threads in a step of one
LEMMA OthersRest ==
    ASSUME TypeOK, NEW h \in Handlers, NEW d \in Deliveries, Changes(h, d)
    PROVE  /\ Busy' = Busy \cup {h}
           /\ Person(h)' = d.message.from /\ Number(h)' = d.number
           /\ User(h)' = d.user /\ Phase(h)' = d.phase
           /\ \A g \in Busy \ {h} :
                 /\ Person(g)' = Person(g) /\ Number(g)' = Number(g) /\ User(g)' = User(g)
                 /\ Phase(g)' = Phase(g) /\ (Settled(g)' <=> Settled(g))
<1>1. /\ Busy' = Busy \cup {h} /\ handler'[h] = d
      /\ \A g \in Handlers \ {h} : handler'[g] = handler[g]
  BY BusyAfter
<1>. QED
  BY <1>1 DEF Busy, Person, Number, User, Phase, Settled

\* What a delivery makes of its thread
Found(h, u) ==
    [phase  |-> IF owner[held[u].from] = 0 THEN "new" ELSE "known",
     update |-> u, message |-> held[u], number |-> deliveries + 1,
     user   |-> owner[held[u].from], email |-> NoEmail, reply |-> "none", given |-> FALSE]

LEMMA FoundTypes ==
    ASSUME TypeOK, NEW h \in Handlers, NEW u \in Updates, Deliver(h, u)
    PROVE  /\ Found(h, u) \in Deliveries /\ Changes(h, Found(h, u))
           /\ held[u] \in Messages /\ held[u].from \in Persons /\ held[u].from \in Keys
<1>1. held[u] \in Messages
  BY DEF TypeOK, Deliver, Waiting
<1>2. held[u].from \in Persons /\ held[u].from \in Keys
  BY <1>1 DEF Messages, Keys
<1>3. owner[held[u].from] \in Nat /\ deliveries + 1 \in Nat
  BY <1>2 DEF TypeOK
<1>4. {"new", "known"} \subseteq Phases /\ "none" \in Replies
  BY DEF Phases, Replies
<1>5. Found(h, u) \in Deliveries
  BY <1>1, <1>3, <1>4 DEF Found, Deliveries
<1>. QED
  BY <1>1, <1>2, <1>5 DEF Deliver, Changes, Found

LEMMA DeliverKeepsOwned ==
    ASSUME TypeOK, Owned, NEW h \in Handlers, NEW u \in Updates, Deliver(h, u)
    PROVE  Owned'
<1>. DEFINE p == held[u].from
            d == Found(h, u)
<1>1. p \in Persons /\ p \in Keys /\ owner[p] \in Nat /\ deliveries \in Nat
  BY FoundTypes DEF TypeOK
<1>2. /\ d.message.from = p /\ d.number = deliveries + 1 /\ d.user = owner[p]
      /\ d.phase = IF owner[p] = 0 THEN "new" ELSE "known"
  BY DEF Found
<1>3. d \in Deliveries /\ Changes(h, d)
  BY FoundTypes
<1>. HIDE DEF d, p
<1>4. /\ Busy' = Busy \cup {h} /\ h \notin Busy
      /\ Person(h)' = p /\ Number(h)' = deliveries + 1 /\ User(h)' = owner[p]
      /\ Phase(h)' = IF owner[p] = 0 THEN "new" ELSE "known"
  BY <1>2, <1>3, OthersRest DEF Deliver, Busy
<1>5. \A g \in Busy :
         /\ Person(g)' = Person(g) /\ Number(g)' = Number(g) /\ User(g)' = User(g)
         /\ Phase(g)' = Phase(g) /\ (Settled(g)' <=> Settled(g))
  BY <1>3, <1>4, OthersRest
<1>6. \A g \in Busy :
         /\ Number(g) \in 1 .. deliveries /\ User(g) \in 0 .. deliveries
         /\ Person(g) \in Persons /\ Person(g) \in Keys
  <2>. TAKE g \in Busy
  <2>1. Number(g) \in 1 .. deliveries /\ Person(g) \in Persons /\ Person(g) \in Keys
    BY BusyTypes DEF Owned, NumbersAreFresh
  <2>2. owner[Person(g)] \in 0 .. deliveries
    BY <2>1 DEF TypeOK, Owned, NumbersAreFresh
  <2>3. User(g) \in {0, Number(g), owner[Person(g)]}
    BY DEF Owned, UsersAreKnown, Settled, Busy, Idle, Phase
  <2>. QED
    BY <1>1, <2>1, <2>2, <2>3
<1>7. /\ UNCHANGED <<owner, users>> /\ deliveries' = deliveries + 1
      /\ crossed \subseteq crossed'
      /\ \A g \in Busy : Person(g) = p => p \in crossed'
  BY DEF Deliver, identities, Busy, p
<1>8. \A k \in Keys : owner[k] \in 0 .. deliveries
  BY <1>1 DEF Owned, NumbersAreFresh, TypeOK
<1>9. NumbersAreFresh'
  <2>1. \A g \in Busy' : Number(g)' \in 1 .. deliveries'
    BY <1>1, <1>4, <1>5, <1>6, <1>7
  <2>2. ASSUME NEW g \in Busy', NEW f \in Busy' \ {g}
        PROVE  Number(f)' # Number(g)'
    BY <1>1, <1>4, <1>5, <1>6, <2>2 DEF Owned, NumbersAreFresh
  <2>3. \A k \in Keys : owner'[k] <= deliveries'
    BY <1>1, <1>7, <1>8
  <2>. QED
    BY <1>7, <2>1, <2>2, <2>3 DEF Owned, NumbersAreFresh, Keys
<1>10. UsersAreKnown'
  BY <1>1, <1>4, <1>5, <1>7 DEF Owned, UsersAreKnown, Settled
<1>11. NumbersAreOwn'
  <2>1. ASSUME NEW g \in Busy
        PROVE  /\ \A q \in Persons : owner[q] = Number(g) => q = Person(g)
               /\ owner[Person(g)] # Number(g) =>
                     /\ \A e \in Emails : owner[e] = Number(g) => Phase(g) \in {"issuing", "reply"}
                     /\ \A f \in Busy' \ {g} : User(f)' # Number(g)
    <3>1. owner[p] = Number(g) => p = Person(g)
      BY <1>1 DEF Owned, NumbersAreOwn
    <3>. QED
      BY <1>4, <1>5, <3>1 DEF Owned, NumbersAreOwn
  <2>2. /\ \A k \in Keys : owner[k] # deliveries + 1
        /\ \A f \in Busy : User(f)' # deliveries + 1
    BY <1>1, <1>5, <1>6, <1>8
  <2>. QED
    BY <1>4, <1>5, <1>7, <2>1, <2>2 DEF NumbersAreOwn, Keys
<1>12. Crossings'
  <2>1. ASSUME NEW g \in Busy
        PROVE  /\ \A f \in Busy' \ {g} : Person(f)' = Person(g) => Person(g) \in crossed'
               /\ ~Settled(g) => owner[Person(g)] = 0 \/ Person(g) \in crossed'
               /\ Settled(g) => User(g) = owner[Person(g)] \/ Person(g) \in crossed'
    BY <1>4, <1>5, <1>7 DEF Owned, Crossings
  <2>2. /\ \A f \in Busy : Person(f) = p => p \in crossed'
        /\ ~Settled(h)' => owner[p] = 0
        /\ Settled(h)' => User(h)' = owner[p]
    BY <1>4, <1>7 DEF Settled
  <2>. QED
    BY <1>4, <1>5, <1>7, <2>1, <2>2 DEF Crossings
<1>13. StraysNeedOverlap'
  BY <1>7 DEF Owned, StraysNeedOverlap
<1>. QED
  BY <1>9, <1>10, <1>11, <1>12, <1>13 DEF Owned

\* A delivery goes on with a user of its own.
LEMMA RegisterKeepsOwned ==
    ASSUME TypeOK, Owned, NEW h \in Busy, RegisterUser(h)
    PROVE  Owned'
<1>. DEFINE phase == IF owner[Person(h)] # 0 THEN "known" ELSE "joining"
            d == [handler[h] EXCEPT !.user = Number(h), !.phase = phase]
<1>1. h \in Handlers /\ handler[h] \in Deliveries /\ Number(h) \in Nat /\ phase \in Phases
  BY BusyTypes DEF Phases
<1>2. /\ d \in Deliveries /\ d.message = handler[h].message /\ d.number = Number(h)
      /\ d.user = Number(h) /\ d.phase = phase
  BY <1>1 DEF Deliveries, Number
<1>3. Changes(h, d)
  <2>1. handler' = [handler EXCEPT ![h].user = Number(h), ![h].phase = phase]
    BY DEF RegisterUser, Number
  <2>. HIDE DEF phase
  <2>. QED
    BY <1>1, <2>1 DEF Changes
<1>. HIDE DEF d
<1>4. /\ Busy' = Busy /\ Person(h)' = Person(h) /\ Number(h)' = Number(h)
      /\ User(h)' = Number(h) /\ Phase(h)' = phase
  BY <1>1, <1>2, <1>3, OthersRest DEF Person
<1>5. \A g \in Busy \ {h} :
         /\ Person(g)' = Person(g) /\ Number(g)' = Number(g) /\ User(g)' = User(g)
         /\ Phase(g)' = Phase(g) /\ (Settled(g)' <=> Settled(g))
  BY <1>1, <1>2, <1>3, OthersRest
<1>6. UNCHANGED <<owner, users, deliveries, crossed>> /\ Phase(h) = "new"
  BY DEF RegisterUser, telegram, identities, Phase
<1>7. Number(h) \in 1 .. deliveries /\ \A g \in Busy \ {h} : Number(g) # Number(h)
  BY DEF Owned, NumbersAreFresh
<1>8. NumbersAreFresh' /\ StraysNeedOverlap'
  BY <1>4, <1>5, <1>6 DEF Owned, NumbersAreFresh, StraysNeedOverlap, Keys
<1>9. UsersAreKnown'
  BY <1>4, <1>5, <1>6, <1>7 DEF Owned, UsersAreKnown, Settled
<1>10. NumbersAreOwn'
  <2>1. ASSUME NEW g \in Busy
        PROVE  /\ \A q \in Persons : owner[q] = Number(g) => q = Person(g)
               /\ owner[Person(g)] # Number(g) =>
                     /\ \A e \in Emails : owner[e] = Number(g) => Phase(g)' \in {"issuing", "reply"}
                     /\ \A f \in Busy \ {g} : User(f)' # Number(g)
    BY <1>4, <1>5, <1>6, <1>7 DEF Owned, NumbersAreOwn
  <2>. QED
    BY <1>4, <1>5, <1>6, <2>1 DEF NumbersAreOwn
<1>11. Crossings'
  <2>1. ~Settled(h) /\ (Settled(h)' => owner[Person(h)] # 0)
    BY <1>4, <1>6 DEF Settled
  <2>. QED
    BY <1>4, <1>5, <1>6, <2>1 DEF Owned, Crossings
<1>. QED
  BY <1>8, <1>9, <1>10, <1>11 DEF Owned

\* What an INSERT does
LEMMA InsertFacts ==
    ASSUME TypeOK, NEW h \in Busy, NEW key \in Keys, NEW p \in Phases, Insert(h, key, p)
    PROVE  /\ Busy' = Busy /\ Person(h)' = Person(h) /\ Number(h)' = Number(h)
           /\ User(h)' = User(h) /\ Phase(h)' = p /\ Text(h)' = Text(h)
           /\ \A g \in Busy \ {h} :
                 /\ Person(g)' = Person(g) /\ Number(g)' = Number(g) /\ User(g)' = User(g)
                 /\ Phase(g)' = Phase(g) /\ (Settled(g)' <=> Settled(g))
           /\ owner[key] = 0 /\ owner'[key] = User(h)
           /\ \A k \in Keys \ {key} : owner'[k] = owner[k]
           /\ users' = users \cup {[id |-> User(h), name |-> Person(h)]}
           /\ UNCHANGED <<deliveries, crossed, verified>>
<1>. DEFINE d == [handler[h] EXCEPT !.phase = p]
<1>1. h \in Handlers /\ handler[h] \in Deliveries
  BY BusyTypes
<1>2. /\ d \in Deliveries /\ d.message = handler[h].message /\ d.number = Number(h)
      /\ d.user = User(h) /\ d.phase = p
  BY <1>1, RecordTypes DEF Deliveries, Number, User
<1>3. Changes(h, d)
  BY <1>1, GotoChanges DEF Insert
<1>4. handler'[h] = d
  BY <1>1, <1>2, <1>3, BusyAfter
<1>5. Text(h)' = Text(h)
  BY <1>2, <1>4 DEF Text
<1>. HIDE DEF d
<1>6. /\ Busy' = Busy /\ Person(h)' = Person(h) /\ Number(h)' = Number(h)
      /\ User(h)' = User(h) /\ Phase(h)' = p
      /\ \A g \in Busy \ {h} :
            /\ Person(g)' = Person(g) /\ Number(g)' = Number(g) /\ User(g)' = User(g)
            /\ Phase(g)' = Phase(g) /\ (Settled(g)' <=> Settled(g))
  BY <1>1, <1>2, <1>3, OthersRest DEF Person
<1>7. /\ owner[key] = 0 /\ owner'[key] = User(h)
      /\ \A k \in Keys \ {key} : owner'[k] = owner[k]
      /\ users' = users \cup {[id |-> User(h), name |-> Person(h)]}
      /\ UNCHANGED <<deliveries, crossed, verified>>
  BY DEF Insert, TypeOK, User, telegram
<1>. QED
  BY <1>5, <1>6, <1>7

\* The identity of a Telegram account
LEMMA JoinKeepsOwned ==
    ASSUME BotAssumption, TypeOK, Owned, NEW h \in Busy,
           handler[h].phase = "joining", Insert(h, Person(h), "known")
    PROVE  Owned'
<1>. DEFINE p == Person(h)
<1>1. p \in Keys /\ p \in Persons /\ "known" \in Phases
  BY BusyTypes DEF Phases
<1>2. User(h) = Number(h) /\ Number(h) \in 1 .. deliveries /\ ~Settled(h)
  BY DEF Owned, UsersAreKnown, NumbersAreFresh, Phase, Settled
<1>3. /\ Busy' = Busy /\ Person(h)' = p /\ Number(h)' = Number(h)
      /\ User(h)' = Number(h) /\ Phase(h)' = "known"
      /\ \A g \in Busy \ {h} :
            /\ Person(g)' = Person(g) /\ Number(g)' = Number(g) /\ User(g)' = User(g)
            /\ Phase(g)' = Phase(g) /\ (Settled(g)' <=> Settled(g))
      /\ owner[p] = 0 /\ owner'[p] = Number(h)
      /\ \A k \in Keys \ {p} : owner'[k] = owner[k]
      /\ users' = users \cup {[id |-> Number(h), name |-> p]}
      /\ UNCHANGED <<deliveries, crossed>>
  BY <1>1, <1>2, InsertFacts
<1>4. \A e \in Emails : e \in Keys /\ owner'[e] = owner[e]
  BY <1>1, <1>3 DEF BotAssumption, Keys
<1>5. \A g \in Busy : Person(g) \in Keys /\ Person(g) \in Persons /\ Number(g) \in 1 .. deliveries
  BY BusyTypes DEF Owned, NumbersAreFresh
<1>6. \A g \in Busy \ {h} : Number(g) # Number(h)
  BY DEF Owned, NumbersAreFresh
<1>. HIDE DEF p
<1>7. NumbersAreFresh'
  <2>1. \A k \in Keys : owner'[k] <= deliveries
    BY <1>2, <1>3 DEF Owned, NumbersAreFresh
  <2>2. \A g \in Busy : Number(g)' = Number(g)
    BY <1>3
  <2>3. \A u \in users' : u.id > 0
    BY <1>2, <1>3 DEF Owned, NumbersAreFresh
  <2>. QED
    BY <1>3, <2>1, <2>2, <2>3 DEF Owned, NumbersAreFresh, Keys
<1>8. UsersAreKnown'
  <2>1. \A g \in Busy \ {h} : Settled(g) => User(g) \in {owner'[Person(g)], Number(g)} \ {0}
    BY <1>3, <1>5 DEF Owned, UsersAreKnown
  <2>. QED
    BY <1>2, <1>3, <2>1 DEF Owned, UsersAreKnown, Settled
<1>9. NumbersAreOwn'
  <2>1. ASSUME NEW g \in Busy, NEW q \in Persons, owner'[q] = Number(g)
        PROVE  q = Person(g)
    <3>1. CASE q = p
      BY <1>3, <1>6, <2>1, <3>1 DEF p
    <3>2. CASE q # p
      BY <1>3, <2>1, <3>2 DEF Owned, NumbersAreOwn, Keys
    <3>. QED
      BY <3>1, <3>2
  <2>2. ASSUME NEW g \in Busy, owner'[Person(g)] # Number(g)
        PROVE  /\ g # h /\ owner[Person(g)] # Number(g)
    BY <1>3, <1>5, <1>6, <2>2 DEF p
  <2>3. ASSUME NEW g \in Busy, owner'[Person(g)] # Number(g)
        PROVE  /\ \A e \in Emails : owner'[e] = Number(g) => Phase(g) \in {"issuing", "reply"}
               /\ \A f \in Busy \ {g} : User(f) # Number(g)
    BY <1>4, <2>2, <2>3 DEF Owned, NumbersAreOwn
  <2>4. \A f \in Busy : User(f)' = User(f) /\ Number(f)' = Number(f) /\ Person(f)' = Person(f)
    BY <1>2, <1>3 DEF p
  <2>5. \A g \in Busy \ {h} : Phase(g)' = Phase(g)
    BY <1>3
  <2>. QED
    BY <1>3, <2>1, <2>2, <2>3, <2>4, <2>5 DEF NumbersAreOwn
<1>10. Crossings'
  <2>1. \A g \in Busy \ {h} : Person(g) = p => p \in crossed
    BY DEF Owned, Crossings, p
  <2>2. \A g \in Busy \ {h} : Person(g) # p => owner'[Person(g)] = owner[Person(g)]
    BY <1>3, <1>5
  <2>. QED
    BY <1>3, <2>1, <2>2 DEF Owned, Crossings, Settled, p
<1>11. StraysNeedOverlap'
  <2>1. ASSUME NEW u \in users
        PROVE  owner'[u.name] = u.id \/ u.name \in crossed
    <3>1. u.id > 0 /\ u.name \in Keys /\ (owner[u.name] = u.id \/ u.name \in crossed)
      BY DEF Owned, NumbersAreFresh, StraysNeedOverlap, TypeOK, Keys
    <3>. QED
      BY <1>3, <3>1
  <2>. QED
    BY <1>3, <2>1 DEF StraysNeedOverlap
<1>. QED
  BY <1>7, <1>8, <1>9, <1>10, <1>11 DEF Owned

\* The identity of an email
LEMMA BindKeepsOwned ==
    ASSUME BotAssumption, TypeOK, Owned, NEW h \in Busy, NEW e \in Emails,
           handler[h].phase = "binding", Insert(h, e, "issuing")
    PROVE  Owned'
<1>1. e \in Keys /\ e \notin Persons /\ "issuing" \in Phases
  BY DEF Phases, Keys, BotAssumption
<1>2. /\ Busy' = Busy /\ Person(h)' = Person(h) /\ Number(h)' = Number(h)
      /\ User(h)' = User(h) /\ Phase(h)' = "issuing"
      /\ \A g \in Busy \ {h} :
            /\ Person(g)' = Person(g) /\ Number(g)' = Number(g) /\ User(g)' = User(g)
            /\ Phase(g)' = Phase(g) /\ (Settled(g)' <=> Settled(g))
      /\ owner[e] = 0 /\ owner'[e] = User(h)
      /\ \A k \in Keys \ {e} : owner'[k] = owner[k]
      /\ users' = users \cup {[id |-> User(h), name |-> Person(h)]}
      /\ UNCHANGED <<deliveries, crossed>>
  BY <1>1, InsertFacts
<1>3. \A q \in Persons : q \in Keys /\ owner'[q] = owner[q]
  BY <1>1, <1>2 DEF Keys
<1>4. \A g \in Busy : Person(g) \in Persons /\ Number(g) \in 1 .. deliveries
  BY BusyTypes DEF Owned, NumbersAreFresh
<1>5. Settled(h) /\ Settled(h)' /\ Phase(h) = "binding"
  BY <1>2 DEF Settled, Phase
<1>6. User(h) \in 1 .. deliveries
  <2>1. User(h) \in {owner[Person(h)], Number(h)} \ {0}
    BY <1>5 DEF Owned, UsersAreKnown
  <2>2. owner[Person(h)] \in 0 .. deliveries
    BY <1>3, <1>4 DEF Owned, NumbersAreFresh, TypeOK
  <2>. QED
    BY <1>4, <2>1, <2>2 DEF TypeOK
<1>7. \A g \in Busy :
         /\ Person(g)' = Person(g) /\ Number(g)' = Number(g) /\ User(g)' = User(g)
         /\ (Settled(g)' <=> Settled(g)) /\ (Phase(g)' = Phase(g) \/ g = h)
         /\ owner'[Person(g)] = owner[Person(g)]
  BY <1>2, <1>3, <1>4, <1>5
<1>8. NumbersAreFresh'
  <2>1. \A k \in Keys : owner'[k] <= deliveries
    BY <1>2, <1>6 DEF Owned, NumbersAreFresh
  <2>2. \A u \in users' : u.id > 0
    BY <1>2, <1>6 DEF Owned, NumbersAreFresh
  <2>. QED
    BY <1>2, <1>7, <2>1, <2>2 DEF Owned, NumbersAreFresh, Keys
<1>9. UsersAreKnown'
  BY <1>2, <1>5, <1>7 DEF Owned, UsersAreKnown
<1>10. NumbersAreOwn'
  <2>1. ASSUME NEW g \in Busy, owner[Person(g)] # Number(g)
        PROVE  /\ \A x \in Emails : owner'[x] = Number(g) => Phase(g)' \in {"issuing", "reply"}
               /\ \A f \in Busy \ {g} : User(f) # Number(g)
    <3>1. /\ \A x \in Emails : owner[x] = Number(g) => Phase(g) \in {"issuing", "reply"}
          /\ \A f \in Busy \ {g} : User(f) # Number(g)
      BY <2>1 DEF Owned, NumbersAreOwn
    <3>2. \A x \in Emails : x \in Keys
      BY DEF Keys
    <3>. QED
      BY <1>2, <3>1, <3>2
  <2>. QED
    BY <1>2, <1>3, <1>7, <2>1 DEF Owned, NumbersAreOwn
<1>11. Crossings'
  BY <1>2, <1>7 DEF Owned, Crossings
<1>12. StraysNeedOverlap'
  <2>1. User(h) = owner[Person(h)] \/ Person(h) \in crossed
    BY <1>5 DEF Owned, Crossings
  <2>2. \A u \in users : owner'[u.name] = owner[u.name]
    BY <1>3 DEF TypeOK
  <2>. QED
    BY <1>2, <1>3, <1>4, <2>1, <2>2 DEF Owned, StraysNeedOverlap
<1>. QED
  BY <1>8, <1>9, <1>10, <1>11, <1>12 DEF Owned

----------------------------------------------------------------------------
(* The types                                                               *)

LEMMA InitTypes ==
    ASSUME BotAssumption, Init
    PROVE  TypeOK
<1>1. users \subseteq [id : Nat, name : Persons]
  BY DEF Init, BotAssumption
<1>2. owner \in [Keys -> Nat] /\ left \in [Emails -> 0 .. MaxAttempts]
  BY DEF Init, BotAssumption
<1>3. code \in [Emails -> Nat]
  BY <1>2 DEF Init, Keys
<1>4. held \in [Updates -> Messages \cup {NoMessage}]
  BY DEF Init
<1>5. handler \in [Handlers -> Deliveries \cup {IdleHandler}]
  BY DEF Init
<1>. QED
  BY <1>1, <1>2, <1>3, <1>4, <1>5 DEF Init, TypeOK, BotAssumption

\* A person writes one of the texts.
LEMMA WriteTypes ==
    ASSUME BotAssumption, TypeOK, NEW p \in Persons, NEW t \in Texts, Write(p, t)
    PROVE  TypeOK'
<1>1. [from |-> p, text |-> t] \in Messages
  BY DEF Messages
<1>2. held' \in [Updates -> Messages \cup {NoMessage}]
  BY <1>1 DEF Write, TypeOK
<1>3. updates' \in 0 .. MaxUpdates
  BY DEF Write, TypeOK, BotAssumption
<1>. QED
  BY <1>2, <1>3 DEF Write, TypeOK, identities, Keys, Updates, Messages, NoMessage

LEMMA TextsAreTexts ==
    /\ \A kind \in {"start", "predict"} : [kind |-> kind] \in Texts
    /\ \A e \in Emails : [kind |-> "email", email |-> e] \in Texts
    /\ \A c \in Nat : [kind |-> "code", code |-> c] \in Texts
  BY DEF Texts

LEMMA SomeText ==
    ASSUME NEW p \in Persons,
           \/ \E kind \in {"start", "predict"} : Write(p, [kind |-> kind])
           \/ \E e \in Emails : Write(p, [kind |-> "email", email |-> e])
           \/ \E c \in 1 .. deliveries : Write(p, [kind |-> "code", code |-> c])
    PROVE  \E t \in Texts : Write(p, t)
<1>1. \A c \in 1 .. deliveries : c \in Nat
  OBVIOUS
<1>. HIDE DEF Write
<1>. QED
  BY <1>1, TextsAreTexts, Zenon

LEMMA DeliverTypes ==
    ASSUME TypeOK, NEW h \in Handlers, NEW u \in Updates, Deliver(h, u)
    PROVE  TypeOK'
<1>1. Found(h, u) \in Deliveries /\ Changes(h, Found(h, u)) /\ held[u].from \in Persons
  BY FoundTypes
<1>2. handler' \in [Handlers -> Deliveries \cup {IdleHandler}]
  BY <1>1 DEF Changes, TypeOK
<1>3. held' \in [Updates -> Messages \cup {NoMessage}] /\ deliveries' \in Nat
  BY DEF Deliver, TypeOK
<1>4. crossed' \subseteq Persons
  BY <1>1 DEF Deliver, TypeOK
<1>. QED
  BY <1>2, <1>3, <1>4 DEF Deliver, TypeOK, identities, Keys, Updates, Messages, NoMessage

\* The record of an operation in between
LEMMA BetweenTypes ==
    ASSUME TypeOK, NEW h \in Busy, Between(h)
    PROVE  handler' \in [Handlers -> Deliveries \cup {IdleHandler}]
  BY HandlerTypes DEF Between

LEMMA CodeTypes ==
    ASSUME BotAssumption, TypeOK, NEW h \in Busy, NEW e \in Emails
    PROVE  /\ [code EXCEPT ![e] = 0] \in [Emails -> Nat]
           /\ [left EXCEPT ![e] = 0] \in [Emails -> 0 .. MaxAttempts]
           /\ [left EXCEPT ![e] = IF @ <= 1 THEN 0 ELSE @ - 1] \in [Emails -> 0 .. MaxAttempts]
           /\ [left EXCEPT ![e] = MaxAttempts] \in [Emails -> 0 .. MaxAttempts]
           /\ [code EXCEPT ![e] = handler[h].number] \in [Emails -> Nat]
<1>1. handler[h].number \in Nat
  BY BusyTypes DEF Number
<1>2. left[e] \in 0 .. MaxAttempts /\ MaxAttempts \in Nat
  BY DEF TypeOK, BotAssumption
<1>3. (IF left[e] <= 1 THEN 0 ELSE left[e] - 1) \in 0 .. MaxAttempts
  BY <1>2
<1>. QED
  BY <1>1, <1>2, <1>3 DEF TypeOK

\* The code and its attempts: of the text's email, or of the one that is checked
LEMMA IssueTypes ==
    ASSUME BotAssumption, TypeOK, LookedUp, NEW h \in Busy, IssueCode(h)
    PROVE  TypeOK'
<1>1. Text(h).email \in Emails
  BY EmailTexts, BusyTypes DEF IssueCode, LookedUp, Seen, Phase
<1>2. handler' \in [Handlers -> Deliveries \cup {IdleHandler}]
  BY OperationsBetween, BetweenTypes
<1>3. code' \in [Emails -> Nat] /\ left' \in [Emails -> 0 .. MaxAttempts]
  BY <1>1, CodeTypes DEF IssueCode
<1>. QED
  BY <1>2, <1>3 DEF IssueCode, TypeOK, telegram, Keys, Updates, Messages, NoMessage

LEMMA CheckTypes ==
    ASSUME BotAssumption, TypeOK, LookedUp, NEW h \in Busy, NEW late \in BOOLEAN, CheckCode(h, late)
    PROVE  TypeOK'
<1>. DEFINE e == handler[h].email
<1>1. e \in Emails
  BY DEF CheckCode, LookedUp, Seen, Phase
<1>2. handler' \in [Handlers -> Deliveries \cup {IdleHandler}]
  BY OperationsBetween, BetweenTypes
<1>3. /\ code' \in {code, [code EXCEPT ![e] = 0]}
      /\ left' \in {left, [left EXCEPT ![e] = 0], [left EXCEPT ![e] = IF @ <= 1 THEN 0 ELSE @ - 1]}
      /\ verified' \in {verified, verified \cup {e}}
      /\ UNCHANGED <<telegram, users, owner, tasks, crossed>>
  BY Zenon DEF CheckCode
<1>4. code' \in [Emails -> Nat] /\ left' \in [Emails -> 0 .. MaxAttempts]
  BY <1>1, <1>3, CodeTypes DEF TypeOK
<1>5. verified' \subseteq Emails
  BY <1>1, <1>3 DEF TypeOK
<1>. QED
  BY <1>2, <1>3, <1>4, <1>5 DEF TypeOK, telegram, Keys, Updates, Messages, NoMessage

\* Every variable keeps its type.
LEMMA TypeStep ==
    ASSUME BotAssumption, TypeOK, LookedUp, Next
    PROVE  TypeOK'
<1>1. ASSUME NEW p \in Persons,
             \/ \E kind \in {"start", "predict"} : Write(p, [kind |-> kind])
             \/ \E e \in Emails : Write(p, [kind |-> "email", email |-> e])
             \/ \E c \in 1 .. deliveries : Write(p, [kind |-> "code", code |-> c])
      PROVE  TypeOK'
  BY <1>1, SomeText, WriteTypes
<1>2. ASSUME NEW h \in Handlers, NEW u \in Updates, Deliver(h, u)
      PROVE  TypeOK'
  BY <1>2, DeliverTypes
<1>3. ASSUME NEW h \in Handlers, Fail(h)
      PROVE  TypeOK'
  <2>1. failures' \in 0 .. MaxFailures
    BY <1>3 DEF Fail, TypeOK, BotAssumption
  <2>. QED
    BY <1>3, <2>1, ActorsAreBusy, UndoTypes DEF Fail
<1>4. ASSUME NEW h \in Handlers, GiveUp(h)
      PROVE  TypeOK'
  <2>1. h \in Busy
    BY <1>4, ActorsAreBusy
  <2>2. failures' \in 0 .. MaxFailures
    BY <1>4 DEF GiveUp, TypeOK, BotAssumption
  <2>3. handler' \in [Handlers -> Deliveries \cup {IdleHandler}]
    BY <1>4, <2>1, OperationsBetween, BetweenTypes
  <2>4. held' \in [Updates -> Messages \cup {NoMessage}] /\ failed' \in [Updates -> Nat]
    BY <1>4, <2>1, HeldTypes DEF GiveUp
  <2>. QED
    BY <1>4, <2>2, <2>3, <2>4 DEF GiveUp, TypeOK, identities, Keys, Updates, Messages, NoMessage
<1>5. ASSUME NEW h \in Handlers, Step(h)
      PROVE  TypeOK'
  <2>1. h \in Busy
    BY <1>5, ActorsAreBusy
  <2>2. CASE RegisterUser(h)
    <3>1. handler' \in [Handlers -> Deliveries \cup {IdleHandler}]
      <4>. DEFINE p == IF owner[Person(h)] # 0 THEN "known" ELSE "joining"
                  d == [handler[h] EXCEPT !.user = Number(h), !.phase = p]
      <4>1. handler[h] \in Deliveries /\ Number(h) \in Nat /\ p \in Phases
        BY <2>1, BusyTypes DEF Phases
      <4>2. handler' = [handler EXCEPT ![h].user = Number(h), ![h].phase = p]
        BY <2>2 DEF RegisterUser, Number
      <4>. HIDE DEF p
      <4>3. d \in Deliveries
        BY <4>1 DEF Deliveries
      <4>4. Changes(h, d)
        BY <4>2 DEF Changes
      <4>. QED
        BY <2>1, <4>3, <4>4, HandlerTypes
    <3>. QED
      BY <2>2, <3>1 DEF RegisterUser, TypeOK, telegram, identities, Keys, Updates, Messages, NoMessage
  <2>3. CASE JoinChat(h)
    <3>1. Person(h) \in Keys /\ "known" \in Phases
      BY <2>1, BusyTypes DEF Phases
    <3>2. InsertFails(h, Person(h)) => TypeOK'
      BY <2>1, UndoTypes DEF InsertFails, TypeOK
    <3>. QED
      BY <2>1, <2>3, <3>1, <3>2, InsertTypes DEF JoinChat
  <2>4. CASE FindVerified(h) \/ FindPending(h) \/ FindEmail(h)
    <3>1. handler' \in [Handlers -> Deliveries \cup {IdleHandler}]
      BY <2>1, <2>4, OperationsBetween, BetweenTypes
    <3>2. UNCHANGED <<telegram, users, identities, tasks, crossed>>
      BY <2>4 DEF FindVerified, FindPending, FindEmail
    <3>. QED
      BY <3>1, <3>2 DEF TypeOK, telegram, identities, Keys, Updates, Messages, NoMessage
  <2>5. CASE BindEmail(h)
    <3>1. Text(h).email \in Keys /\ "issuing" \in Phases
      BY <2>1, <2>5, EmailTexts, BusyTypes DEF BindEmail, LookedUp, Seen, Phase, Phases, Keys
    <3>2. InsertFails(h, Text(h).email) => TypeOK'
      BY <2>1, UndoTypes DEF InsertFails, TypeOK
    <3>. QED
      BY <2>1, <2>5, <3>1, <3>2, InsertTypes DEF BindEmail
  <2>6. CASE RunCommand(h)
    <3>1. handler' \in [Handlers -> Deliveries \cup {IdleHandler}]
      BY <2>1, <2>6, OperationsBetween, BetweenTypes
    <3>2. tasks' \in [Updates -> Nat]
      <4>1. handler[h].update \in Updates
        BY <2>1, BusyTypes
      <4>. QED
        BY <2>6, <4>1 DEF RunCommand, TypeOK
    <3>. QED
      BY <2>6, <3>1, <3>2 DEF RunCommand, TypeOK, telegram, identities, Keys, Updates, Messages, NoMessage
  <2>7. CASE Answer(h)
    <3>1. handler' \in [Handlers -> Deliveries \cup {IdleHandler}]
      BY <2>7 DEF Answer, TypeOK
    <3>. QED
      BY <2>7, <3>1 DEF Answer, TypeOK, telegram, identities, Keys, Updates, Messages, NoMessage
  <2>. QED
    BY <1>5, <2>1, <2>2, <2>3, <2>4, <2>5, <2>6, <2>7, IssueTypes, CheckTypes DEF Step
<1>. QED
  BY <1>1, <1>2, <1>3, <1>4, <1>5 DEF Next

----------------------------------------------------------------------------
(* The steps                                                               *)

\* Where a thread may be after a step of another one.
LEMMA UnchangedKeepsOwned ==
    ASSUME Owned, UNCHANGED <<handler, owner, users, deliveries, crossed>>
    PROVE  Owned'
  BY DEF Owned, NumbersAreFresh, UsersAreKnown, NumbersAreOwn, Crossings, StraysNeedOverlap,
     Busy, Idle, Person, Number, User, Phase, Settled, Keys

LEMMA UndoKeepsOwned ==
    ASSUME TypeOK, Owned, NEW h \in Busy, Undo(h)
    PROVE  Owned'
<1>1. Changes(h, IdleHandler) /\ UNCHANGED <<owner, users, deliveries, crossed>>
  BY DEF Undo, Changes, identities
<1>. QED
  BY <1>1, ReleaseKeepsOwned

LEMMA OwnedStep ==
    ASSUME BotAssumption, TypeOK, Owned, LookedUp, Next
    PROVE  Owned'
<1>1. ASSUME NEW p \in Persons, NEW t \in Texts, Write(p, t)
      PROVE  Owned'
  BY <1>1, UnchangedKeepsOwned DEF Write, identities
<1>2. ASSUME NEW h \in Handlers, NEW u \in Updates, Deliver(h, u)
      PROVE  Owned'
  BY <1>2, DeliverKeepsOwned
<1>3. ASSUME NEW h \in Handlers, Fail(h)
      PROVE  Owned'
  BY <1>3, ActorsAreBusy, UndoKeepsOwned DEF Fail
<1>4. ASSUME NEW h \in Handlers, GiveUp(h)
      PROVE  Owned'
  BY <1>4, ActorsAreBusy, OperationsBetween, BetweenKeepsOwned
<1>5. ASSUME NEW h \in Handlers, Step(h)
      PROVE  Owned'
  <2>1. h \in Busy
    BY <1>5, ActorsAreBusy
  <2>2. CASE RegisterUser(h)
    BY <2>1, <2>2, RegisterKeepsOwned
  <2>3. CASE JoinChat(h)
    BY <2>1, <2>3, JoinKeepsOwned, UndoKeepsOwned DEF JoinChat, InsertFails
  <2>4. CASE BindEmail(h)
    <3>1. Text(h).email \in Emails
      BY <2>1, <2>4, EmailTexts, BusyTypes DEF BindEmail, LookedUp, Seen, Phase
    <3>. QED
      BY <2>1, <2>4, <3>1, BindKeepsOwned, UndoKeepsOwned DEF BindEmail, InsertFails
  <2>5. CASE Answer(h)
    <3>1. Changes(h, IdleHandler) /\ UNCHANGED <<owner, users, deliveries, crossed>>
      BY <2>5 DEF Answer, Changes, telegram, identities
    <3>. QED
      BY <2>1, <3>1, ReleaseKeepsOwned
  <2>. QED
    BY <1>5, <2>1, <2>2, <2>3, <2>4, <2>5, OperationsBetween, BetweenKeepsOwned DEF Step
<1>. QED
  BY <1>1, <1>2, <1>3, <1>4, <1>5, SomeText DEF Next

\* An identity that is bound stays so, and verified.
Lasting ==
    /\ \A k \in Keys : owner[k] # 0 => owner'[k] = owner[k]
    /\ verified \subseteq verified'

LEMMA IdentitiesLast ==
    ASSUME BotAssumption, TypeOK, LookedUp, Next
    PROVE  Lasting
<1>1. ASSUME NEW h \in Busy, NEW k \in Keys, NEW p, Insert(h, k, p)
      PROVE  Lasting
  BY <1>1 DEF Lasting, Insert, TypeOK
<1>2. ASSUME UNCHANGED owner, verified' = verified \/ \E e \in Emails : verified' = verified \cup {e}
      PROVE  Lasting
  BY <1>2 DEF Lasting
<1>3. ASSUME NEW p \in Persons, NEW t \in Texts, Write(p, t)
      PROVE  Lasting
  BY <1>2, <1>3 DEF Write, identities
<1>4. ASSUME NEW h \in Handlers, NEW u \in Updates, Deliver(h, u)
      PROVE  Lasting
  BY <1>2, <1>4 DEF Deliver, identities
<1>5. ASSUME NEW h \in Handlers, Fail(h) \/ GiveUp(h)
      PROVE  Lasting
  BY <1>2, <1>5 DEF Fail, Undo, GiveUp, identities
<1>6. ASSUME NEW h \in Handlers, Step(h)
      PROVE  Lasting
  <2>1. h \in Busy
    BY <1>6, ActorsAreBusy
  <2>2. CASE JoinChat(h)
    BY <1>1, <1>2, <2>1, <2>2, BusyTypes DEF JoinChat, InsertFails, Undo, identities
  <2>3. CASE BindEmail(h)
    <3>1. Text(h).email \in Keys
      BY <2>1, <2>3, EmailTexts, BusyTypes DEF BindEmail, LookedUp, Seen, Phase, Keys
    <3>. QED
      BY <1>1, <1>2, <2>1, <2>3, <3>1 DEF BindEmail, InsertFails, Undo, identities
  <2>4. CASE \E late \in BOOLEAN : CheckCode(h, late)
    <3>1. handler[h].email \in Emails
      BY <2>1, <2>4 DEF CheckCode, LookedUp, Seen, Phase
    <3>. QED
      BY <1>2, <2>4, <3>1 DEF CheckCode
  <2>5. CASE RegisterUser(h) \/ FindVerified(h) \/ FindPending(h) \/ FindEmail(h)
             \/ IssueCode(h) \/ RunCommand(h) \/ Answer(h)
    BY <1>2, <2>5 DEF RegisterUser, FindVerified, FindPending, FindEmail, IssueCode, RunCommand,
       Answer, identities
  <2>. QED
    BY <1>6, <2>2, <2>3, <2>4, <2>5 DEF Step
<1>. QED
  BY <1>3, <1>4, <1>5, <1>6, SomeText DEF Next

\* What a thread has found stays so while others take their steps.
LEMMA OthersSeen ==
    ASSUME TypeOK, Owned, LookedUp, Lasting, NEW g \in Busy, handler'[g] = handler[g]
    PROVE  Seen(g)'
<1>1. /\ Phase(g)' = Phase(g) /\ User(g)' = User(g) /\ Person(g)' = Person(g)
      /\ Text(g)' = Text(g) /\ handler[g].email = handler'[g].email
  BY DEF Phase, User, Person, Text
<1>2. Phase(g) \in {"verified", "checking"} => User(g) # 0
  BY DEF Owned, UsersAreKnown, Settled
<1>3. Person(g) \in Keys /\ (\A e \in Emails : e \in Keys) /\ verified \subseteq Emails
  BY BusyTypes DEF Keys, TypeOK
<1>4. Seen(g)
  BY DEF LookedUp
<1>. QED
  BY <1>1, <1>2, <1>3, <1>4 DEF Lasting, Seen

\* A verified email of its user: then it is the user of its person.
LEMMA EmailsAreNoStrays ==
    ASSUME TypeOK, Owned, NEW h \in Busy, Settled(h), Phase(h) \notin {"issuing", "reply"},
           NEW e \in Emails, owner[e] = User(h)
    PROVE  User(h) = owner[Person(h)]
<1>1. User(h) \in {owner[Person(h)], Number(h)}
  BY DEF Owned, UsersAreKnown
<1>. QED
  BY <1>1 DEF Owned, NumbersAreOwn

\* A thread that goes on to a phase keeps its message and its user.
LEMMA GoneTo ==
    ASSUME TypeOK, NEW h \in Busy, NEW p \in Phases,
           \/ Changes(h, [handler[h] EXCEPT !.phase = p])
           \/ \E r \in Replies : Changes(h, [handler[h] EXCEPT !.phase = p, !.reply = r])
    PROVE  /\ Phase(h)' = p /\ User(h)' = User(h)
           /\ Person(h)' = Person(h) /\ Text(h)' = Text(h)
<1>1. handler[h] \in Deliveries /\ h \in Handlers
  BY BusyTypes
<1>2. ASSUME NEW d, Changes(h, d),
             d.phase = p /\ d.user = handler[h].user /\ d.message = handler[h].message
      PROVE  /\ Phase(h)' = p /\ User(h)' = User(h)
             /\ Person(h)' = Person(h) /\ Text(h)' = Text(h)
  <2>1. handler'[h] = d
    BY <1>1, <1>2, BusyAfter
  <2>. QED
    BY <1>2, <2>1 DEF Phase, User, Person, Text
<1>3. LET d == [handler[h] EXCEPT !.phase = p]
      IN  d.phase = p /\ d.user = handler[h].user /\ d.message = handler[h].message
  BY <1>1 DEF Deliveries
<1>4. \A r \in Replies :
         LET d == [handler[h] EXCEPT !.phase = p, !.reply = r]
         IN  d.phase = p /\ d.user = handler[h].user /\ d.message = handler[h].message
  BY <1>1 DEF Deliveries
<1>. QED
  BY <1>2, <1>3, <1>4

\* What the thread of the step has found
LEMMA ActorSeen ==
    ASSUME BotAssumption, TypeOK, Owned, LookedUp, Lasting, NEW h \in Busy, Step(h) \/ GiveUp(h), h \in Busy'
    PROVE  Seen(h)'
<1>. h \in Handlers
  BY BusyTypes
<1>1. CASE RegisterUser(h)
  <2>1. handler'[h].phase \in {"known", "joining"}
    BY <1>1, BusyTypes DEF RegisterUser, TypeOK, Deliveries
  <2>. QED
    BY <2>1 DEF Seen, Phase
<1>2. ASSUME Undo(h)
      PROVE  FALSE
  BY <1>2 DEF Undo, TypeOK, Busy, Idle, IdleHandler
<1>3. CASE JoinChat(h)
  <2>1. Person(h) \in Keys /\ "known" \in Phases
    BY BusyTypes DEF Phases
  <2>2. Insert(h, Person(h), "known")
    BY <1>2, <1>3 DEF JoinChat, InsertFails
  <2>3. Phase(h)' = "known"
    BY <2>1, <2>2, InsertFacts
  <2>. QED
    BY <2>3 DEF Seen
<1>4. CASE FindVerified(h)
  <2>. DEFINE p == IF EmailsOf(User(h)) \cap verified # {} THEN "verified" ELSE "unverified"
  <2>1. Goto(h, p) /\ UNCHANGED <<owner, verified>>
    BY <1>4 DEF FindVerified, identities, User
  <2>2. p \in Phases
    BY DEF Phases
  <2>3. Phase(h)' = p /\ User(h)' = User(h) /\ Person(h)' = Person(h) /\ Text(h)' = Text(h)
    <3>. HIDE DEF p
    <3>. QED
      BY <2>1, <2>2, GotoChanges, GoneTo
  <2>4. CASE p = "verified"
    <3>1. PICK e \in Emails : owner[e] = User(h) /\ e \in verified
      BY <2>4 DEF EmailsOf
    <3>2. Settled(h) /\ Phase(h) = "known"
      BY <1>4 DEF FindVerified, Settled, Phase
    <3>3. User(h) = owner[Person(h)]
      BY <3>1, <3>2, EmailsAreNoStrays
    <3>4. Phase(h)' = "verified"
      BY <2>3, <2>4
    <3>. QED
      BY <2>1, <2>3, <3>1, <3>3, <3>4 DEF Seen
  <2>5. CASE p = "unverified"
    BY <2>3, <2>5 DEF Seen
  <2>. QED
    BY <2>4, <2>5
<1>5. CASE FindPending(h)
  <2>1. /\ Settled(h) /\ Phase(h) \notin {"issuing", "reply"}
        /\ UNCHANGED <<owner, verified>>
    BY <1>5 DEF FindPending, Settled, Phase, identities
  <2>2. \/ Reply(h, "text")
        \/ Goto(h, "email") /\ Text(h).kind = "email"
        \/ \E e \in Emails : /\ owner[e] = User(h)
                            /\ handler' = [handler EXCEPT ![h].phase = "checking", ![h].email = e]
    BY <1>5, Zenon DEF FindPending, EmailsOf, User
  <2>3. {"reply", "email"} \subseteq Phases /\ "text" \in Replies
    BY DEF Phases, Replies
  <2>4. CASE Reply(h, "text")
    <3>1. Phase(h)' = "reply"
      BY <2>3, <2>4, ReplyChanges, GoneTo
    <3>. QED
      BY <3>1 DEF Seen
  <2>5. CASE Goto(h, "email") /\ Text(h).kind = "email"
    <3>1. Phase(h)' = "email" /\ Text(h)' = Text(h)
      BY <2>3, <2>5, GotoChanges, GoneTo
    <3>. QED
      BY <2>5, <3>1 DEF Seen
  <2>6. ASSUME NEW e \in Emails, owner[e] = User(h),
               handler' = [handler EXCEPT ![h].phase = "checking", ![h].email = e]
        PROVE  Seen(h)'
    <3>1. User(h) = owner[Person(h)]
      BY <2>1, <2>6, EmailsAreNoStrays
    <3>2. handler[h] \in Deliveries
      BY BusyTypes
    <3>3. /\ handler'[h].phase = "checking" /\ handler'[h].email = e
          /\ handler'[h].user = handler[h].user /\ handler'[h].message = handler[h].message
      BY <2>6, <3>2 DEF TypeOK, Deliveries
    <3>4. /\ Phase(h)' = "checking" /\ User(h)' = User(h) /\ Person(h)' = Person(h)
      BY <3>3 DEF Phase, User, Person
    <3>. QED
      BY <2>1, <2>6, <3>1, <3>3, <3>4 DEF Seen
  <2>. QED
    BY <2>2, <2>4, <2>5, <2>6
<1>6. CASE FindEmail(h)
  <2>1. Text(h).kind = "email"
    BY <1>6 DEF FindEmail, LookedUp, Seen, Phase
  <2>2. (\E p \in {"binding", "issuing"} : Goto(h, p)) \/ Reply(h, "taken")
    BY <1>6 DEF FindEmail
  <2>3. {"reply", "binding", "issuing"} \subseteq Phases /\ "taken" \in Replies
    BY DEF Phases, Replies
  <2>4. /\ Phase(h)' \in {"reply", "binding", "issuing"} /\ Text(h)' = Text(h)
    BY <2>2, <2>3, GotoChanges, ReplyChanges, GoneTo
  <2>. QED
    BY <2>1, <2>4 DEF Seen
<1>7. CASE BindEmail(h)
  <2>1. Text(h).email \in Keys /\ "issuing" \in Phases /\ Text(h).kind = "email"
    BY <1>7, EmailTexts, BusyTypes DEF BindEmail, LookedUp, Seen, Phase, Phases, Keys
  <2>2. Insert(h, Text(h).email, "issuing")
    BY <1>2, <1>7 DEF BindEmail, InsertFails
  <2>3. Phase(h)' = "issuing" /\ Text(h)' = Text(h)
    BY <2>1, <2>2, InsertFacts
  <2>. QED
    BY <2>1, <2>3 DEF Seen
<1>8. CASE IssueCode(h) \/ RunCommand(h) \/ \E late \in BOOLEAN : CheckCode(h, late)
  <2>1. \E r \in Replies : Reply(h, r)
    BY <1>8 DEF IssueCode, RunCommand, CheckCode, Replies
  <2>2. "reply" \in Phases
    BY DEF Phases
  <2>3. Phase(h)' = "reply"
    BY <2>1, <2>2, ReplyChanges, GoneTo
  <2>. QED
    BY <2>3 DEF Seen
<1>9. CASE Answer(h)
  BY <1>9 DEF Answer, TypeOK, Busy, Idle, IdleHandler
<1>10. CASE GiveUp(h)
  <2>1. handler[h] \in Deliveries
    BY BusyTypes
  <2>2. handler'[h] = [handler[h] EXCEPT !.given = TRUE]
    BY <1>10 DEF GiveUp, TypeOK
  <2>3. /\ Phase(h)' = Phase(h) /\ User(h)' = User(h) /\ Person(h)' = Person(h)
        /\ Text(h)' = Text(h) /\ handler'[h].email = handler[h].email
    BY <2>1, <2>2 DEF Phase, User, Person, Text, Deliveries
  <2>4. UNCHANGED <<owner, verified>> /\ Seen(h)
    BY <1>10 DEF GiveUp, identities, LookedUp
  <2>. QED
    BY <2>3, <2>4 DEF Seen
<1>. QED
  BY <1>1, <1>3, <1>4, <1>5, <1>6, <1>7, <1>8, <1>9, <1>10 DEF Step

\* Each step is one of a thread, or of Telegram, and leaves the other threads alone.
LEMMA OneActs ==
    ASSUME TypeOK, NEW h \in Handlers, Step(h) \/ Fail(h) \/ GiveUp(h), NEW g \in Handlers \ {h}
    PROVE  handler'[g] = handler[g]
  BY DEF Step, Fail, GiveUp, RegisterUser, JoinChat, Insert, InsertFails, Undo, FindVerified,
     FindPending, FindEmail, BindEmail, IssueCode, CheckCode, RunCommand, Answer, Goto, Reply, TypeOK

LEMMA LookedUpStep ==
    ASSUME BotAssumption, TypeOK, Owned, LookedUp, Next
    PROVE  LookedUp'
<1>1. Lasting
  BY IdentitiesLast
<1>2. ASSUME NEW h \in Handlers, \A g \in Handlers \ {h} : handler'[g] = handler[g],
             h \in Busy' => Seen(h)'
      PROVE  LookedUp'
  <2>1. \A g \in Busy' \ {h} : g \in Busy /\ handler'[g] = handler[g]
    BY <1>2 DEF Busy, Idle
  <2>. QED
    BY <1>1, <1>2, <2>1, OthersSeen DEF LookedUp
<1>3. ASSUME UNCHANGED handler
      PROVE  LookedUp'
  <2>1. Busy' = Busy /\ \A g \in Busy : handler'[g] = handler[g]
    BY <1>3 DEF Busy, Idle
  <2>. QED
    BY <1>1, <2>1, OthersSeen DEF LookedUp
<1>4. ASSUME NEW h \in Handlers, NEW u \in Updates, Deliver(h, u)
      PROVE  LookedUp'
  <2>1. handler'[h].phase \in {"new", "known"} /\ \A g \in Handlers \ {h} : handler'[g] = handler[g]
    BY <1>4 DEF Deliver, TypeOK
  <2>. QED
    BY <1>2, <2>1 DEF Seen, Phase
<1>5. ASSUME NEW h \in Handlers, Step(h) \/ Fail(h) \/ GiveUp(h)
      PROVE  LookedUp'
  <2>1. h \in Busy
    BY <1>5, ActorsAreBusy
  <2>2. Fail(h) => h \notin Busy'
    BY DEF Fail, Undo, TypeOK, Busy, Idle, IdleHandler
  <2>. QED
    BY <1>1, <1>2, <1>5, <2>1, <2>2, OneActs, ActorSeen
<1>6. ASSUME NEW p \in Persons, NEW t \in Texts, Write(p, t)
      PROVE  LookedUp'
  BY <1>3, <1>6 DEF Write
<1>. QED
  BY <1>4, <1>5, <1>6, SomeText DEF Next

----------------------------------------------------------------------------
(* Deliveries and tasks                                                    *)

\* The threads that may still create a task for an update
Running(u) == {h \in Busy : handler[h].update = u /\ Phase(h) # "reply"}
Wait(u) == IF held[u] # NoMessage THEN 1 ELSE 0

\* Each failed delivery allows for one more task.
Counted ==
    /\ \A h \in Busy : handler[h].update <= updates
    /\ \A u \in Updates :
          /\ u > updates => held[u] = NoMessage /\ tasks[u] = 0
          /\ tasks[u] + Wait(u) + Cardinality(Running(u)) <= 1 + failed[u]

LEMMA RunningFinite ==
    ASSUME BotAssumption, NEW u
    PROVE  IsFiniteSet(Running(u)) /\ Cardinality(Running(u)) \in Nat
<1>1. Running(u) \subseteq Handlers
  BY DEF Running, Busy
<1>. QED
  BY <1>1, FS_Subset, FS_CardinalityType DEF BotAssumption

\* The record of the thread of a step
LEMMA ActorGoesOn ==
    ASSUME BotAssumption, TypeOK, LookedUp, NEW h \in Busy, Step(h) \/ Fail(h) \/ GiveUp(h), h \in Busy'
    PROVE  /\ handler'[h].update = handler[h].update
           /\ Phase(h) = "reply" => Phase(h)' = "reply"
<1>. h \in Handlers /\ handler[h] \in Deliveries
  BY BusyTypes
<1>1. CASE Between(h)
  <2>1. PICK d \in Deliveries :
           /\ Changes(h, d) /\ d.update = handler[h].update
           /\ Phase(h) = "reply" => d.phase = "reply"
    BY <1>1 DEF Between
  <2>2. handler'[h] = d
    BY <2>1, BusyAfter
  <2>. QED
    BY <2>1, <2>2 DEF Phase
<1>2. CASE RegisterUser(h)
  <2>1. handler[h].phase = "new" /\ handler'[h].update = handler[h].update
    BY <1>2 DEF RegisterUser, TypeOK, Deliveries
  <2>. QED
    BY <2>1 DEF Phase
<1>3. ASSUME Undo(h) \/ Answer(h)
      PROVE  FALSE
  BY <1>3 DEF Undo, Answer, TypeOK, Busy, Idle, IdleHandler
<1>4. ASSUME NEW k, NEW p, Insert(h, k, p)
      PROVE  handler'[h].update = handler[h].update
  <2>1. handler'[h] = [handler[h] EXCEPT !.phase = p]
    BY <1>4 DEF Insert, Goto, TypeOK
  <2>. QED
    BY <2>1 DEF Deliveries
<1>5. CASE JoinChat(h) \/ BindEmail(h)
  <2>1. Phase(h) # "reply"
    BY <1>5 DEF JoinChat, BindEmail, Phase
  <2>. QED
    BY <1>3, <1>4, <1>5, <2>1 DEF JoinChat, BindEmail, InsertFails
<1>. QED
  BY <1>1, <1>2, <1>3, <1>5, OperationsBetween DEF Step, Fail

\* What a step of a thread does to the counts
LEMMA ThreadEffects ==
    ASSUME BotAssumption, TypeOK, LookedUp, NEW h \in Busy, Step(h) \/ Fail(h) \/ GiveUp(h)
    PROVE  /\ updates' = updates
           /\ \A g \in Busy' : g \in Busy /\ handler'[g].update = handler[g].update
           /\ \A u \in Updates : Running(u)' \subseteq Running(u)
           /\ \/ UNCHANGED <<held, failed, tasks>>
              \/ /\ failed' = [failed EXCEPT ![handler[h].update] = @ + 1]
                 /\ held' = [held EXCEPT ![handler[h].update] = handler[h].message]
                 /\ UNCHANGED tasks
              \/ /\ tasks' = [tasks EXCEPT ![handler[h].update] = @ + 1]
                 /\ \A u \in {handler[h].update} : h \in Running(u) /\ h \notin Running(u)'
                 /\ UNCHANGED <<held, failed>>
<1>. h \in Handlers
  BY BusyTypes
<1>1. \A g \in Handlers \ {h} : handler'[g] = handler[g]
  BY OneActs
<1>2. \A g \in Busy' : g \in Busy /\ handler'[g].update = handler[g].update
  BY <1>1, ActorGoesOn DEF Busy, Idle
<1>3. \A u \in Updates : Running(u)' \subseteq Running(u)
  <2>1. \A g \in Busy' : Phase(g) = "reply" => Phase(g)' = "reply"
    <3>1. \A g \in Busy' \ {h} : Phase(g)' = Phase(g)
      BY <1>1, <1>2 DEF Phase, Busy
    <3>. QED
      BY <3>1, ActorGoesOn
  <2>. QED
    BY <1>2, <2>1 DEF Running
<1>4. updates' = updates
  BY DEF Step, Fail, Undo, GiveUp, RegisterUser, JoinChat, Insert, InsertFails, FindVerified,
     FindPending, FindEmail, BindEmail, IssueCode, CheckCode, RunCommand, Answer, telegram
<1>5. ASSUME Undo(h)
      PROVE  \/ UNCHANGED <<held, failed, tasks>>
             \/ /\ failed' = [failed EXCEPT ![handler[h].update] = @ + 1]
                /\ held' = [held EXCEPT ![handler[h].update] = handler[h].message]
                /\ UNCHANGED tasks
  BY <1>5 DEF Undo
<1>6. CASE Fail(h)
  BY <1>2, <1>3, <1>4, <1>5, <1>6 DEF Fail
<1>7. CASE GiveUp(h)
  BY <1>2, <1>3, <1>4, <1>7 DEF GiveUp
<1>8. CASE RunCommand(h)
  <2>1. handler[h].phase = "verified" /\ handler'[h].phase = "reply" /\ UNCHANGED <<held, failed>>
    BY <1>8, BusyTypes DEF RunCommand, Reply, TypeOK, Deliveries, telegram
  <2>2. \A u \in {handler[h].update} : h \in Running(u) /\ h \notin Running(u)'
    BY <2>1 DEF Running, Phase
  <2>3. UNCHANGED tasks \/ tasks' = [tasks EXCEPT ![handler[h].update] = @ + 1]
    BY <1>8 DEF RunCommand
  <2>. QED
    BY <1>2, <1>3, <1>4, <2>1, <2>2, <2>3
<1>9. CASE JoinChat(h) \/ BindEmail(h)
  <2>1. ASSUME NEW k, NEW p, Insert(h, k, p)
        PROVE  UNCHANGED <<held, failed, tasks>>
    BY <2>1 DEF Insert, telegram
  <2>2. ASSUME NEW k, InsertFails(h, k)
        PROVE  Undo(h)
    BY <2>2 DEF InsertFails
  <2>. QED
    BY <1>2, <1>3, <1>4, <1>5, <1>9, <2>1, <2>2 DEF JoinChat, BindEmail
<1>10. CASE \/ RegisterUser(h) \/ FindVerified(h) \/ FindPending(h) \/ FindEmail(h)
            \/ IssueCode(h) \/ Answer(h) \/ \E late \in BOOLEAN : CheckCode(h, late)
  <2>1. UNCHANGED <<held, failed, tasks>>
    BY <1>10 DEF RegisterUser, FindVerified, FindPending, FindEmail, IssueCode, Answer, CheckCode, telegram
  <2>. QED
    BY <1>2, <1>3, <1>4, <2>1
<1>. QED
  BY <1>6, <1>7, <1>8, <1>9, <1>10 DEF Step

LEMMA ThreadCounted ==
    ASSUME BotAssumption, TypeOK, LookedUp, Counted, NEW h \in Busy, Step(h) \/ Fail(h) \/ GiveUp(h)
    PROVE  Counted'
<1>. DEFINE v == handler[h].update
<1>1. v \in Updates /\ v <= updates /\ updates \in Nat
  BY BusyTypes DEF Counted, TypeOK
<1>2. \A u \in Updates : tasks[u] \in Nat /\ failed[u] \in Nat /\ u \in Nat
  BY DEF TypeOK, Updates
<1>3. \A g \in Busy' : handler'[g].update <= updates'
  BY ThreadEffects DEF Counted
<1>4. ASSUME NEW u \in Updates
      PROVE  /\ u > updates' => held'[u] = NoMessage /\ tasks'[u] = 0
             /\ tasks'[u] + Wait(u)' + Cardinality(Running(u)') <= 1 + failed'[u]
  <2>1. /\ Cardinality(Running(u)) \in Nat /\ Cardinality(Running(u)') \in Nat
        /\ Cardinality(Running(u)') <= Cardinality(Running(u))
        /\ \A g : g \in Running(u) /\ g \notin Running(u)' =>
               Cardinality(Running(u)') <= Cardinality(Running(u)) - 1
    <3>1. Running(u)' \subseteq Running(u) /\ IsFiniteSet(Running(u)) /\ Cardinality(Running(u)) \in Nat
      BY ThreadEffects, RunningFinite
    <3>2. IsFiniteSet(Running(u)') /\ Cardinality(Running(u)') \in Nat
      BY <3>1, FS_Subset, FS_CardinalityType
    <3>3. ASSUME NEW g \in Running(u), g \notin Running(u)'
          PROVE  Cardinality(Running(u)') <= Cardinality(Running(u)) - 1
      <4>1. /\ IsFiniteSet(Running(u) \ {g})
            /\ Cardinality(Running(u) \ {g}) = Cardinality(Running(u)) - 1
        BY <3>1, FS_RemoveElement
      <4>2. Running(u)' \subseteq Running(u) \ {g}
        BY <3>1, <3>3
      <4>. QED
        BY <4>1, <4>2, FS_Subset
    <3>. QED
      BY <3>1, <3>2, <3>3, FS_Subset
  <2>2. /\ Wait(u) \in 0 .. 1 /\ Wait(u)' \in 0 .. 1
        /\ held'[u] = held[u] => Wait(u)' = Wait(u)
    BY DEF Wait
  <2>3. /\ u > updates => held[u] = NoMessage /\ tasks[u] = 0
        /\ tasks[u] + Wait(u) + Cardinality(Running(u)) <= 1 + failed[u]
        /\ updates' = updates
    BY ThreadEffects DEF Counted
  <2>4. CASE UNCHANGED <<held, failed, tasks>>
    BY <1>1, <1>2, <2>1, <2>2, <2>3, <2>4
  <2>5. CASE /\ failed' = [failed EXCEPT ![v] = @ + 1]
             /\ held' = [held EXCEPT ![v] = handler[h].message] /\ UNCHANGED tasks
    <3>1. CASE u = v
      <4>1. failed'[u] = failed[u] + 1
        BY <2>5, <3>1 DEF TypeOK
      <4>. QED
        BY <1>1, <1>2, <2>1, <2>2, <2>3, <2>5, <3>1, <4>1
    <3>2. CASE u # v
      <4>1. failed'[u] = failed[u] /\ held'[u] = held[u]
        BY <2>5, <3>2 DEF TypeOK
      <4>. QED
        BY <1>1, <1>2, <2>1, <2>2, <2>3, <2>5, <4>1
    <3>. QED
      BY <3>1, <3>2
  <2>6. CASE /\ tasks' = [tasks EXCEPT ![v] = @ + 1]
             /\ \A w \in {v} : h \in Running(w) /\ h \notin Running(w)'
             /\ UNCHANGED <<held, failed>>
    <3>1. CASE u = v
      <4>1. tasks'[u] = tasks[u] + 1
        BY <2>6, <3>1 DEF TypeOK
      <4>2. Cardinality(Running(u)') <= Cardinality(Running(u)) - 1
        BY <2>1, <2>6, <3>1
      <4>. QED
        BY <1>1, <1>2, <2>1, <2>2, <2>3, <2>6, <3>1, <4>1, <4>2
    <3>2. CASE u # v
      <4>1. tasks'[u] = tasks[u]
        BY <2>6, <3>2 DEF TypeOK
      <4>. QED
        BY <1>1, <1>2, <2>1, <2>2, <2>3, <2>6, <4>1
    <3>. QED
      BY <3>1, <3>2
  <2>. QED
    BY <2>4, <2>5, <2>6, ThreadEffects
<1>. QED
  BY <1>3, <1>4 DEF Counted

LEMMA WriteCounted ==
    ASSUME BotAssumption, TypeOK, Counted, NEW p \in Persons, NEW t \in Texts, Write(p, t)
    PROVE  Counted'
<1>1. updates \in Nat /\ updates' = updates + 1 /\ UNCHANGED <<handler, tasks, failed>>
  BY DEF Write, TypeOK
<1>2. Busy' = Busy /\ \A u \in Updates : Running(u)' = Running(u)
  BY <1>1 DEF Busy, Idle, Running, Phase
<1>3. \A g \in Busy' : handler'[g].update <= updates'
  BY <1>1, <1>2, BusyTypes DEF Counted, Updates
<1>4. ASSUME NEW u \in Updates
      PROVE  /\ u > updates' => held'[u] = NoMessage /\ tasks'[u] = 0
             /\ tasks'[u] + Wait(u)' + Cardinality(Running(u)') <= 1 + failed'[u]
  <2>1. /\ u > updates => held[u] = NoMessage /\ tasks[u] = 0
        /\ tasks[u] + Wait(u) + Cardinality(Running(u)) <= 1 + failed[u]
        /\ u \in Nat /\ tasks[u] \in Nat /\ failed[u] \in Nat
    BY DEF Counted, Updates, TypeOK
  <2>2. CASE u = updates + 1
    <3>1. Running(u) = {} /\ Cardinality(Running(u)) = 0
      <4>1. \A h \in Busy : handler[h].update # u
        BY <1>1, <2>2, BusyTypes DEF Counted, Updates
      <4>. QED
        BY <4>1, FS_EmptySet DEF Running
    <3>2. Wait(u)' \in 0 .. 1
      BY DEF Wait
    <3>. QED
      BY <1>1, <1>2, <2>1, <2>2, <3>1, <3>2
  <2>3. CASE u # updates + 1
    <3>1. held'[u] = held[u] /\ Wait(u)' = Wait(u)
      BY <2>3 DEF Write, TypeOK, Wait
    <3>. QED
      BY <1>1, <1>2, <2>1, <3>1
  <2>. QED
    BY <2>2, <2>3
<1>. QED
  BY <1>3, <1>4 DEF Counted

LEMMA DeliverCounted ==
    ASSUME BotAssumption, TypeOK, Counted, NEW h \in Handlers, NEW v \in Updates, Deliver(h, v)
    PROVE  Counted'
<1>1. /\ Found(h, v) \in Deliveries /\ Changes(h, Found(h, v))
      /\ Found(h, v).update = v
  BY FoundTypes DEF Found
<1>2. /\ Busy' = Busy \cup {h} /\ h \notin Busy /\ handler'[h].update = v
      /\ \A g \in Handlers \ {h} : handler'[g] = handler[g]
  BY <1>1, BusyAfter DEF Deliver, Busy
<1>3. held[v] # NoMessage /\ held'[v] = NoMessage /\ \A u \in Updates \ {v} : held'[u] = held[u]
  BY DEF Deliver, Waiting, TypeOK
<1>4. UNCHANGED <<updates, tasks, failed>> /\ updates \in Nat /\ v \in Nat
  BY DEF Deliver, TypeOK, Updates
<1>5. v <= updates
  BY <1>3, <1>4 DEF Counted
<1>6. \A g \in Busy' : handler'[g].update <= updates'
  BY <1>2, <1>4, <1>5 DEF Counted, Busy
<1>7. /\ Running(v)' \subseteq Running(v) \cup {h} /\ h \notin Running(v)
      /\ \A u \in Updates \ {v} : Running(u)' \subseteq Running(u)
  BY <1>2 DEF Running, Phase, Busy
<1>8. ASSUME NEW u \in Updates
      PROVE  tasks'[u] + Wait(u)' + Cardinality(Running(u)') <= 1 + failed'[u]
  <2>1. /\ tasks[u] + Wait(u) + Cardinality(Running(u)) <= 1 + failed[u]
        /\ tasks[u] \in Nat /\ failed[u] \in Nat
        /\ IsFiniteSet(Running(u)) /\ Cardinality(Running(u)) \in Nat
    BY RunningFinite DEF Counted, TypeOK
  <2>2. CASE u = v
    <3>1. /\ IsFiniteSet(Running(u) \cup {h})
          /\ Cardinality(Running(u) \cup {h}) = Cardinality(Running(u)) + 1
      BY <1>7, <2>1, <2>2, FS_AddElement
    <3>2. Cardinality(Running(u)') \in Nat /\ Cardinality(Running(u)') <= Cardinality(Running(u)) + 1
      BY <1>7, <2>2, <3>1, FS_Subset, FS_CardinalityType
    <3>3. Wait(u) = 1 /\ Wait(u)' = 0
      BY <1>3, <2>2 DEF Wait
    <3>. QED
      BY <1>4, <2>1, <3>2, <3>3
  <2>3. CASE u # v
    <3>1. Cardinality(Running(u)') \in Nat /\ Cardinality(Running(u)') <= Cardinality(Running(u))
      BY <1>7, <2>1, <2>3, FS_Subset, FS_CardinalityType
    <3>2. Wait(u)' = Wait(u) /\ Wait(u) \in 0 .. 1
      BY <1>3, <2>3 DEF Wait
    <3>. QED
      BY <1>4, <2>1, <3>1, <3>2
  <2>. QED
    BY <2>2, <2>3
<1>9. \A u \in Updates : u > updates' => held'[u] = NoMessage /\ tasks'[u] = 0
  BY <1>3, <1>4 DEF Counted
<1>. QED
  BY <1>6, <1>8, <1>9 DEF Counted

LEMMA CountedStep ==
    ASSUME BotAssumption, TypeOK, LookedUp, Counted, Next
    PROVE  Counted'
<1>1. ASSUME NEW h \in Handlers, Step(h) \/ Fail(h) \/ GiveUp(h)
      PROVE  Counted'
  BY <1>1, ActorsAreBusy, ThreadCounted
<1>. QED
  BY <1>1, WriteCounted, DeliverCounted, SomeText DEF Next

----------------------------------------------------------------------------
(* The theorems                                                            *)

IInv == TypeOK /\ Owned /\ LookedUp /\ Counted

LEMMA InitInv ==
    ASSUME BotAssumption, Init
    PROVE  IInv
<1>1. TypeOK
  BY InitTypes
<1>2. Busy = {}
  BY DEF Init, Busy, Idle, IdleHandler
<1>3. \A k \in Keys : owner[k] <= deliveries
  BY DEF Init
<1>4. \A u \in users : u.id > 0 /\ owner[u.name] = u.id
  BY DEF Init, BotAssumption, Keys
<1>5. Counted
  <2>1. ASSUME NEW u \in Updates
        PROVE  tasks[u] + Wait(u) + Cardinality(Running(u)) <= 1 + failed[u]
    <3>1. Running(u) = {} /\ Cardinality(Running(u)) = 0
      BY <1>2, FS_EmptySet DEF Running
    <3>2. tasks[u] = 0 /\ Wait(u) = 0 /\ failed[u] = 0
      BY DEF Init, Wait
    <3>. QED
      BY <3>1, <3>2
  <2>. QED
    BY <1>2, <2>1 DEF Counted, Init
<1>. QED
  BY <1>1, <1>2, <1>3, <1>4, <1>5 DEF IInv, Owned, NumbersAreFresh, UsersAreKnown, NumbersAreOwn,
     Crossings, StraysNeedOverlap, LookedUp

LEMMA StepInv ==
    ASSUME BotAssumption, IInv, [Next]_vars
    PROVE  IInv'
<1>1. CASE Next
  BY <1>1, TypeStep, OwnedStep, LookedUpStep, CountedStep DEF IInv
<1>2. CASE UNCHANGED vars
  <2>1. TypeOK'
    BY <1>2 DEF IInv, TypeOK, vars, telegram, identities, Keys, Updates, Messages, NoMessage
  <2>2. Owned'
    BY <1>2, UnchangedKeepsOwned DEF IInv, vars, telegram, identities
  <2>3. LookedUp'
    BY <1>2 DEF IInv, LookedUp, Seen, Busy, Idle, Phase, User, Person, Text, vars, telegram, identities
  <2>4. Counted'
    <3>1. Busy' = Busy /\ \A u \in Updates : Running(u)' = Running(u) /\ Wait(u)' = Wait(u)
      BY <1>2 DEF Running, Wait, Busy, Idle, Phase, vars, telegram
    <3>. QED
      BY <1>2, <3>1 DEF IInv, Counted, vars, telegram
  <2>. QED
    BY <2>1, <2>2, <2>3, <2>4 DEF IInv
<1>. QED
  BY <1>1, <1>2

\* A finite set of two different members has more than one.
LEMMA TwoElements ==
    ASSUME NEW S, IsFiniteSet(S), NEW a, NEW b, {a, b} \subseteq S, a # b
    PROVE  Cardinality(S) > 1
<1>1. IsFiniteSet({b}) /\ Cardinality({b}) = 1
  BY FS_Singleton
<1>2. Cardinality({b} \cup {a}) = 2
  BY <1>1, FS_AddElement
<1>3. Cardinality({b} \cup {a}) <= Cardinality(S) /\ Cardinality(S) \in Nat
  BY FS_Subset, FS_CardinalityType
<1>. QED
  BY <1>2, <1>3

\* The variables keep their types, the numbers of deliveries name users that
\* belong to one delivery until an identity leads to them, what a thread has
\* found about its user stays so, and tasks and deliveries are counted.
THEOREM Inductive ==
    ASSUME BotAssumption
    PROVE  Spec => []IInv
<1>1. Init => IInv
  BY InitInv
<1>2. IInv /\ [Next]_vars => IInv'
  BY StepInv
<1>. QED
  BY <1>1, <1>2, PTL DEF Spec

\* TypeOK: every variable has its type.
THEOREM TypeCorrect ==
    ASSUME BotAssumption
    PROVE  Spec => []TypeOK
<1>1. IInv => TypeOK
  BY DEF IInv
<1>. QED
  BY <1>1, Inductive, PTL

\* StraysNeedOverlap: only two messages of one person at once leave a user
\* behind that the person's Telegram account does not lead to.
THEOREM StraysAreExplained ==
    ASSUME BotAssumption
    PROVE  Spec => []StraysNeedOverlap
<1>1. IInv => StraysNeedOverlap
  BY DEF IInv, Owned
<1>. QED
  BY <1>1, Inductive, PTL

\* TasksNeedFailures: a command creates at most one task more than deliveries
\* of its message have failed.
THEOREM TasksAreCounted ==
    ASSUME BotAssumption
    PROVE  Spec => []TasksNeedFailures
<1>1. ASSUME IInv, NEW u \in Updates
      PROVE  tasks[u] <= 1 + failed[u]
  <2>1. /\ tasks[u] + Wait(u) + Cardinality(Running(u)) <= 1 + failed[u]
        /\ tasks[u] \in Nat /\ failed[u] \in Nat
    BY <1>1 DEF IInv, Counted, TypeOK
  <2>2. Wait(u) \in Nat /\ Cardinality(Running(u)) \in Nat
    BY RunningFinite DEF Wait
  <2>. QED
    BY <2>1, <2>2
<1>2. IInv => TasksNeedFailures
  BY <1>1 DEF TasksNeedFailures
<1>. QED
  BY <1>2, Inductive, PTL

\* TasksNeedVerified: a command of the bot creates a task for the user of the
\* writer's Telegram account, and only when this user has a verified email.
THEOREM TasksAreVerified ==
    ASSUME BotAssumption
    PROVE  Spec => TasksNeedVerified
<1>. DEFINE Verified(u) ==
        \E h \in Handlers :
           /\ handler[h].phase = "verified" /\ handler[h].update = u
           /\ handler[h].user = owner[Person(h)]
           /\ \E e \in verified : owner[e] = handler[h].user
<1>1. ASSUME IInv, [Next]_vars, NEW u \in Updates, tasks'[u] # tasks[u]
      PROVE  Verified(u)
  <2>1. PICK h \in Handlers : RunCommand(h)
    BY <1>1 DEF Next, Step, Write, Deliver, Fail, GiveUp, Undo, RegisterUser, JoinChat, Insert,
       InsertFails, FindVerified, FindPending, FindEmail, BindEmail, IssueCode, CheckCode, Answer, vars
  <2>2. handler[h].phase = "verified" /\ handler[h].update = u
    BY <1>1, <2>1 DEF RunCommand, IInv, TypeOK
  <2>3. h \in Busy
    BY <2>2 DEF Busy, Idle
  <2>4. Seen(h)
    BY <1>1, <2>3 DEF IInv, LookedUp
  <2>. QED
    BY <2>2, <2>4 DEF Seen, Phase, User
<1>2. IInv /\ [Next]_vars => [\A u \in Updates : tasks'[u] # tasks[u] => Verified(u)]_vars
  BY <1>1
<1>. QED
  BY <1>2, Inductive, PTL DEF Spec, TasksNeedVerified

\* CodeIsAccepted: where the writer's user has one email, a valid code of it
\* is not refused as wrong.
THEOREM CodesAccepted ==
    ASSUME BotAssumption
    PROVE  Spec => CodeIsAccepted
<1>. DEFINE Refused(h) ==
        /\ handler[h].phase = "checking" /\ handler'[h].phase = "reply"
        /\ handler'[h].reply = "wrong"
        /\ \E e \in EmailsOf(handler[h].user) : code[e] # 0 /\ Guess(h) = code[e]
<1>1. ASSUME IInv, [Next]_vars, NEW h \in Handlers, Refused(h)
      PROVE  Cardinality(EmailsOf(handler[h].user)) > 1
  <2>. DEFINE u == handler[h].user
  <2>1. h \in Busy /\ handler[h] \in Deliveries
    BY <1>1, BusyTypes DEF Busy, Idle, IInv
  <2>2. Step(h)
    <3>1. handler'[h] # handler[h]
      BY <1>1
    <3>2. ~Fail(h)
      BY <1>1 DEF Fail, Undo, IInv, TypeOK, IdleHandler
    <3>3. ~GiveUp(h)
      BY <1>1, <2>1 DEF GiveUp, IInv, TypeOK, Deliveries
    <3>4. \A g \in Handlers \ {h} : ~(Step(g) \/ Fail(g) \/ GiveUp(g))
      BY <1>1, <3>1, OneActs DEF IInv
    <3>5. \A g \in Handlers, v \in Updates : ~Deliver(g, v)
      BY <1>1, <3>1 DEF Deliver, Idle, IInv, TypeOK
    <3>6. \A p \in Persons, t \in Texts : ~Write(p, t)
      BY <3>1 DEF Write
    <3>7. Next
      BY <1>1, <3>1 DEF vars
    <3>. QED
      BY <3>2, <3>3, <3>4, <3>5, <3>6, <3>7, SomeText DEF Next
  <2>3. PICK late \in BOOLEAN : CheckCode(h, late)
    BY <1>1, <2>2 DEF Step, RegisterUser, JoinChat, FindVerified, FindPending, FindEmail,
       BindEmail, IssueCode, RunCommand, Answer
  <2>4. code[handler[h].email] # Guess(h)
    <3>1. \A r \in Replies : Reply(h, r) => handler'[h].reply = r
      BY <1>1, <2>1 DEF Reply, IInv, TypeOK, Deliveries
    <3>2. ~Reply(h, "expired") /\ ~Reply(h, "right")
      BY <1>1, <3>1 DEF Replies
    <3>. QED
      BY <2>3, <3>2 DEF CheckCode
  <2>5. handler[h].email \in Emails /\ owner[handler[h].email] = u
    BY <1>1, <2>1 DEF IInv, LookedUp, Seen, Phase, User
  <2>6. PICK e \in EmailsOf(u) : Guess(h) = code[e]
    BY <1>1
  <2>7. {e, handler[h].email} \subseteq EmailsOf(u) /\ e # handler[h].email
    BY <2>4, <2>5, <2>6 DEF EmailsOf
  <2>8. IsFiniteSet(EmailsOf(u))
    BY FS_Subset DEF EmailsOf, BotAssumption
  <2>. QED
    BY <2>7, <2>8, TwoElements
<1>2. IInv /\ [Next]_vars =>
         [\A h \in Handlers : Refused(h) => Cardinality(EmailsOf(handler[h].user)) > 1]_vars
  BY <1>1
<1>. QED
  BY <1>2, Inductive, PTL DEF Spec, CodeIsAccepted
=============================================================================
