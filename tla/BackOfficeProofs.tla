-------------------------- MODULE BackOfficeProofs --------------------------
(***************************************************************************)
(* The claims of module BackOffice, for any threads, requests, prices and  *)
(* dialogs: what a profile edit may write back, how far the statistics may *)
(* be off, which revisions migrations get to and with which schema, that   *)
(* every wallet is the sum of its journal, and that the benchmark's report *)
(* is true.  The invariant has a part for each: what is still true of what *)
(* a transaction has read, the schema of each revision, what every entry   *)
(* of the journal is of, and where the script is.                          *)
(***************************************************************************)
EXTENDS BackOffice, FiniteSetTheorems, SequenceTheorems, WellFoundedInduction, TLAPS

\* The sessions of the three kinds of transactions
IsSeed(s) ==
    /\ DOMAIN s = {"kind", "phase", "absent", "debits", "balance"}
    /\ s.kind = "seed" /\ s.phase \in {"looked", "adding", "added", "debited"}
    /\ s.absent \subseteq Logins

IsEdit(s) ==
    /\ DOMAIN s = {"kind", "phase", "login", "named", "row", "writes", "raced"}
    /\ s.kind = "edit" /\ s.phase \in {"saving", "flushing"}
    /\ s.login \in Logins

IsStats(s) ==
    /\ DOMAIN s = {"kind", "counts"}
    /\ s.kind = "stats" /\ s.counts \in Seq(Nat) /\ Len(s.counts) <= 3

Shape(s) == s = NoSession \/ IsSeed(s) \/ IsEdit(s) \/ IsStats(s)

Shapes ==
    /\ DOMAIN session = Threads /\ \A t \in Threads : Shape(session[t])
    /\ DOMAIN account = Logins
    /\ \A l \in Logins : account[l] = NoAccount \/ Fields \subseteq DOMAIN account[l]

\* The rows of a script that are flushed are nobody else's.
Holds(s, login) ==
    s.kind = "seed" /\ s.phase \in {"added", "debited"} /\ login \in s.absent

Seeds ==
    \A t \in Threads, l \in Logins :
        Holds(session[t], l) =>
            account[l] = NoAccount /\ \A o \in Threads \ {t} : ~Holds(session[o], l)

\* Unless an edit was committed in between, what an edit has read is still so,
\* and what it writes is what its client named.
Unraced(s) ==
    s.kind = "edit" =>
        /\ account[s.login] # NoAccount
        /\ s.phase = "saving" /\ ~s.raced =>
              \A f \in Fields \ s.named : s.row[f] = account[s.login][f]
        /\ s.phase = "flushing" /\ ~s.raced => \A f \in Fields \ s.named : f \notin s.writes

Edits == \A t \in Threads : Unraced(session[t])

EInv == Shapes /\ Seeds /\ Edits

----------------------------------------------------------------------------
(* Sessions                                                                *)

Puts(t, s) == session' = [session EXCEPT ![t] = s]

LEMMA PutOne ==
    ASSUME Shapes, NEW t \in Threads, NEW s, Puts(t, s)
    PROVE  /\ DOMAIN session' = Threads /\ session'[t] = s
           /\ \A o \in Threads \ {t} : session'[o] = session[o]
  BY DEF Puts, Shapes

LEMMA SeedIsFlushed ==
    ASSUME NEW t, NEW l
    PROVE  Flushed(t, l) <=> Holds(session[t], l)
  BY DEF Flushed, Holds

\* A session that goes on, while the accounts stay
LEMMA PutKeeps ==
    ASSUME EInv, NEW t \in Threads, NEW s, Puts(t, s), UNCHANGED account,
           Shape(s), Unraced(s),
           \A l \in Logins : Holds(s, l) =>
               \/ Holds(session[t], l)
               \/ account[l] = NoAccount /\ \A o \in Threads \ {t} : ~Holds(session[o], l)
    PROVE  EInv'
<1>1. /\ DOMAIN session' = Threads /\ session'[t] = s
      /\ \A o \in Threads \ {t} : session'[o] = session[o]
  BY PutOne DEF EInv
<1>2. Shapes'
  BY <1>1 DEF EInv, Shapes, Shape, IsSeed, IsEdit, IsStats, NoSession
<1>3. Seeds'
  BY <1>1 DEF EInv, Seeds
<1>4. Edits'
  BY <1>1 DEF EInv, Edits, Unraced
<1>. QED
  BY <1>2, <1>3, <1>4 DEF EInv

\* A session that ends
LEMMA CloseKeeps ==
    ASSUME EInv, NEW t \in Threads, Close(t), UNCHANGED account
    PROVE  EInv'
<1>1. Puts(t, NoSession)
  BY DEF Close, Puts
<1>2. Shape(NoSession) /\ Unraced(NoSession) /\ \A l \in Logins : ~Holds(NoSession, l)
  BY DEF Shape, Unraced, Holds, NoSession
<1>. QED
  BY <1>1, <1>2, PutKeeps

LEMMA OpenKeeps ==
    ASSUME EInv, NEW t \in Threads, NEW s, Open(t, s), UNCHANGED account,
           Shape(s), Unraced(s), \A l \in Logins : ~Holds(s, l)
    PROVE  EInv'
  BY PutKeeps DEF Open, Puts

LEMMA StillKeeps ==
    ASSUME EInv, UNCHANGED <<session, account>>
    PROVE  EInv'
  BY DEF EInv, Shapes, Seeds, Edits, Unraced, Shape, IsSeed, IsEdit, IsStats, Holds

----------------------------------------------------------------------------
(* The seed script                                                         *)

LEMMA SeedStarts ==
    ASSUME EInv, NEW t \in Threads, StartSeed(t)
    PROVE  EInv'
<1>. DEFINE s == [kind |-> "seed", phase |-> "looked", absent |-> Absent("user"),
                  debits |-> FALSE, balance |-> 0]
<1>1. Open(t, s) /\ UNCHANGED account
  BY DEF StartSeed, rows
<1>2. IsSeed(s) /\ s.kind = "seed" /\ s.phase = "looked"
  BY DEF IsSeed, Absent, Logins
<1>. HIDE DEF s
<1>3. Shape(s) /\ Unraced(s) /\ \A l \in Logins : ~Holds(s, l)
  BY <1>2 DEF Shape, Unraced, Holds
<1>. QED
  BY <1>1, <1>3, OpenKeeps

\* Each step of the script, with what it holds
LEMMA SeedGoesOn ==
    ASSUME EInv, NEW t \in Threads, LookForAdmin(t) \/ AddUsers(t) \/ DebitAdmin(t)
    PROVE  EInv'
<1>1. IsSeed(session[t])
  BY DEF EInv, Shapes, Shape, IsEdit, IsStats, NoSession, LookForAdmin, AddUsers, DebitAdmin, Seeding
<1>2. UNCHANGED account
  BY DEF LookForAdmin, AddUsers, DebitAdmin, rows
<1>3. ASSUME NEW s, Puts(t, s), IsSeed(s),
             \A l \in Logins : Holds(s, l) =>
                 \/ Holds(session[t], l)
                 \/ account[l] = NoAccount /\ \A o \in Threads \ {t} : ~Holds(session[o], l)
      PROVE  EInv'
  BY <1>2, <1>3, PutKeeps DEF Shape, Unraced, IsSeed
<1>4. CASE LookForAdmin(t)
  <2>. DEFINE s == [session[t] EXCEPT !.phase = "adding", !.absent = @ \cup Absent("admin")]
  <2>1. Puts(t, s)
    BY <1>4 DEF LookForAdmin, Puts, EInv, Shapes
  <2>2. IsSeed(s) /\ s.phase = "adding"
    BY <1>1 DEF IsSeed, Absent, Logins
  <2>. HIDE DEF s
  <2>. QED
    BY <1>3, <2>1, <2>2 DEF Holds
<1>5. CASE AddUsers(t)
  <2>1. CASE Close(t)
    BY <1>2, <2>1, CloseKeeps
  <2>2. CASE /\ session' = [session EXCEPT ![t].phase = "added"]
             /\ \A l \in session[t].absent : account[l] = NoAccount
    <3>. DEFINE s == [session[t] EXCEPT !.phase = "added"]
    <3>1. Puts(t, s)
      BY <2>2 DEF Puts
    <3>2. IsSeed(s) /\ s.absent = session[t].absent
      BY <1>1 DEF IsSeed
    <3>. HIDE DEF s
    <3>3. \A o \in Threads \ {t}, l \in session[t].absent : ~Holds(session[o], l)
      BY <1>5, SeedIsFlushed DEF AddUsers
    <3>. QED
      BY <1>3, <2>2, <3>1, <3>2, <3>3 DEF Holds
  <2>. QED
    BY <1>5, <2>1, <2>2 DEF AddUsers
<1>6. CASE DebitAdmin(t)
  <2>1. PICK d, b : session' = [session EXCEPT ![t].phase = "debited", ![t].debits = d, ![t].balance = b]
    BY <1>6 DEF DebitAdmin
  <2>. DEFINE s == [session[t] EXCEPT !.phase = "debited", !.debits = d, !.balance = b]
  <2>2. Puts(t, s)
    BY <2>1 DEF Puts, EInv, Shapes
  <2>3. IsSeed(s) /\ s.absent = session[t].absent
    BY <1>1 DEF IsSeed
  <2>. HIDE DEF s
  <2>4. session[t].phase = "added" /\ session[t].kind = "seed"
    BY <1>6 DEF DebitAdmin, Seeding
  <2>. QED
    BY <1>3, <2>2, <2>3, <2>4 DEF Holds
<1>. QED
  BY <1>4, <1>5, <1>6

\* An account that appears belongs to no edit and to no other script.
LEMMA NewAccounts ==
    ASSUME EInv, NEW t \in Threads, Close(t) \/ UNCHANGED session, NEW new \in SUBSET Logins,
           DOMAIN account' = Logins,
           \A l \in new : /\ account[l] = NoAccount /\ Fields \subseteq DOMAIN account'[l]
                          /\ \A o \in Threads : Holds(session[o], l) => o = t /\ Close(t),
           \A l \in Logins \ new : account'[l] = account[l]
    PROVE  EInv'
<1>1. /\ DOMAIN session' = Threads
      /\ \A o \in Threads : session'[o] = session[o] \/ (o = t /\ session'[o] = NoSession)
      /\ Close(t) => session'[t] = NoSession
  BY DEF Close, EInv, Shapes
<1>2. \A l \in Logins : account[l] # NoAccount => account'[l] = account[l]
  OBVIOUS
<1>3. Shapes'
  <2>1. \A o \in Threads : Shape(session'[o])
    BY <1>1 DEF EInv, Shapes, Shape
  <2>2. \A o \in Threads : Shape(session[o])'
    BY <2>1 DEF Shape, IsSeed, IsEdit, IsStats, NoSession
  <2>. QED
    BY <1>1, <2>2 DEF EInv, Shapes
<1>4. Seeds'
  BY <1>1 DEF EInv, Seeds, Holds, NoSession
<1>5. Edits'
  <2>1. ASSUME NEW o \in Threads, session'[o].kind = "edit"
        PROVE  session'[o] = session[o] /\ session[o].login \in Logins
    BY <1>1, <2>1 DEF EInv, Shapes, Shape, IsSeed, IsEdit, IsStats, NoSession
  <2>. QED
    BY <1>2, <2>1 DEF EInv, Edits, Unraced
<1>. QED
  BY <1>3, <1>4, <1>5 DEF EInv

LEMMA SeedCommits ==
    ASSUME EInv, NEW t \in Threads, CommitSeed(t)
    PROVE  EInv' /\ \A l \in Logins : account[l] # NoAccount => account'[l] = account[l]
<1>1. IsSeed(session[t]) /\ session[t].phase = "debited"
  BY DEF EInv, Shapes, Shape, IsSeed, IsEdit, IsStats, NoSession, CommitSeed, Seeding
<1>. DEFINE new == session[t].absent
<1>2. /\ account' = [l \in Logins |-> IF l \in new THEN Seeded(l) ELSE account[l]]
      /\ Close(t)
  BY DEF CommitSeed
<1>3. \A l \in new : l \in Logins /\ Holds(session[t], l)
  BY <1>1 DEF IsSeed, Holds
<1>4. \A l \in new : account[l] = NoAccount /\ \A o \in Threads \ {t} : ~Holds(session[o], l)
  BY <1>3 DEF EInv, Seeds
<1>5. \A l : Fields \subseteq DOMAIN Seeded(l)
  BY DEF Seeded, Fields
<1>6. new \in SUBSET Logins
  BY <1>3
<1>. HIDE DEF new
<1>7. /\ DOMAIN account' = Logins
      /\ \A l \in new : account'[l] = Seeded(l)
      /\ \A l \in Logins \ new : account'[l] = account[l]
  BY <1>2, <1>6
<1>8. EInv'
  BY <1>2, <1>4, <1>5, <1>6, <1>7, NewAccounts
<1>. QED
  BY <1>4, <1>7, <1>8

----------------------------------------------------------------------------
(* Edits                                                                   *)

LEMMA EditStarts ==
    ASSUME EInv, NEW t \in Threads, NEW l \in Logins, NEW r \in Requests, StartEdit(t, l, r)
    PROVE  EInv'
<1>. DEFINE s == [kind  |-> "edit", phase |-> "saving", login |-> l,
                  named |-> DOMAIN r,
                  row   |-> [f \in Fields |-> IF f \in DOMAIN r THEN r[f] ELSE account[l][f]],
                  writes |-> {}, raced |-> FALSE]
<1>1. Open(t, s) /\ UNCHANGED account /\ account[l] # NoAccount
  BY DEF StartEdit, rows
<1>2. IsEdit(s) /\ s.phase = "saving" /\ s.login = l
  BY DEF IsEdit
<1>3. \A f \in Fields \ s.named : s.row[f] = account[l][f]
  OBVIOUS
<1>. HIDE DEF s
<1>4. Shape(s) /\ Unraced(s) /\ \A k \in Logins : ~Holds(s, k)
  BY <1>1, <1>2, <1>3 DEF Shape, Unraced, Holds, IsEdit
<1>. QED
  BY <1>1, <1>4, OpenKeeps

LEMMA EditSaves ==
    ASSUME EInv, NEW t \in Threads, Save(t)
    PROVE  EInv'
<1>. DEFINE w == {f \in Fields : session[t].row[f] # account[session[t].login][f]}
            s == [session[t] EXCEPT !.phase = "flushing", !.writes = w]
<1>1. IsEdit(session[t]) /\ session[t].phase = "saving" /\ Unraced(session[t])
  BY DEF EInv, Shapes, Shape, IsSeed, IsEdit, IsStats, NoSession, Save, Editing, Edits
<1>2. Puts(t, s) /\ UNCHANGED account
  <2>1. session' = [session EXCEPT ![t].phase = "flushing", ![t].writes = w]
    BY DEF Save
  <2>. HIDE DEF w
  <2>. QED
    BY <2>1 DEF Save, Puts, EInv, Shapes, rows
<1>3. \A f \in Fields : f \in w => session[t].row[f] # account[session[t].login][f]
  OBVIOUS
<1>. HIDE DEF w
<1>4. /\ IsEdit(s) /\ s.phase = "flushing" /\ s.writes = w
      /\ s.login = session[t].login /\ s.named = session[t].named /\ s.raced = session[t].raced
  BY <1>1 DEF IsEdit
<1>. HIDE DEF s
<1>5. Unraced(s)
  BY <1>1, <1>3, <1>4 DEF Unraced, IsEdit
<1>6. Shape(s) /\ \A l \in Logins : ~Holds(s, l)
  BY <1>4 DEF Shape, Holds, IsEdit
<1>. QED
  BY <1>2, <1>5, <1>6, PutKeeps

\* The other edits of the user are marked; those of other users read the same.
LEMMA EditCommits ==
    ASSUME EInv, NEW t \in Threads, CommitEdit(t)
    PROVE  EInv'
<1>. DEFINE s == session[t]
            row == [f \in DOMAIN account[s.login] |-> IF f \in s.writes THEN s.row[f]
                                                      ELSE account[s.login][f]]
<1>1. IsEdit(s) /\ s.phase = "flushing" /\ account[s.login] # NoAccount
  BY DEF EInv, Shapes, Shape, IsSeed, IsEdit, IsStats, NoSession, CommitEdit, Editing, Edits, Unraced
<1>2. /\ account' = [account EXCEPT ![s.login] = row]
      /\ session' = [o \in Threads |->
             IF o = t THEN NoSession
             ELSE IF Editing(o, "saving") /\ session[o].login = s.login
             THEN [session[o] EXCEPT !.raced = TRUE] ELSE session[o]]
  BY DEF CommitEdit
<1>3. Fields \subseteq DOMAIN row /\ s.login \in Logins
  BY <1>1 DEF EInv, Shapes, IsEdit
<1>. HIDE DEF row
<1>4. /\ DOMAIN account' = Logins /\ account'[s.login] = row
      /\ \A l \in Logins \ {s.login} : account'[l] = account[l]
  BY <1>2, <1>3 DEF EInv, Shapes
<1>5. row # NoAccount
  BY <1>3 DEF NoAccount, Fields
<1>6. ASSUME NEW o \in Threads
      PROVE  \/ session'[o] = NoSession
             \/ /\ session'[o] = session[o]
                /\ ~(session[o].kind = "edit" /\ session[o].phase = "saving" /\ session[o].login = s.login)
             \/ /\ IsEdit(session[o]) /\ IsEdit(session'[o])
                /\ session'[o].login = session[o].login
                /\ session'[o].phase = "saving" /\ session'[o].raced = TRUE
  <2>1. ASSUME Editing(o, "saving"), session'[o] = [session[o] EXCEPT !.raced = TRUE]
        PROVE  /\ IsEdit(session[o]) /\ IsEdit(session'[o])
               /\ session'[o].login = session[o].login
               /\ session'[o].phase = "saving" /\ session'[o].raced = TRUE
    BY <2>1 DEF EInv, Shapes, Shape, IsSeed, IsEdit, IsStats, NoSession, Editing
  <2>. QED
    BY <1>2, <2>1 DEF Editing
<1>7. Shapes'
  <2>1. \A o \in Threads : Shape(session'[o])
    BY <1>6 DEF EInv, Shapes, Shape
  <2>2. \A o \in Threads : Shape(session[o])'
    BY <2>1 DEF Shape, IsSeed, IsEdit, IsStats, NoSession
  <2>3. DOMAIN session' = Threads
    BY <1>2
  <2>4. \A l \in Logins : account'[l] = NoAccount \/ Fields \subseteq DOMAIN account'[l]
    BY <1>3, <1>4 DEF EInv, Shapes
  <2>. QED
    BY <1>4, <2>2, <2>3, <2>4 DEF Shapes
<1>8. Seeds'
  <2>1. \A o \in Threads, l \in Logins : Holds(session'[o], l) => Holds(session[o], l)
    <3>1. ASSUME NEW o \in Threads
          PROVE  session'[o] = session[o] \/ session'[o].kind # "seed"
      <4>1. NoSession.kind # "seed"
        BY DEF NoSession
      <4>2. IsEdit(session'[o]) => session'[o].kind # "seed"
        BY DEF IsEdit
      <4>. QED
        BY <1>6, <4>1, <4>2
    <3>. QED
      BY <3>1 DEF Holds
  <2>2. \A l \in Logins : account[l] = NoAccount => account'[l] = NoAccount
    BY <1>1, <1>4
  <2>. QED
    BY <2>1, <2>2 DEF EInv, Seeds, Holds
<1>9. Edits'
  <2>1. ASSUME NEW o \in Threads
        PROVE  Unraced(session[o])'
    <3>1. CASE session'[o] = NoSession
      BY <3>1 DEF Unraced, NoSession
    <3>2. CASE /\ session'[o] = session[o]
               /\ ~(session[o].kind = "edit" /\ session[o].phase = "saving" /\ session[o].login = s.login)
      <4>1. session[o].kind = "edit" => session[o].login \in Logins
        BY DEF EInv, Shapes, Shape, IsSeed, IsEdit, IsStats, NoSession
      <4>. QED
        BY <1>4, <1>5, <3>2, <4>1 DEF EInv, Edits, Unraced
    <3>3. CASE /\ IsEdit(session[o]) /\ IsEdit(session'[o])
               /\ session'[o].login = session[o].login
               /\ session'[o].phase = "saving" /\ session'[o].raced = TRUE
      <4>1. account[session[o].login] # NoAccount /\ session[o].login \in Logins
        BY <3>3 DEF EInv, Edits, Unraced, IsEdit
      <4>. QED
        BY <1>4, <1>5, <3>3, <4>1 DEF Unraced
    <3>. QED
      BY <1>6, <3>1, <3>2, <3>3
  <2>. QED
    BY <2>1 DEF Edits
<1>. QED
  BY <1>7, <1>8, <1>9 DEF EInv

----------------------------------------------------------------------------
(* The other steps                                                         *)

LEMMA StatsKeep ==
    ASSUME EInv, NEW t \in Threads, StartStats(t) \/ RunQuery(t), \A i \in Nat : Count(i) \in Nat
    PROVE  EInv'
<1>1. CASE StartStats(t)
  <2>. DEFINE s == [kind |-> "stats", counts |-> <<>>]
  <2>1. Open(t, s) /\ UNCHANGED account
    BY <1>1 DEF StartStats, rows
  <2>2. IsStats(s)
    BY DEF IsStats
  <2>. HIDE DEF s
  <2>3. Shape(s) /\ Unraced(s) /\ \A l \in Logins : ~Holds(s, l)
    BY <2>2 DEF Shape, Unraced, Holds, IsStats
  <2>. QED
    BY <2>1, <2>3, OpenKeeps
<1>2. CASE RunQuery(t)
  <2>. DEFINE c == session[t].counts
              n == Count(Len(c) + 1)
              s == [session[t] EXCEPT !.counts = Append(c, n)]
  <2>1. /\ IsStats(session[t]) /\ Len(c) < 3 /\ UNCHANGED account
    BY <1>2 DEF EInv, Shapes, Shape, IsSeed, IsEdit, NoSession, RunQuery, Queries, rows
  <2>2. n \in Nat /\ c \in Seq(Nat)
    BY <2>1 DEF IsStats
  <2>3. Puts(t, s)
    BY <1>2 DEF RunQuery, Puts, EInv, Shapes
  <2>. HIDE DEF n
  <2>4. IsStats(s)
    BY <2>1, <2>2 DEF IsStats
  <2>. HIDE DEF s
  <2>5. Shape(s) /\ Unraced(s) /\ \A l \in Logins : ~Holds(s, l)
    BY <2>4 DEF Shape, Unraced, Holds, IsStats
  <2>. QED
    BY <2>1, <2>3, <2>5, PutKeeps
<1>. QED
  BY <1>1, <1>2

LEMMA RegisterKeeps ==
    ASSUME EInv, NEW l \in Logins, Register(l)
    PROVE  EInv'
<1>. DEFINE a == [by |-> "person", allow |-> FALSE, name |-> "own", role |-> "user"]
<1>1. account' = [account EXCEPT ![l] = a] /\ account[l] = NoAccount /\ UNCHANGED session
  BY DEF Register
<1>2. Fields \subseteq DOMAIN a
  BY DEF Fields
<1>. HIDE DEF a
<1>3. /\ DOMAIN account' = Logins /\ account'[l] = a
      /\ \A k \in Logins \ {l} : account'[k] = account[k]
  BY <1>1 DEF EInv, Shapes
<1>4. \A t \in Threads : ~Holds(session[t], l)
  BY SeedIsFlushed DEF Register
<1>5. CASE \E t \in Threads : TRUE
  <2>1. PICK t \in Threads : TRUE
    BY <1>5
  <2>. DEFINE new == {l}
  <2>2. /\ new \in SUBSET Logins
        /\ \A k \in new : /\ account[k] = NoAccount /\ Fields \subseteq DOMAIN account'[k]
                          /\ \A o \in Threads : Holds(session[o], k) => o = t /\ Close(t)
        /\ \A k \in Logins \ new : account'[k] = account[k]
    BY <1>1, <1>2, <1>3, <1>4
  <2>. HIDE DEF new
  <2>. QED
    BY <1>1, <1>3, <2>2, NewAccounts
<1>6. CASE ~\E t \in Threads : TRUE
  BY <1>1, <1>2, <1>3, <1>6 DEF EInv, Shapes, Seeds, Edits
<1>. QED
  BY <1>5, <1>6

\* A migration keeps the users or drops their table.
LEMMA MigrateKeeps ==
    ASSUME EInv, NEW to, Migrate(to)
    PROVE  EInv' /\ (account' = account \/ \A l \in Logins : account'[l] = NoAccount)
<1>1. /\ \A t \in Threads : session[t] = NoSession
      /\ account' = account \/ account' = [l \in Logins |-> NoAccount]
      /\ UNCHANGED session
  BY Zenon DEF Migrate
<1>2. Shapes'
  BY <1>1 DEF EInv, Shapes, Shape
<1>3. Seeds' /\ Edits'
  BY <1>1 DEF Seeds, Edits, Holds, Unraced, NoSession
<1>. QED
  BY <1>1, <1>2, <1>3 DEF EInv

----------------------------------------------------------------------------
(* Tasks and statistics                                                    *)

Pending == {j \in Tasks : task[j] = "pending"}
Completed == {j \in Tasks : task[j] = "completed"}

\* What the queries that were run have counted, against the tasks of now
Covered(s) ==
    s.kind = "stats" =>
        LET n == s.counts IN
        /\ Len(n) = 1 => n[1] <= Cardinality(Pending) + Cardinality(Completed)
        /\ Len(n) = 2 => n[1] <= n[2] + Cardinality(Completed)
        /\ Len(n) = 3 => n[1] <= n[2] + n[3]

\* The script has a row for each task that it has still to post.
Posting ==
    /\ DOMAIN bench = {"phase", "at", "rows", "slow"} /\ bench.at \in Nat
    /\ bench.phase \in {"login", "model", "posting"} =>
          \A j \in Tasks : j >= bench.at => task[j] = "none"

TInv ==
    /\ DOMAIN task = Tasks /\ \A j \in Tasks : task[j] \in {"none", "pending", "completed"}
    /\ Posting
    /\ \A t \in Threads : Covered(session[t])

LEMMA TasksFinite ==
    ASSUME DatabaseAssumption
    PROVE  /\ IsFiniteSet(Pending) /\ IsFiniteSet(Completed)
           /\ Cardinality(Pending) \in Nat /\ Cardinality(Completed) \in Nat
           /\ \A i \in Nat : Count(i) \in Nat
<1>1. \A S \in SUBSET Tasks : IsFiniteSet(S) /\ Cardinality(S) \in Nat
  BY FS_Subset, FS_CardinalityType DEF DatabaseAssumption
<1>2. Pending \in SUBSET Tasks /\ Completed \in SUBSET Tasks
  BY DEF Pending, Completed
<1>3. \A i \in Nat : Count(i) \in Nat
  BY <1>1 DEF Count
<1>. QED
  BY <1>1, <1>2, <1>3

\* The members of two sets that share none
LEMMA Disjoint ==
    ASSUME NEW S, NEW T, IsFiniteSet(S), IsFiniteSet(T), S \cap T = {}
    PROVE  /\ IsFiniteSet(S \cup T)
           /\ Cardinality(S \cup T) = Cardinality(S) + Cardinality(T)
<1>1. Cardinality({}) = 0
  BY FS_EmptySet
<1>2. Cardinality(S) \in Nat /\ Cardinality(T) \in Nat
  BY FS_CardinalityType
<1>3. /\ IsFiniteSet(S \cup T)
      /\ Cardinality(S \cup T) = Cardinality(S) + Cardinality(T) - Cardinality(S \cap T)
  BY FS_Union
<1>4. Cardinality(S \cap T) = 0
  BY <1>1
<1>. QED
  BY <1>2, <1>3, <1>4

\* What each query counts
LEMMA Counts ==
    ASSUME DatabaseAssumption, TInv
    PROVE  /\ Count(1) = Cardinality(Pending) + Cardinality(Completed)
           /\ Count(2) = Cardinality(Pending) /\ Count(3) = Cardinality(Completed)
<1>1. Queries[1] = "all" /\ Queries[2] = "pending" /\ Queries[3] = "completed"
  BY DEF Queries
<1>2. {j \in Tasks : \/ Queries[1] = "all" /\ task[j] # "none"
                     \/ Queries[1] = task[j]} = Pending \cup Completed
  BY <1>1 DEF TInv, Pending, Completed
<1>3. {j \in Tasks : \/ Queries[2] = "all" /\ task[j] # "none"
                     \/ Queries[2] = task[j]} = Pending
  BY <1>1 DEF Pending
<1>4. {j \in Tasks : \/ Queries[3] = "all" /\ task[j] # "none"
                     \/ Queries[3] = task[j]} = Completed
  BY <1>1 DEF Completed
<1>5. Pending \cap Completed = {}
  BY DEF Pending, Completed
<1>6. Cardinality(Pending \cup Completed) = Cardinality(Pending) + Cardinality(Completed)
  BY <1>5, TasksFinite, Disjoint
<1>. QED
  BY <1>2, <1>3, <1>4, <1>6 DEF Count

\* Tasks are created and completed, never forgotten, while a session is open.
Onwards ==
    \A j \in Tasks :
        \/ task'[j] = task[j]
        \/ task[j] = "none" /\ task'[j] = "pending"
        \/ task[j] = "pending" /\ task'[j] = "completed"

LEMMA OnwardsCounts ==
    ASSUME DatabaseAssumption, TInv, Onwards
    PROVE  /\ Cardinality(Completed) <= Cardinality(Completed')
           /\ Cardinality(Pending) + Cardinality(Completed)
                <= Cardinality(Pending') + Cardinality(Completed')
           /\ Cardinality(Pending') \in Nat /\ Cardinality(Completed') \in Nat
<1>1. /\ Pending' \subseteq Tasks /\ Completed' \subseteq Tasks
      /\ Completed \subseteq Completed' /\ Pending \cup Completed \subseteq Pending' \cup Completed'
      /\ Pending \cap Completed = {} /\ Pending' \cap Completed' = {}
  BY DEF Pending, Completed, Onwards
<1>2. /\ IsFiniteSet(Pending') /\ IsFiniteSet(Completed')
      /\ Cardinality(Pending') \in Nat /\ Cardinality(Completed') \in Nat
  BY <1>1, FS_Subset, FS_CardinalityType DEF DatabaseAssumption
<1>3. /\ Cardinality(Pending \cup Completed) = Cardinality(Pending) + Cardinality(Completed)
      /\ Cardinality(Pending' \cup Completed') = Cardinality(Pending') + Cardinality(Completed')
      /\ IsFiniteSet(Pending' \cup Completed')
  BY <1>1, <1>2, TasksFinite, Disjoint
<1>4. /\ Cardinality(Completed) <= Cardinality(Completed')
      /\ Cardinality(Pending \cup Completed) <= Cardinality(Pending' \cup Completed')
  BY <1>1, <1>2, <1>3, FS_Subset
<1>. QED
  BY <1>2, <1>3, <1>4

\* What has been counted is covered as tasks go on.
LEMMA StaysCovered ==
    ASSUME DatabaseAssumption, TInv, Onwards, NEW s, Shape(s), Covered(s)
    PROVE  Covered(s)'
<1>1. CASE s.kind # "stats"
  BY <1>1 DEF Covered
<1>2. CASE s.kind = "stats"
  <2>. DEFINE n == s.counts
  <2>1. n \in Seq(Nat)
    BY <1>2 DEF Shape, IsSeed, IsEdit, IsStats, NoSession
  <2>2. /\ Len(n) >= 1 => n[1] \in Nat
        /\ Len(n) >= 2 => n[2] \in Nat
    BY <2>1
  <2>3. /\ Len(n) = 1 => n[1] <= Cardinality(Pending) + Cardinality(Completed)
        /\ Len(n) = 2 => n[1] <= n[2] + Cardinality(Completed)
        /\ Len(n) = 3 => n[1] <= n[2] + n[3]
    BY <1>2 DEF Covered
  <2>. HIDE DEF n
  <2>4. /\ Len(n) = 1 => n[1] <= Cardinality(Pending') + Cardinality(Completed')
        /\ Len(n) = 2 => n[1] <= n[2] + Cardinality(Completed')
    <3>1. /\ Cardinality(Pending) \in Nat /\ Cardinality(Completed) \in Nat
          /\ Cardinality(Pending') \in Nat /\ Cardinality(Completed') \in Nat
          /\ Cardinality(Completed) <= Cardinality(Completed')
          /\ Cardinality(Pending) + Cardinality(Completed)
               <= Cardinality(Pending') + Cardinality(Completed')
      BY OnwardsCounts, TasksFinite
    <3>2. CASE Len(n) = 1
      BY <2>2, <2>3, <3>1, <3>2
    <3>3. CASE Len(n) = 2
      BY <2>2, <2>3, <3>1, <3>3
    <3>. QED
      BY <3>2, <3>3
  <2>. QED
    BY <1>2, <2>3, <2>4 DEF Covered, n
<1>. QED
  BY <1>1, <1>2

\* The next query covers what was counted before it.
LEMMA QueryCovers ==
    ASSUME DatabaseAssumption, TInv, EInv, NEW t \in Threads, RunQuery(t)
    PROVE  Covered(session'[t])
<1>. DEFINE c == session[t].counts
            n == Count(Len(c) + 1)
<1>1. IsStats(session[t]) /\ Len(c) < 3 /\ Covered(session[t])
  <2>1. session[t].kind = "stats" /\ Len(c) < 3
    BY DEF RunQuery, Queries
  <2>. QED
    BY <2>1 DEF EInv, Shapes, Shape, IsSeed, IsEdit, NoSession, TInv
<1>2. c \in Seq(Nat) /\ n \in Nat /\ Len(c) \in Nat /\ (Len(c) = 0 \/ Len(c) = 1 \/ Len(c) = 2)
  <2>1. c \in Seq(Nat)
    BY <1>1 DEF IsStats
  <2>2. Len(c) \in Nat /\ Len(c) + 1 \in Nat /\ (Len(c) = 0 \/ Len(c) = 1 \/ Len(c) = 2)
    <3>1. \A m \in Nat : m < 3 => m = 0 \/ m = 1 \/ m = 2
      OBVIOUS
    <3>2. Len(c) \in Nat /\ Len(c) + 1 \in Nat
      BY <2>1
    <3>. QED
      BY <1>1, <3>1, <3>2
  <2>. QED
    BY <2>1, <2>2, TasksFinite
<1>3. session'[t].kind = "stats" /\ session'[t].counts = Append(c, n)
  <2>1. session' = [session EXCEPT ![t].counts = Append(c, n)]
    BY DEF RunQuery
  <2>. HIDE DEF n
  <2>. QED
    BY <1>1, <2>1 DEF IsStats, EInv, Shapes
<1>4. /\ Len(c) = 0 => n = Cardinality(Pending) + Cardinality(Completed)
      /\ Len(c) = 1 => n = Cardinality(Pending)
      /\ Len(c) = 2 => n = Cardinality(Completed)
  <2>1. \A k \in {0, 1, 2} : Len(c) = k => n = Count(k + 1)
    OBVIOUS
  <2>2. 0 + 1 = 1 /\ 1 + 1 = 2 /\ 2 + 1 = 3
    OBVIOUS
  <2>. HIDE DEF n, c
  <2>. QED
    BY <2>1, <2>2, Counts
<1>5. /\ Len(c) = 1 => c[1] <= Cardinality(Pending) + Cardinality(Completed)
      /\ Len(c) = 2 => c[1] <= c[2] + Cardinality(Completed)
  BY <1>1 DEF Covered, IsStats
<1>6. /\ Len(Append(c, n)) = Len(c) + 1 /\ Append(c, n)[Len(c) + 1] = n
      /\ \A i \in 1 .. Len(c) : Append(c, n)[i] = c[i]
  BY <1>2
<1>. HIDE DEF n, c
<1>7. LET d == Append(c, n) IN
      /\ Len(d) = 1 => d[1] <= Cardinality(Pending) + Cardinality(Completed)
      /\ Len(d) = 2 => d[1] <= d[2] + Cardinality(Completed)
      /\ Len(d) = 3 => d[1] <= d[2] + d[3]
  <2>1. CASE Len(c) = 0
    BY <1>2, <1>4, <1>6, <2>1, TasksFinite
  <2>2. CASE Len(c) = 1
    BY <1>2, <1>4, <1>5, <1>6, <2>2, TasksFinite
  <2>3. CASE Len(c) = 2
    <3>1. /\ Len(Append(c, n)) = 3 /\ Append(c, n)[3] = Cardinality(Completed)
          /\ Append(c, n)[1] = c[1] /\ Append(c, n)[2] = c[2]
      BY <1>4, <1>6, <2>3
    <3>2. c[1] <= c[2] + Cardinality(Completed)
      BY <1>5, <2>3
    <3>. QED
      BY <3>1, <3>2
  <2>. QED
    BY <1>2, <2>1, <2>2, <2>3
<1>. QED
  BY <1>3, <1>7 DEF Covered

----------------------------------------------------------------------------
(* Folds and sums                                                          *)

\* A set of naturals has a least member.
LEMMA LeastNatural ==
    ASSUME NEW S \in SUBSET Nat, S # {}
    PROVE  \E n \in S : \A m \in S : n <= m
<1>. DEFINE R == OpToRel(<, Nat)
<1>1. IsWellFoundedOn(R, Nat)
  BY NatLessThanWellFounded
<1>. HIDE DEF R
<1>2. PICK n \in S : \A m \in S : <<m, n>> \notin R
  BY <1>1, WFMin
<1>3. ASSUME NEW m \in S, m < n
      PROVE  FALSE
  <2>1. <<m, n>> \in R
    BY <1>3 DEF R, OpToRel
  <2>. QED
    BY <1>2, <2>1
<1>4. \A m \in S : m \in Nat /\ n \in Nat /\ ~(m < n)
  BY <1>3
<1>. QED
  BY <1>4

\* A recursive definition over the subsets of a finite set has a solution.
Folds(f, S, base, pick, op) ==
    f = [s \in SUBSET S |-> IF s = {} THEN base ELSE op[s][f[s \ {pick[s]}]]]

LEMMA FoldExists ==
    ASSUME NEW S, IsFiniteSet(S), NEW V, NEW base \in V, NEW pick, NEW op,
           \A s \in (SUBSET S) \ {{}} : pick[s] \in s,
           \A s \in (SUBSET S) \ {{}}, v \in V : op[s][v] \in V
    PROVE  \E f \in [SUBSET S -> V] : Folds(f, S, base, pick, op)
<1>. DEFINE Upto(n) == {s \in SUBSET S : Cardinality(s) <= n}
            Is(g, n) == /\ g \in [Upto(n) -> V]
                        /\ g = [s \in Upto(n) |-> IF s = {} THEN base ELSE op[s][g[s \ {pick[s]}]]]
            Bad == {n \in Nat : ~\E g : Is(g, n)}
<1>1. \A s \in SUBSET S : /\ Cardinality(s) \in Nat
                          /\ s # {} => Cardinality(s \ {pick[s]}) = Cardinality(s) - 1
                          /\ Cardinality(s) = 0 => s = {}
  BY FS_Subset, FS_CardinalityType, FS_RemoveElement, FS_EmptySet
<1>2. Bad = {}
  <2>. SUFFICES ASSUME Bad # {} PROVE FALSE
    OBVIOUS
  <2>1. PICK n \in Nat : n \in Bad /\ \A m \in Bad : n <= m
    <3>1. Bad \in SUBSET Nat
      OBVIOUS
    <3>. HIDE DEF Bad
    <3>. QED
      BY <3>1, LeastNatural
  <2>2. CASE n = 0
    <3>. DEFINE g == [s \in Upto(n) |-> base]
    <3>1. \A s \in Upto(n) : s = {}
      <4>1. \A s \in Upto(n) : Cardinality(s) = 0 /\ s \in SUBSET S
        <5>1. \A k \in Nat : k <= n => k = 0
          BY <2>2
        <5>2. \A s \in Upto(n) : s \in SUBSET S /\ Cardinality(s) <= n
          OBVIOUS
        <5>. HIDE DEF Upto
        <5>. QED
          BY <1>1, <5>1, <5>2
      <4>2. \A s \in SUBSET S : Cardinality(s) = 0 => s = {}
        BY <1>1
      <4>. HIDE DEF Upto
      <4>. QED
        BY <4>1, <4>2
    <3>2. Is(g, n)
      BY <3>1
    <3>. HIDE DEF Is, g
    <3>. QED
      BY <2>1, <3>2
  <2>3. CASE n # 0
    <3>1. n - 1 \in Nat /\ n - 1 \notin Bad
      <4>. HIDE DEF Bad
      <4>. QED
        BY <2>1, <2>3
    <3>2. PICK h : Is(h, n - 1)
      BY <3>1
    <3>. DEFINE Next1(s) == IF s = {} THEN base ELSE op[s][h[s \ {pick[s]}]]
                g == [s \in Upto(n) |-> Next1(s)]
    <3>3. ASSUME NEW s \in Upto(n), s # {}
          PROVE  s \ {pick[s]} \in Upto(n - 1) /\ g[s \ {pick[s]}] = h[s \ {pick[s]}]
      <4>. DEFINE r == s \ {pick[s]}
      <4>1. r \in Upto(n - 1) /\ r \in Upto(n)
        BY <1>1, <3>1, <3>3
      <4>2. h[r] = Next1(r)
        BY <3>2, <4>1
      <4>3. g[r] = Next1(r)
        BY <4>1
      <4>. QED
        BY <4>1, <4>2, <4>3
    <3>4. \A s \in Upto(n) : Next1(s) \in V
      BY <3>2, <3>3
    <3>5. Is(g, n)
      BY <3>3, <3>4
    <3>. HIDE DEF Is, g
    <3>. QED
      BY <2>1, <3>5
  <2>. QED
    BY <2>2, <2>3
<1>. DEFINE n == Cardinality(S)
<1>3. Upto(n) = SUBSET S /\ n \in Nat
  BY FS_Subset, FS_CardinalityType
<1>4. PICK g : Is(g, n)
  BY <1>2, <1>3
<1>5. g \in [SUBSET S -> V] /\ Folds(g, S, base, pick, op)
  BY <1>3, <1>4 DEF Folds
<1>. QED
  BY <1>5

\* Induction over the subsets of a finite set: of those in B, one has no subset
\* in B that lacks only one of its members.
LEMMA SmallestSubset ==
    ASSUME NEW S, IsFiniteSet(S), NEW B \in SUBSET (SUBSET S), B # {}
    PROVE  \E s \in B : \A x \in s : s \ {x} \notin B
<1>. DEFINE Sizes == {Cardinality(s) : s \in B}
<1>1. \A s \in B : IsFiniteSet(s) /\ Cardinality(s) \in Nat
  BY FS_Subset, FS_CardinalityType
<1>2. PICK n \in Sizes : \A m \in Sizes : n <= m
  <2>1. Sizes \subseteq Nat /\ Sizes # {}
    BY <1>1
  <2>. HIDE DEF Sizes
  <2>. QED
    BY <2>1, LeastNatural
<1>3. PICK s \in B : Cardinality(s) = n
  OBVIOUS
<1>4. ASSUME NEW x \in s, s \ {x} \in B
      PROVE  FALSE
  <2>1. Cardinality(s \ {x}) = Cardinality(s) - 1
    BY <1>1, FS_RemoveElement
  <2>. QED
    BY <1>1, <1>2, <1>3, <1>4, <2>1
<1>. QED
  BY <1>4

First(s) == CHOOSE x \in s : TRUE

\* The function that the sum of a set is defined by
Adds(f, S) ==
    f = [s \in SUBSET S |-> IF s = {} THEN 0 ELSE First(s).amount + f[s \ {First(s)}]]

\* The sum is defined by such a recursion, with a member that it chooses first.
LEMMA AddsExists ==
    ASSUME NEW S, IsFiniteSet(S), \A x \in S : x.amount \in Int
    PROVE  \E f : Adds(f, S)
<1>. DEFINE pick == [s \in SUBSET S |-> First(s)]
            op == [s \in SUBSET S |-> [v \in Int |-> First(s).amount + v]]
<1>1. \A s \in (SUBSET S) \ {{}} : First(s) \in s /\ First(s).amount \in Int
  BY DEF First
<1>2. \A s \in (SUBSET S) \ {{}} :
         pick[s] = First(s) /\ \A v \in Int : op[s][v] = First(s).amount + v
  OBVIOUS
<1>3. /\ \A s \in (SUBSET S) \ {{}} : pick[s] \in s
      /\ \A s \in (SUBSET S) \ {{}}, v \in Int : op[s][v] \in Int
  BY <1>1, <1>2
<1>. HIDE DEF pick, op
<1>4. PICK f \in [SUBSET S -> Int] : Folds(f, S, 0, pick, op)
  <2>1. 0 \in Int
    OBVIOUS
  <2>. QED
    BY <1>3, <2>1, FoldExists, Zenon
<1>5. \A s \in SUBSET S : f[s] = IF s = {} THEN 0 ELSE First(s).amount + f[s \ {First(s)}]
  <2>. TAKE s \in SUBSET S
  <2>1. f[s] = IF s = {} THEN 0 ELSE op[s][f[s \ {pick[s]}]]
    BY <1>4 DEF Folds
  <2>2. f[s \ {First(s)}] \in Int
    OBVIOUS
  <2>. QED
    BY <1>2, <2>1, <2>2
<1>6. f = [s \in SUBSET S |-> f[s]]
  OBVIOUS
<1>. QED
  BY <1>5, <1>6 DEF Adds

\* The sum of integers is one, and does not depend on who is first.
LEMMA AddsInAnyOrder ==
    ASSUME NEW S, IsFiniteSet(S), \A x \in S : x.amount \in Int, NEW f, Adds(f, S)
    PROVE  /\ f[{}] = 0
           /\ \A s \in SUBSET S : f[s] \in Int /\ \A e \in s : f[s] = e.amount + f[s \ {e}]
<1>1. \A s \in SUBSET S : /\ s # {} => First(s) \in s /\ f[s] = First(s).amount + f[s \ {First(s)}]
                          /\ s = {} => f[s] = 0
  BY DEF Adds, First
<1>2. \A s \in SUBSET S : f[s] \in Int
  <2>. DEFINE B == {s \in SUBSET S : f[s] \notin Int}
  <2>. SUFFICES ASSUME B # {} PROVE FALSE
    OBVIOUS
  <2>1. PICK s \in B : \A x \in s : s \ {x} \notin B
    BY SmallestSubset
  <2>2. s \in SUBSET S /\ f[s] \notin Int
    OBVIOUS
  <2>3. First(s) \in s /\ f[s] = First(s).amount + f[s \ {First(s)}]
    BY <1>1, <2>2
  <2>4. f[s \ {First(s)}] \in Int /\ First(s).amount \in Int
    BY <2>1, <2>2, <2>3
  <2>. QED
    BY <2>2, <2>3, <2>4
<1>3. \A s \in SUBSET S : \A e \in s : f[s] = e.amount + f[s \ {e}]
  <2>. DEFINE B == {s \in SUBSET S : \E e \in s : f[s] # e.amount + f[s \ {e}]}
  <2>. SUFFICES ASSUME B # {} PROVE FALSE
    OBVIOUS
  <2>1. PICK s \in B : \A x \in s : s \ {x} \notin B
    BY SmallestSubset
  <2>2. s \in SUBSET S /\ \E e \in s : f[s] # e.amount + f[s \ {e}]
    OBVIOUS
  <2>8. PICK e \in s : f[s] # e.amount + f[s \ {e}]
    BY <2>2
  <2>. DEFINE x == First(s)
  <2>3. x \in s /\ f[s] = x.amount + f[s \ {x}]
    BY <1>1, <2>2
  <2>4. x # e
    BY <2>8, <2>3
  <2>. HIDE DEF x
  <2>5. /\ f[s \ {x}] = e.amount + f[(s \ {x}) \ {e}]
        /\ f[s \ {e}] = x.amount + f[(s \ {e}) \ {x}]
    BY <2>1, <2>2, <2>3, <2>4
  <2>6. (s \ {x}) \ {e} = (s \ {e}) \ {x}
    OBVIOUS
  <2>7. x.amount \in Int /\ e.amount \in Int /\ f[(s \ {e}) \ {x}] \in Int
    BY <1>2, <2>2, <2>3
  <2>9. \A a, b, c \in Int : a + (b + c) = b + (a + c)
    OBVIOUS
  <2>10. x.amount + (e.amount + f[(s \ {e}) \ {x}]) = e.amount + (x.amount + f[(s \ {e}) \ {x}])
    BY <2>7, <2>9
  <2>. HIDE DEF B
  <2>. QED
    BY Zenon, <2>3, <2>5, <2>6, <2>8, <2>10
<1>. QED
  BY <1>1, <1>2, <1>3

\* The sum of a set is the same within a larger one.
LEMMA AddsAgree ==
    ASSUME NEW S, IsFiniteSet(S), NEW T \in SUBSET S, NEW f, Adds(f, S), NEW g, Adds(g, T)
    PROVE  f[T] = g[T]
<1>. DEFINE B == {s \in SUBSET T : f[s] # g[s]}
<1>. SUFFICES ASSUME B # {} PROVE FALSE
  OBVIOUS
<1>1. IsFiniteSet(T)
  BY FS_Subset
<1>2. PICK s \in B : \A x \in s : s \ {x} \notin B
  BY <1>1, SmallestSubset
<1>3. s \in SUBSET T /\ s \in SUBSET S
  OBVIOUS
<1>4. /\ s # {} => /\ f[s] = First(s).amount + f[s \ {First(s)}]
                   /\ g[s] = First(s).amount + g[s \ {First(s)}]
                   /\ First(s) \in s
      /\ s = {} => f[s] = 0 /\ g[s] = 0
  BY <1>3 DEF Adds, First
<1>5. s # {} => f[s \ {First(s)}] = g[s \ {First(s)}]
  BY <1>2, <1>3, <1>4
<1>. QED
  BY <1>2, <1>4, <1>5

Total(S) == MapThenSumSet(LAMBDA e : e.amount, S)

LEMMA TotalAdds ==
    ASSUME NEW S, IsFiniteSet(S), \A x \in S : x.amount \in Int
    PROVE  \E f : Adds(f, S) /\ Total(S) = f[S]
<1>1. Total(S) = (CHOOSE f : Adds(f, S))[S]
  BY DEF Total, MapThenSumSet, MapThenFoldSet, Adds, First
<1>2. PICK f : Adds(f, S)
  BY AddsExists
<1>. QED
  BY <1>1, <1>2

\* What a finite set of entries sums up to
LEMMA Totals ==
    ASSUME NEW S, IsFiniteSet(S), \A x \in S : x.amount \in Int
    PROVE  /\ Total({}) = 0 /\ Total(S) \in Int
           /\ \A e \in S : Total(S) = e.amount + Total(S \ {e})
<1>1. PICK f : Adds(f, S) /\ Total(S) = f[S]
  BY TotalAdds
<1>2. /\ f[{}] = 0
      /\ \A s \in SUBSET S : f[s] \in Int /\ \A e \in s : f[s] = e.amount + f[s \ {e}]
  BY <1>1, AddsInAnyOrder
<1>3. \A T \in SUBSET S : Total(T) = f[T]
  <2>. TAKE T \in SUBSET S
  <2>1. IsFiniteSet(T)
    BY FS_Subset
  <2>2. PICK g : Adds(g, T) /\ Total(T) = g[T]
    BY <2>1, TotalAdds
  <2>. QED
    BY <1>1, <2>2, AddsAgree
<1>. QED
  BY <1>2, <1>3

\* A new entry
LEMMA TotalWith ==
    ASSUME NEW S, IsFiniteSet(S), \A x \in S : x.amount \in Int, NEW e, e \notin S, e.amount \in Int
    PROVE  Total(S \cup {e}) = Total(S) + e.amount
<1>. DEFINE T == S \cup {e}
<1>1. IsFiniteSet(T) /\ (\A x \in T : x.amount \in Int) /\ T \ {e} = S
  BY FS_AddElement
<1>. HIDE DEF T
<1>2. Total(T) = e.amount + Total(S) /\ Total(S) \in Int
  BY <1>1, Totals DEF T
<1>. QED
  BY <1>2 DEF T

----------------------------------------------------------------------------
(* Scripts of statements                                                   *)

\* The states of the database that a script passes, and its statements
Names == DOMAIN References
Databases == [ok : BOOLEAN, tables : SUBSET Names, models : {{}, Models}]
Statements == {Create(t) : t \in Names} \cup {Drop(t) : t \in Names} \cup {Insert, Delete}

Run(db, script) == FoldLeft(Execute, db, script)

LEMMA ExecuteType ==
    ASSUME NEW db \in Databases, NEW st \in Statements
    PROVE  Execute(db, st) \in Databases
<1>1. CASE ~db.ok \/ ~Possible(db, st)
  BY <1>1 DEF Execute, Databases
<1>2. CASE ~(~db.ok \/ ~Possible(db, st))
  <2>1. st.do \in {"create", "drop", "insert", "delete"} /\ (st.do \in {"create", "drop"} => st.table \in Names)
    BY DEF Statements, Create, Drop, Insert, Delete
  <2>. DEFINE new == CASE st.do = "create" -> db.tables \cup {st.table}
                       [] st.do = "drop"   -> db.tables \ {st.table}
                       [] OTHER            -> db.tables
              m   == IF st.do = "insert" THEN Models ELSE db.models
  <2>2. db.tables \in SUBSET Names /\ db.models \in {{}, Models}
    BY DEF Databases
  <2>3. new \in SUBSET Names
    BY <2>1, <2>2
  <2>4. m \in {{}, Models}
    BY <2>1, <2>2
  <2>5. Execute(db, st) = [ok |-> TRUE, tables |-> new, models |-> m]
    BY <1>2 DEF Execute
  <2>. HIDE DEF new, m
  <2>. QED
    BY <2>3, <2>4, <2>5 DEF Databases
<1>. QED
  BY <1>1, <1>2

LEMMA MaxIsMember ==
    ASSUME NEW n \in Nat, NEW S, S \subseteq 1 .. n, S # {}
    PROVE  Max(S) \in S /\ \A y \in S : y <= Max(S)
<1>1. \A y \in S : y \in Nat /\ y <= n /\ n - y \in Nat
  OBVIOUS
<1>. DEFINE D == {n - x : x \in S}
<1>2. D \in SUBSET Nat /\ D # {}
  BY <1>1
<1>3. PICK d \in D : \A e \in D : d <= e
  <2>. HIDE DEF D
  <2>. QED
    BY <1>2, LeastNatural
<1>4. PICK x \in S : d = n - x
  OBVIOUS
<1>5. \A y \in S : x >= y
  <2>. TAKE y \in S
  <2>1. n - y \in D
    OBVIOUS
  <2>2. n - x <= n - y
    BY <1>3, <1>4, <2>1
  <2>. QED
    BY <1>1, <2>2
<1>6. \E z \in S : \A y \in S : z >= y
  BY <1>5
<1>. HIDE DEF D
<1>7. Max(S) \in S /\ \A y \in S : Max(S) >= y
  BY <1>6 DEF Max
<1>. QED
  BY <1>1, <1>7

\* The states of the database while a script is run, one statement after the other
Trace(f, db, script) ==
    /\ f \in [0 .. Len(script) -> Databases]
    /\ f[0] = db
    /\ \A i \in 1 .. Len(script) : f[i] = Execute(f[i - 1], script[i])

\* What FoldLeft computes is the end of such a row of states.
LEMMA RunHasTrace ==
    ASSUME NEW script \in Seq(Statements), NEW db \in Databases
    PROVE  \E f : Trace(f, db, script) /\ Run(db, script) = f[Len(script)]
<1>. DEFINE n == Len(script)
            S == 1 .. n
            Is(f) == f = [s \in SUBSET S |->
                            IF s = {} THEN db ELSE Execute(f[s \ {Max(s)}], script[Max(s)])]
            pick == [s \in SUBSET S |-> Max(s)]
            op == [s \in SUBSET S |-> [v \in Databases |-> Execute(v, script[Max(s)])]]
<1>1. n \in Nat /\ IsFiniteSet(S) /\ DOMAIN script = S /\ script \in [S -> Statements]
  BY FS_Interval
<1>2. \A s \in (SUBSET S) \ {{}} : Max(s) \in s
  BY <1>1, MaxIsMember
<1>3. \A s \in (SUBSET S) \ {{}}, v \in Databases : Execute(v, script[Max(s)]) \in Databases
  <2>. TAKE s \in (SUBSET S) \ {{}}, v \in Databases
  <2>1. Max(s) \in s /\ s \in SUBSET S
    BY <1>2
  <2>2. script[Max(s)] \in Statements
    <3>. HIDE DEF S
    <3>. QED
      BY <1>1, <2>1
  <2>. QED
    BY <2>2, ExecuteType
<1>4. PICK f \in [SUBSET S -> Databases] : Folds(f, S, db, pick, op)
  <2>1. \A s \in (SUBSET S) \ {{}} : pick[s] \in s
    BY <1>2
  <2>2. \A s \in (SUBSET S) \ {{}}, v \in Databases : op[s][v] \in Databases
    BY <1>3
  <2>. HIDE DEF pick, op, S
  <2>. QED
    BY <1>1, <2>1, <2>2, FoldExists
<1>5. Is(f)
  <2>1. \A s \in SUBSET S : f[s] = IF s = {} THEN db ELSE op[s][f[s \ {pick[s]}]]
    BY <1>4 DEF Folds
  <2>2. \A s \in SUBSET S : s # {} => op[s][f[s \ {pick[s]}]] = Execute(f[s \ {Max(s)}], script[Max(s)])
    BY <1>4
  <2>3. \A s \in SUBSET S : f[s] = IF s = {} THEN db ELSE Execute(f[s \ {Max(s)}], script[Max(s)])
    <3>. HIDE DEF pick, op, S
    <3>. QED
      BY <2>1, <2>2
  <2>. HIDE DEF S
  <2>. QED
    BY <1>4, <2>3
<1>6. Run(db, script) = (CHOOSE g : Is(g))[S]
  BY <1>1 DEF Run, FoldLeft, MapThenFoldSet
<1>7. PICK g : Is(g) /\ Run(db, script) = g[S]
  <2>. HIDE DEF Is
  <2>. QED
    BY <1>5, <1>6
<1>. DEFINE t == [i \in 0 .. n |-> g[1 .. i]]
<1>8. \A i \in S : /\ 1 .. i \in SUBSET S /\ 1 .. i # {}
                   /\ Max(1 .. i) = i /\ (1 .. i) \ {i} = 1 .. (i - 1)
  <2>. TAKE i \in S
  <2>1. /\ 1 .. i \in SUBSET S /\ 1 .. i # {} /\ i \in 1 .. i /\ (1 .. i) \ {i} = 1 .. (i - 1)
    BY <1>1
  <2>2. Max(1 .. i) \in 1 .. i /\ i <= Max(1 .. i)
    <3>1. i \in Nat /\ 1 .. i \subseteq 1 .. i
      BY <1>1
    <3>. QED
      BY <2>1, <3>1, MaxIsMember
  <2>. QED
    BY <1>1, <2>1, <2>2
<1>9. t[0] = db
  <2>1. 1 .. 0 = {} /\ {} \in SUBSET S /\ 0 \in 0 .. n
    BY <1>1
  <2>. QED
    BY <1>7, <2>1
<1>10. \A i \in S : t[i] = Execute(t[i - 1], script[i])
  <2>. TAKE i \in S
  <2>1. i \in 0 .. n /\ i - 1 \in 0 .. n
    BY <1>1
  <2>2. g[1 .. i] = Execute(g[1 .. (i - 1)], script[i])
    <3>. DEFINE r == 1 .. i
    <3>1. r \in SUBSET S /\ r # {} /\ Max(r) = i /\ r \ {i} = 1 .. (i - 1)
      BY <1>8
    <3>. HIDE DEF r, S
    <3>2. g[r] = Execute(g[r \ {Max(r)}], script[Max(r)])
      BY <1>7, <3>1
    <3>3. g[r] = Execute(g[1 .. (i - 1)], script[i])
      BY <3>1, <3>2
    <3>. QED
      BY <3>3 DEF r
  <2>. QED
    BY <2>1, <2>2
<1>11. \A i \in 0 .. n : t[i] \in Databases
  <2>. DEFINE B == {i \in 0 .. n : t[i] \notin Databases}
  <2>. SUFFICES ASSUME B # {} PROVE FALSE
    OBVIOUS
  <2>1. PICK i \in 0 .. n : i \in B /\ \A m \in B : i <= m
    <3>1. B \in SUBSET Nat
      BY <1>1
    <3>. HIDE DEF B
    <3>2. PICK i \in B : \A m \in B : i <= m
      BY <3>1, LeastNatural
    <3>. QED
      BY <3>2 DEF B
  <2>. HIDE DEF t
  <2>2. i # 0
    BY <1>9, <2>1
  <2>3. i \in S /\ i - 1 \in 0 .. n /\ i - 1 \notin B
    BY <1>1, <2>1, <2>2
  <2>4. t[i - 1] \in Databases /\ script[i] \in Statements
    BY <1>1, <2>3
  <2>. QED
    BY <1>10, <2>1, <2>3, <2>4, ExecuteType
<1>12. Trace(t, db, script)
  <2>1. t \in [0 .. n -> Databases]
    BY <1>11
  <2>. HIDE DEF t
  <2>. QED
    BY <1>9, <1>10, <2>1 DEF Trace
<1>13. t[n] = Run(db, script)
  BY <1>1, <1>7
<1>. QED
  BY <1>12, <1>13

\* What is there at each revision
TablesAt(r) == IF r = 0 THEN {} ELSE IF r = 3 THEN Names ELSE Stored
ModelsAt(r) == IF r < 2 THEN {} ELSE Models
Schema(r) == [ok |-> TRUE, tables |-> TablesAt(r), models |-> ModelsAt(r)]

\* The states from "at" on are those of a script.
Takes(f, at, script) ==
    \A i \in 1 .. Len(script) : f[at + i] = Execute(f[at + i - 1], script[i])

\* The foreign keys, one table after the other
LEMMA RefersTo ==
    /\ Names = Stored \cup {"password_reset_attempts", "password_reset_tokens"}
    /\ References["ml_models"] = {} /\ References["users"] = {}
    /\ References["balance_ledger_entries"] = {"users"}
    /\ References["ml_prediction_tasks"] = {"ml_models", "users"}
    /\ References["user_balances"] = {"users"} /\ References["user_identities"] = {"users"}
    /\ References["history_records"] = {"ml_models", "ml_prediction_tasks", "users"}
    /\ References["feedback"] = {"history_records", "users"}
    /\ References["password_reset_attempts"] = {}
    /\ References["password_reset_tokens"] = {"users"}
  BY DEF References, Stored, Names

Database(tabs, mods) == [ok |-> TRUE, tables |-> tabs, models |-> mods]

\* What PostgreSQL makes of a statement
LEMMA Statement ==
    ASSUME NEW tabs, NEW mods, NEW t
    PROVE  /\ t \notin tabs /\ References[t] \subseteq tabs =>
                 Execute(Database(tabs, mods), Create(t)) = Database(tabs \cup {t}, mods)
           /\ Execute(Database(tabs, {}), Insert) = Database(tabs, Models)
           /\ ~Execute(Database(tabs, mods), Delete).ok
<1>1. t \notin tabs /\ References[t] \subseteq tabs => Possible(Database(tabs, mods), Create(t))
  BY DEF Possible, Database, Create
<1>3. Possible(Database(tabs, {}), Insert)
  BY DEF Possible, Database, Insert
<1>4. ~Possible(Database(tabs, mods), Delete)
  BY DEF Possible, Database, Delete
<1>5. ASSUME NEW m, NEW st, Possible(Database(tabs, m), st)
      PROVE  /\ st.do = "create" =>
                   Execute(Database(tabs, m), st) = Database(tabs \cup {st.table}, m)
             /\ st.do = "insert" => Execute(Database(tabs, m), st) = Database(tabs, Models)
  BY <1>5 DEF Execute, Database
<1>6. ASSUME ~Possible(Database(tabs, mods), Delete)
      PROVE  ~Execute(Database(tabs, mods), Delete).ok
  BY <1>6 DEF Execute, Database
<1>7. /\ Create(t).do = "create" /\ Create(t).table = t
      /\ Insert.do = "insert"
  BY DEF Create, Insert
<1>. QED
  BY <1>1, <1>3, <1>4, <1>5, <1>6, <1>7

LEMMA DropTable ==
    ASSUME NEW tabs, NEW mods, NEW t \in tabs, \A u \in tabs : t \notin References[u],
           NEW rest, rest = tabs \ {t}
    PROVE  Execute(Database(tabs, mods), Drop(t)) = Database(rest, mods)
<1>1. Possible(Database(tabs, mods), Drop(t))
  BY DEF Possible, Database, Drop
<1>2. Execute(Database(tabs, mods), Drop(t)) = Database(tabs \ {t}, mods)
  BY <1>1 DEF Execute, Database, Drop
<1>. QED
  BY <1>2

LEMMA Schemas ==
    /\ Schema(0) = Database({}, {}) /\ Schema(1) = Database(Stored, {})
    /\ Schema(2) = Database(Stored, Models) /\ Schema(3) = Database(Names, Models)
  BY DEF Schema, Database, TablesAt, ModelsAt

\* Each script goes from the schema of its revision to the next one, or back.
LEMMA CreatesSchema ==
    ASSUME NEW f, NEW at \in Nat, f[at] = Schema(0), Takes(f, at, CreateSchema)
    PROVE  f[at + 8] = Schema(1)
<1>. DEFINE S(n) == f[at + n]
            d0 == {}
            d1 == d0 \cup {"ml_models"}
            d2 == d1 \cup {"users"}
            d3 == d2 \cup {"balance_ledger_entries"}
            d4 == d3 \cup {"ml_prediction_tasks"}
            d5 == d4 \cup {"user_balances"}
            d6 == d5 \cup {"user_identities"}
            d7 == d6 \cup {"history_records"}
            d8 == d7 \cup {"feedback"}
<1>1. /\ S(0) = Database(d0, {})
      /\ S(1) = Execute(S(0), Create("ml_models"))
      /\ S(2) = Execute(S(1), Create("users"))
      /\ S(3) = Execute(S(2), Create("balance_ledger_entries"))
      /\ S(4) = Execute(S(3), Create("ml_prediction_tasks"))
      /\ S(5) = Execute(S(4), Create("user_balances"))
      /\ S(6) = Execute(S(5), Create("user_identities"))
      /\ S(7) = Execute(S(6), Create("history_records"))
      /\ S(8) = Execute(S(7), Create("feedback"))
  <2>1. S(0) = Database(d0, {})
    BY Schemas
  <2>2. ASSUME NEW i \in 1 .. 8
        PROVE  S(i) = Execute(S(i - 1), CreateSchema[i])
    <3>1. at + i - 1 = at + (i - 1)
      OBVIOUS
    <3>2. Len(CreateSchema) = 8
      BY DEF CreateSchema
    <3>. QED
      BY <3>1, <3>2 DEF Takes
  <2>. HIDE DEF S
  <2>3. /\ S(1) = Execute(S(0), CreateSchema[1]) /\ S(2) = Execute(S(1), CreateSchema[2])
        /\ S(3) = Execute(S(2), CreateSchema[3]) /\ S(4) = Execute(S(3), CreateSchema[4])
        /\ S(5) = Execute(S(4), CreateSchema[5]) /\ S(6) = Execute(S(5), CreateSchema[6])
        /\ S(7) = Execute(S(6), CreateSchema[7]) /\ S(8) = Execute(S(7), CreateSchema[8])
    BY <2>2
  <2>. QED
    BY <2>1, <2>3 DEF CreateSchema
<1>. HIDE DEF S
<1>2. S(1) = Database(d1, {})
  BY <1>1, Statement, RefersTo
<1>3. S(2) = Database(d2, {})
  BY <1>1, <1>2, Statement, RefersTo
<1>4. S(3) = Database(d3, {})
  BY <1>1, <1>3, Statement, RefersTo
<1>5. S(4) = Database(d4, {})
  BY <1>1, <1>4, Statement, RefersTo
<1>6. S(5) = Database(d5, {})
  BY <1>1, <1>5, Statement, RefersTo
<1>7. S(6) = Database(d6, {})
  BY <1>1, <1>6, Statement, RefersTo
<1>8. S(7) = Database(d7, {})
  BY <1>1, <1>7, Statement, RefersTo
<1>9. S(8) = Database(d8, {})
  BY <1>1, <1>8, Statement, RefersTo
<1>10. d8 = Stored
  BY DEF Stored
<1>. QED
  BY <1>9, <1>10, Schemas DEF S

LEMMA DropsSchema ==
    ASSUME NEW f, NEW at \in Nat, f[at] = Schema(1), Takes(f, at, DropSchema)
    PROVE  f[at + 8] = Schema(0)
<1>. DEFINE S(n) == f[at + n]
            d0 == {}
            d1 == d0 \cup {"ml_models"}
            d2 == d1 \cup {"users"}
            d3 == d2 \cup {"balance_ledger_entries"}
            d4 == d3 \cup {"ml_prediction_tasks"}
            d5 == d4 \cup {"user_balances"}
            d6 == d5 \cup {"user_identities"}
            d7 == d6 \cup {"history_records"}
            d8 == d7 \cup {"feedback"}
<1>1. d8 = Stored
  BY DEF Stored
<1>2. S(0) = Database(d8, {})
  <2>. HIDE DEF d8
  <2>. QED
    BY <1>1, Schemas
<1>3. /\ S(1) = Execute(S(0), Drop("feedback"))
      /\ S(2) = Execute(S(1), Drop("history_records"))
      /\ S(3) = Execute(S(2), Drop("user_identities"))
      /\ S(4) = Execute(S(3), Drop("user_balances"))
      /\ S(5) = Execute(S(4), Drop("ml_prediction_tasks"))
      /\ S(6) = Execute(S(5), Drop("balance_ledger_entries"))
      /\ S(7) = Execute(S(6), Drop("users"))
      /\ S(8) = Execute(S(7), Drop("ml_models"))
  <2>1. ASSUME NEW i \in 1 .. 8
        PROVE  S(i) = Execute(S(i - 1), DropSchema[i])
    <3>1. at + i - 1 = at + (i - 1)
      OBVIOUS
    <3>2. Len(DropSchema) = 8
      BY DEF DropSchema
    <3>. QED
      BY <3>1, <3>2 DEF Takes
  <2>. HIDE DEF S
  <2>2. /\ S(1) = Execute(S(0), DropSchema[1]) /\ S(2) = Execute(S(1), DropSchema[2])
        /\ S(3) = Execute(S(2), DropSchema[3]) /\ S(4) = Execute(S(3), DropSchema[4])
        /\ S(5) = Execute(S(4), DropSchema[5]) /\ S(6) = Execute(S(5), DropSchema[6])
        /\ S(7) = Execute(S(6), DropSchema[7]) /\ S(8) = Execute(S(7), DropSchema[8])
    BY <2>1
  <2>. QED
    BY <2>2 DEF DropSchema
<1>. HIDE DEF S
<1>4. S(1) = Database(d7, {})
  <2>1. d8 \ {"feedback"} = d7
    OBVIOUS
  <2>2. "feedback" \in d8 /\ \A u \in d8 : "feedback" \notin References[u]
    BY RefersTo
  <2>. HIDE DEF d8, d7
  <2>. QED
    BY <1>2, <1>3, <2>1, <2>2, DropTable
<1>5. S(2) = Database(d6, {})
  <2>1. d7 \ {"history_records"} = d6
    OBVIOUS
  <2>2. "history_records" \in d7 /\ \A u \in d7 : "history_records" \notin References[u]
    BY RefersTo
  <2>. HIDE DEF d7, d6
  <2>. QED
    BY <1>3, <1>4, <2>1, <2>2, DropTable
<1>6. S(3) = Database(d5, {})
  <2>1. d6 \ {"user_identities"} = d5
    OBVIOUS
  <2>2. "user_identities" \in d6 /\ \A u \in d6 : "user_identities" \notin References[u]
    BY RefersTo
  <2>. HIDE DEF d6, d5
  <2>. QED
    BY <1>3, <1>5, <2>1, <2>2, DropTable
<1>7. S(4) = Database(d4, {})
  <2>1. d5 \ {"user_balances"} = d4
    OBVIOUS
  <2>2. "user_balances" \in d5 /\ \A u \in d5 : "user_balances" \notin References[u]
    BY RefersTo
  <2>. HIDE DEF d5, d4
  <2>. QED
    BY <1>3, <1>6, <2>1, <2>2, DropTable
<1>8. S(5) = Database(d3, {})
  <2>1. d4 \ {"ml_prediction_tasks"} = d3
    OBVIOUS
  <2>2. "ml_prediction_tasks" \in d4 /\ \A u \in d4 : "ml_prediction_tasks" \notin References[u]
    BY RefersTo
  <2>. HIDE DEF d4, d3
  <2>. QED
    BY <1>3, <1>7, <2>1, <2>2, DropTable
<1>9. S(6) = Database(d2, {})
  <2>1. d3 \ {"balance_ledger_entries"} = d2
    OBVIOUS
  <2>2. "balance_ledger_entries" \in d3 /\ \A u \in d3 : "balance_ledger_entries" \notin References[u]
    BY RefersTo
  <2>. HIDE DEF d3, d2
  <2>. QED
    BY <1>3, <1>8, <2>1, <2>2, DropTable
<1>10. S(7) = Database(d1, {})
  <2>1. d2 \ {"users"} = d1
    OBVIOUS
  <2>2. "users" \in d2 /\ \A u \in d2 : "users" \notin References[u]
    BY RefersTo
  <2>. HIDE DEF d2, d1
  <2>. QED
    BY <1>3, <1>9, <2>1, <2>2, DropTable
<1>11. S(8) = Database(d0, {})
  <2>1. d1 \ {"ml_models"} = d0
    OBVIOUS
  <2>2. "ml_models" \in d1 /\ \A u \in d1 : "ml_models" \notin References[u]
    BY RefersTo
  <2>. HIDE DEF d1, d0
  <2>. QED
    BY <1>3, <1>10, <2>1, <2>2, DropTable
<1>. QED
  BY <1>11, Schemas DEF S

\* One statement
LEMMA OneStatement ==
    ASSUME NEW f, NEW at \in Nat, NEW st, Takes(f, at, <<st>>)
    PROVE  f[at + 1] = Execute(f[at], st)
<1>1. Len(<<st>>) = 1 /\ <<st>>[1] = st /\ at + 1 - 1 = at
  OBVIOUS
<1>. QED
  BY <1>1 DEF Takes

LEMMA TwoStatements ==
    ASSUME NEW f, NEW at \in Nat, NEW s1, NEW s2, Takes(f, at, <<s1, s2>>)
    PROVE  f[at + 2] = Execute(Execute(f[at], s1), s2)
<1>1. /\ Len(<<s1, s2>>) = 2 /\ <<s1, s2>>[1] = s1 /\ <<s1, s2>>[2] = s2
      /\ at + 1 - 1 = at /\ at + 2 - 1 = at + 1
  OBVIOUS
<1>. QED
  BY <1>1 DEF Takes

LEMMA SeedsModels ==
    ASSUME NEW f, NEW at \in Nat, f[at] = Schema(1), Takes(f, at, SeedModels)
    PROVE  f[at + 1] = Schema(2)
<1>1. f[at + 1] = Execute(Database(Stored, {}), Insert)
  BY Schemas, OneStatement DEF SeedModels
<1>2. Execute(Database(Stored, {}), Insert) = Database(Stored, Models)
  BY Statement
<1>. QED
  BY <1>1, <1>2, Schemas

LEMMA DeletesNoModels ==
    ASSUME NEW f, NEW at \in Nat, f[at] = Schema(2), Takes(f, at, DeleteModels)
    PROVE  ~f[at + 1].ok
<1>1. f[at + 1] = Execute(Database(Stored, Models), Delete)
  BY Schemas, OneStatement DEF DeleteModels
<1>2. ~Execute(Database(Stored, Models), Delete).ok
  BY Statement
<1>. QED
  BY <1>1, <1>2

LEMMA AddsResetTables ==
    ASSUME NEW f, NEW at \in Nat, f[at] = Schema(2), Takes(f, at, AddResetTables)
    PROVE  f[at + 2] = Schema(3)
<1>. DEFINE d1 == Stored \cup {"password_reset_attempts"}
            d2 == d1 \cup {"password_reset_tokens"}
<1>1. Schema(2) = Database(Stored, Models) /\ Schema(3) = Database(d2, Models)
  <2>1. d2 = Names
    BY RefersTo
  <2>. QED
    BY <2>1, Schemas
<1>2. f[at + 2] = Execute(Execute(Database(Stored, Models), Create("password_reset_attempts")),
                          Create("password_reset_tokens"))
  BY <1>1, TwoStatements DEF AddResetTables
<1>3. /\ "password_reset_attempts" \notin Stored /\ References["password_reset_attempts"] \subseteq Stored
      /\ "password_reset_tokens" \notin d1 /\ References["password_reset_tokens"] \subseteq d1
  BY RefersTo DEF Stored
<1>. HIDE DEF d1, d2
<1>4. Execute(Database(Stored, Models), Create("password_reset_attempts")) = Database(d1, Models)
  BY <1>3, Statement DEF d1
<1>5. Execute(Database(d1, Models), Create("password_reset_tokens")) = Database(d2, Models)
  BY <1>3, Statement DEF d2
<1>. QED
  BY <1>1, <1>2, <1>4, <1>5

LEMMA DropsResetTables ==
    ASSUME NEW f, NEW at \in Nat, f[at] = Schema(3), Takes(f, at, DropResetTables)
    PROVE  f[at + 2] = Schema(2)
<1>. DEFINE d1 == Names \ {"password_reset_tokens"}
            d2 == d1 \ {"password_reset_attempts"}
<1>1. Schema(3) = Database(Names, Models) /\ Schema(2) = Database(d2, Models)
  <2>1. d2 = Stored
    BY RefersTo DEF Stored
  <2>. QED
    BY <2>1, Schemas
<1>2. f[at + 2] = Execute(Execute(Database(Names, Models), Drop("password_reset_tokens")),
                          Drop("password_reset_attempts"))
  BY <1>1, TwoStatements DEF DropResetTables
<1>3. /\ "password_reset_tokens" \in Names /\ \A u \in Names : "password_reset_tokens" \notin References[u]
      /\ "password_reset_attempts" \in d1 /\ \A u \in d1 : "password_reset_attempts" \notin References[u]
  BY RefersTo DEF Stored
<1>. HIDE DEF d1, d2
<1>4. Execute(Database(Names, Models), Drop("password_reset_tokens")) = Database(d1, Models)
  BY <1>3, DropTable DEF d1
<1>5. Execute(Database(d1, Models), Drop("password_reset_attempts")) = Database(d2, Models)
  BY <1>3, DropTable DEF d2
<1>. QED
  BY <1>1, <1>2, <1>4, <1>5

\* Several scripts are run as one.
LEMMA Flattened ==
    ASSUME NEW k \in 1 .. 3, NEW T, NEW ss \in [1 .. k -> Seq(T)]
    PROVE  /\ k = 1 => FlattenSeq(ss) = ss[1]
           /\ k = 2 => FlattenSeq(ss) = ss[1] \o ss[2]
           /\ k = 3 => FlattenSeq(ss) = (ss[1] \o ss[2]) \o ss[3]
<1>. DEFINE Is(f) == f = [i \in 1 .. k |-> IF i = 1 THEN ss[i] ELSE f[i - 1] \o ss[i]]
            g == [i \in 1 .. k |-> IF i = 1 THEN ss[1]
                                   ELSE IF i = 2 THEN ss[1] \o ss[2]
                                   ELSE (ss[1] \o ss[2]) \o ss[3]]
<1>1. Len(ss) = k /\ k # 0
  OBVIOUS
<1>2. FlattenSeq(ss) = (CHOOSE f : Is(f))[k]
  BY <1>1, Zenon DEF FlattenSeq
<1>3. Is(g)
  <2>1. ASSUME NEW i \in 1 .. k
        PROVE  g[i] = IF i = 1 THEN ss[i] ELSE g[i - 1] \o ss[i]
    <3>. DEFINE one == ss[1]
                two == ss[1] \o ss[2]
                three == (ss[1] \o ss[2]) \o ss[3]
    <3>1. /\ g[i] = IF i = 1 THEN one ELSE IF i = 2 THEN two ELSE three
          /\ i - 1 \in 1 .. k => g[i - 1] = IF i - 1 = 1 THEN one ELSE IF i - 1 = 2 THEN two ELSE three
      OBVIOUS
    <3>. HIDE DEF g
    <3>2. CASE i = 1
      BY <3>1, <3>2
    <3>3. CASE i = 2
      <4>1. i - 1 \in 1 .. k /\ i - 1 = 1
        BY <3>3
      <4>. QED
        BY <3>1, <3>3, <4>1
    <3>4. CASE i = 3
      <4>1. i - 1 \in 1 .. k /\ i - 1 = 2
        BY <3>4
      <4>2. g[i] = three /\ g[i - 1] = two
        BY <3>1, <3>4, <4>1
      <4>. QED
        BY <3>4, <4>2
    <3>. QED
      BY <3>2, <3>3, <3>4
  <2>2. g = [i \in 1 .. k |-> g[i]]
    OBVIOUS
  <2>. HIDE DEF g
  <2>. QED
    BY <2>1, <2>2
<1>4. PICK f : Is(f) /\ FlattenSeq(ss) = f[k]
  <2>. HIDE DEF Is, g
  <2>. QED
    BY <1>2, <1>3
<1>5. \A i \in 1 .. k : f[i] = IF i = 1 THEN ss[i] ELSE f[i - 1] \o ss[i]
  BY <1>4
<1>6. CASE k = 1
  BY <1>4, <1>5, <1>6
<1>7. CASE k = 2
  BY <1>4, <1>5, <1>7
<1>8. CASE k = 3
  <2>1. f[1] = ss[1] /\ f[2] = f[1] \o ss[2] /\ f[3] = f[2] \o ss[3]
    BY <1>5, <1>8
  <2>. QED
    BY <1>4, <1>8, <2>1
<1>. QED
  BY <1>6, <1>7, <1>8

\* A script turns one state of the database into another.
Leads(a, script, b) ==
    \E f : \E at \in Nat : f[at] = a /\ Takes(f, at, script) /\ f[at + Len(script)] = b

LEMMA Halves ==
    ASSUME NEW T, NEW s \in Seq(T), NEW u \in Seq(T), NEW f, NEW at \in Nat, Takes(f, at, s \o u)
    PROVE  Takes(f, at, s) /\ Takes(f, at + Len(s), u)
<1>1. /\ Len(s) \in Nat /\ Len(u) \in Nat /\ Len(s \o u) = Len(s) + Len(u)
      /\ \A i \in 1 .. Len(s) : (s \o u)[i] = s[i]
      /\ \A i \in 1 .. Len(u) : (s \o u)[Len(s) + i] = u[i]
  OBVIOUS
<1>2. Takes(f, at, s)
  BY <1>1 DEF Takes
<1>3. ASSUME NEW i \in 1 .. Len(u)
      PROVE  f[at + Len(s) + i] = Execute(f[at + Len(s) + i - 1], u[i])
  <2>1. /\ Len(s) + i \in 1 .. Len(s \o u)
        /\ at + (Len(s) + i) = at + Len(s) + i /\ at + (Len(s) + i) - 1 = at + Len(s) + i - 1
    BY <1>1
  <2>2. f[at + (Len(s) + i)] = Execute(f[at + (Len(s) + i) - 1], (s \o u)[Len(s) + i])
    BY <2>1 DEF Takes
  <2>. QED
    BY <1>1, <2>1, <2>2
<1>. QED
  BY <1>2, <1>3 DEF Takes

\* The states g[0] ... g[k] of the database between the k scripts of a plan
IsPlan(k, ss) == k \in 0 .. 3 /\ ss \in [1 .. k -> Seq(Statements)]

Parts(g, k, ss, db) ==
    /\ g[0] = db /\ g[k] = Run(db, FlattenSeq(ss))
    /\ \A j \in 0 .. k : g[j] \in Databases
    /\ \A j \in 1 .. k : Leads(g[j - 1], ss[j], g[j])

LEMMA RunInParts ==
    ASSUME NEW k, NEW ss, IsPlan(k, ss), NEW db \in Databases
    PROVE  \E g : Parts(g, k, ss, db)
<1>. SUFFICES ASSUME k \in 0 .. 3, ss \in [1 .. k -> Seq(Statements)]
              PROVE  \E g : Parts(g, k, ss, db)
  BY DEF IsPlan
<1>1. ASSUME NEW script \in Seq(Statements)
      PROVE  \E f : /\ f[0] = db /\ Takes(f, 0, script) /\ f[Len(script)] = Run(db, script)
                    /\ \A i \in 0 .. Len(script) : f[i] \in Databases
  <2>1. PICK f : Trace(f, db, script) /\ Run(db, script) = f[Len(script)]
    BY RunHasTrace
  <2>2. Takes(f, 0, script)
    <3>1. \A i \in 1 .. Len(script) : 0 + i = i /\ 0 + i - 1 = i - 1
      OBVIOUS
    <3>. QED
      BY <2>1, <3>1 DEF Trace, Takes
  <2>. QED
    BY <2>1, <2>2 DEF Trace
<1>2. CASE k = 0
  <2>. DEFINE g == [j \in {0} |-> db]
  <2>1. ss = <<>> /\ Len(ss) = 0
    BY <1>2
  <2>2. FlattenSeq(ss) = <<>>
    BY <2>1 DEF FlattenSeq
  <2>3. Run(db, <<>>) = db
    <3>1. <<>> \in Seq(Statements) /\ Len(<<>>) = 0
      OBVIOUS
    <3>. QED
      BY <1>1, <3>1
  <2>4. g[0] = db /\ g[k] = Run(db, FlattenSeq(ss)) /\ 1 .. k = {} /\ 0 .. k = {0}
    BY <1>2, <2>2, <2>3
  <2>. HIDE DEF g
  <2>. QED
    BY <2>4 DEF Parts
<1>3. CASE k = 1
  <2>1. FlattenSeq(ss) = ss[1] /\ ss[1] \in Seq(Statements)
    BY <1>3, Flattened
  <2>2. PICK f : /\ f[0] = db /\ Takes(f, 0, ss[1]) /\ f[Len(ss[1])] = Run(db, FlattenSeq(ss))
                 /\ \A i \in 0 .. Len(ss[1]) : f[i] \in Databases
    BY <1>1, <2>1
  <2>. DEFINE g == [j \in 0 .. 1 |-> IF j = 0 THEN db ELSE f[Len(ss[1])]]
  <2>3. g[0] = f[0] /\ g[1] = f[0 + Len(ss[1])]
    BY <2>1, <2>2
  <2>. HIDE DEF g
  <2>4. Leads(g[0], ss[1], g[1])
    BY <2>2, <2>3 DEF Leads
  <2>5. \A j \in 1 .. k : j = 1 /\ j - 1 = 0
    BY <1>3
  <2>6. g[1] = Run(db, FlattenSeq(ss))
    BY <2>1, <2>2, <2>3
  <2>7. \A j \in 0 .. k : g[j] \in Databases
    <3>1. Len(ss[1]) \in 0 .. Len(ss[1]) /\ 0 + Len(ss[1]) = Len(ss[1]) /\ 0 .. k = {0, 1}
      BY <1>3, <2>1
    <3>. QED
      BY <2>2, <2>3, <3>1
  <2>. QED
    BY <1>3, <2>2, <2>3, <2>4, <2>5, <2>6, <2>7 DEF Parts
<1>4. CASE k = 2
  <2>. DEFINE s == ss[1]
              u == ss[2]
  <2>1. FlattenSeq(ss) = s \o u /\ s \in Seq(Statements) /\ u \in Seq(Statements)
    <3>1. k \in 1 .. 3 /\ 1 \in 1 .. k /\ 2 \in 1 .. k
      BY <1>4
    <3>2. FlattenSeq(ss) = ss[1] \o ss[2]
      BY <1>4, <3>1, Flattened, Zenon
    <3>. QED
      BY <3>1, <3>2
  <2>. HIDE DEF s, u
  <2>2. PICK f : /\ f[0] = db /\ Takes(f, 0, s \o u) /\ f[Len(s \o u)] = Run(db, FlattenSeq(ss))
                 /\ \A i \in 0 .. Len(s \o u) : f[i] \in Databases
    <3>1. s \o u \in Seq(Statements)
      BY <2>1
    <3>2. \E f : /\ f[0] = db /\ Takes(f, 0, s \o u) /\ f[Len(s \o u)] = Run(db, s \o u)
                 /\ \A i \in 0 .. Len(s \o u) : f[i] \in Databases
      BY <1>1, <3>1, Zenon
    <3>. QED
      BY <2>1, <3>2
  <2>3. Takes(f, 0, s) /\ Takes(f, 0 + Len(s), u)
    BY <2>1, <2>2, Halves
  <2>. DEFINE g == [j \in 0 .. 2 |-> IF j = 0 THEN db
                                     ELSE IF j = 1 THEN f[0 + Len(s)] ELSE f[0 + Len(s) + Len(u)]]
  <2>4. g[0] = f[0] /\ g[1] = f[0 + Len(s)] /\ g[2] = f[0 + Len(s) + Len(u)]
    BY <2>2
  <2>5. Len(s \o u) = 0 + Len(s) + Len(u) /\ 0 + Len(s) \in Nat
    BY <2>1
  <2>. HIDE DEF g
  <2>6. Leads(g[0], s, g[1]) /\ Leads(g[1], u, g[2])
    BY <2>3, <2>4, <2>5 DEF Leads
  <2>7. \A j \in 1 .. k : (j = 1 /\ j - 1 = 0) \/ (j = 2 /\ j - 1 = 1)
    BY <1>4
  <2>8. g[2] = Run(db, FlattenSeq(ss))
    BY <2>2, <2>4, <2>5
  <2>9. \A j \in 0 .. k : g[j] \in Databases
    <3>1. /\ 0 + Len(s) \in 0 .. Len(s \o u) /\ 0 + Len(s) + Len(u) \in 0 .. Len(s \o u)
          /\ 0 .. k = {0, 1, 2}
      BY <1>4, <2>1
    <3>. QED
      BY <2>2, <2>4, <3>1
  <2>. QED
    BY <1>4, <2>2, <2>4, <2>6, <2>7, <2>8, <2>9 DEF s, u, Parts
<1>5. CASE k = 3
  <2>. DEFINE s == ss[1]
              u == ss[2]
              v == ss[3]
  <2>1. /\ FlattenSeq(ss) = (s \o u) \o v
        /\ s \in Seq(Statements) /\ u \in Seq(Statements) /\ v \in Seq(Statements)
    <3>1. k \in 1 .. 3 /\ 1 \in 1 .. k /\ 2 \in 1 .. k /\ 3 \in 1 .. k
      BY <1>5
    <3>2. FlattenSeq(ss) = (ss[1] \o ss[2]) \o ss[3]
      BY <1>5, <3>1, Flattened, Zenon
    <3>. QED
      BY <3>1, <3>2
  <2>. HIDE DEF s, u, v
  <2>2. s \o u \in Seq(Statements) /\ (s \o u) \o v \in Seq(Statements)
    BY <2>1
  <2>3. PICK f : /\ f[0] = db /\ Takes(f, 0, (s \o u) \o v)
                 /\ f[Len((s \o u) \o v)] = Run(db, FlattenSeq(ss))
                 /\ \A i \in 0 .. Len((s \o u) \o v) : f[i] \in Databases
    BY <1>1, <2>1, <2>2
  <2>4. Takes(f, 0, s \o u) /\ Takes(f, 0 + Len(s \o u), v)
    BY <2>1, <2>2, <2>3, Halves
  <2>5. Takes(f, 0, s) /\ Takes(f, 0 + Len(s), u)
    BY <2>1, <2>4, Halves
  <2>6. /\ Len(s) \in Nat /\ Len(u) \in Nat /\ Len(v) \in Nat
        /\ 0 + Len(s \o u) = 0 + Len(s) + Len(u)
        /\ Len((s \o u) \o v) = 0 + Len(s) + Len(u) + Len(v)
    BY <2>1, <2>2
  <2>. DEFINE a == 0 + Len(s)
              b == 0 + Len(s) + Len(u)
              c == 0 + Len(s) + Len(u) + Len(v)
              g == [j \in 0 .. 3 |-> IF j = 0 THEN db ELSE IF j = 1 THEN f[a]
                                     ELSE IF j = 2 THEN f[b] ELSE f[c]]
  <2>7. a \in Nat /\ b \in Nat /\ b = a + Len(u) /\ c = b + Len(v)
    BY <2>6
  <2>8. g[0] = f[0] /\ g[1] = f[a] /\ g[2] = f[b] /\ g[3] = f[c]
    BY <2>3
  <2>. HIDE DEF g
  <2>9. Leads(g[0], s, g[1]) /\ Leads(g[1], u, g[2]) /\ Leads(g[2], v, g[3])
    <3>1. Leads(g[0], s, g[1])
      BY <2>5, <2>8 DEF Leads
    <3>2. Leads(g[1], u, g[2])
      BY <2>5, <2>7, <2>8 DEF Leads
    <3>3. Leads(g[2], v, g[3])
      BY <2>4, <2>6, <2>7, <2>8 DEF Leads
    <3>. QED
      BY <3>1, <3>2, <3>3
  <2>10. \A j \in 1 .. k : (j = 1 /\ j - 1 = 0) \/ (j = 2 /\ j - 1 = 1) \/ (j = 3 /\ j - 1 = 2)
    BY <1>5
  <2>11. g[3] = Run(db, FlattenSeq(ss))
    BY <2>3, <2>6, <2>8
  <2>12. \A j \in 0 .. k : g[j] \in Databases
    <3>1. /\ a \in 0 .. Len((s \o u) \o v) /\ b \in 0 .. Len((s \o u) \o v)
          /\ c \in 0 .. Len((s \o u) \o v) /\ 0 .. k = {0, 1, 2, 3}
      BY <1>5, <2>6
    <3>. HIDE DEF a, b, c
    <3>. QED
      BY <2>3, <2>8, <3>1
  <2>. QED
    BY <1>5, <2>3, <2>8, <2>9, <2>10, <2>11, <2>12 DEF s, u, v, Parts
<1>. QED
  BY <1>2, <1>3, <1>4, <1>5

LEMMA UpLeads ==
    ASSUME NEW r \in 0 .. 2, NEW b, Leads(Schema(r), Upgrades[r + 1], b)
    PROVE  b = Schema(r + 1)
<1>1. PICK f : \E at \in Nat : /\ f[at] = Schema(r) /\ Takes(f, at, Upgrades[r + 1])
                           /\ f[at + Len(Upgrades[r + 1])] = b
  BY DEF Leads
<1>2. CASE r = 0
  <2>1. Upgrades[r + 1] = CreateSchema /\ Len(CreateSchema) = 8
    BY <1>2 DEF Upgrades, CreateSchema
  <2>. QED
    BY <1>1, <1>2, <2>1, CreatesSchema
<1>3. CASE r = 1
  <2>1. Upgrades[r + 1] = SeedModels /\ Len(SeedModels) = 1
    BY <1>3 DEF Upgrades, SeedModels
  <2>. QED
    BY <1>1, <1>3, <2>1, SeedsModels
<1>4. CASE r = 2
  <2>1. Upgrades[r + 1] = AddResetTables /\ Len(AddResetTables) = 2
    BY <1>4 DEF Upgrades, AddResetTables
  <2>. QED
    BY <1>1, <1>4, <2>1, AddsResetTables
<1>. QED
  BY <1>2, <1>3, <1>4

\* Only the deletion of the models fails, and it does so always.
LEMMA DownLeads ==
    ASSUME NEW r \in 1 .. 3, NEW b, Leads(Schema(r), Downgrades[r], b)
    PROVE  /\ r # 2 => b = Schema(r - 1)
           /\ r = 2 => ~b.ok
<1>1. PICK f : \E at \in Nat : /\ f[at] = Schema(r) /\ Takes(f, at, Downgrades[r])
                           /\ f[at + Len(Downgrades[r])] = b
  BY DEF Leads
<1>2. CASE r = 1
  <2>1. Downgrades[r] = DropSchema /\ Len(DropSchema) = 8
    BY <1>2 DEF Downgrades, DropSchema
  <2>. QED
    BY <1>1, <1>2, <2>1, DropsSchema
<1>3. CASE r = 2
  <2>1. Downgrades[r] = DeleteModels /\ Len(DeleteModels) = 1
    BY <1>3 DEF Downgrades, DeleteModels
  <2>. QED
    BY <1>1, <1>3, <2>1, DeletesNoModels
<1>4. CASE r = 3
  <2>1. Downgrades[r] = DropResetTables /\ Len(DropResetTables) = 2
    BY <1>4 DEF Downgrades, DropResetTables
  <2>. QED
    BY <1>1, <1>4, <2>1, DropsResetTables
<1>. QED
  BY <1>2, <1>3, <1>4

\* After a statement that fails, none does anything.
LEMMA FailureLeads ==
    ASSUME NEW a \in Databases, ~a.ok, NEW script \in Seq(Statements), NEW b, Leads(a, script, b)
    PROVE  ~b.ok
<1>0. PICK f : \E at \in Nat : f[at] = a /\ Takes(f, at, script) /\ f[at + Len(script)] = b
  BY DEF Leads
<1>1. PICK at \in Nat : f[at] = a /\ Takes(f, at, script) /\ f[at + Len(script)] = b
  BY <1>0
<1>. DEFINE Out(i) == ~f[at + i].ok /\ DOMAIN f[at + i] = {"ok", "tables", "models"}
            B == {i \in 0 .. Len(script) : ~Out(i)}
<1>2. B = {}
  <2>. SUFFICES ASSUME B # {} PROVE FALSE
    OBVIOUS
  <2>1. PICK i \in 0 .. Len(script) : ~Out(i) /\ \A m \in B : i <= m
    <3>1. B \in SUBSET Nat
      OBVIOUS
    <3>2. PICK i \in B : \A m \in B : i <= m
      <4>. HIDE DEF B
      <4>. QED
        BY <3>1, LeastNatural
    <3>. QED
      BY <3>2
  <2>2. i # 0
    <3>1. at + 0 = at /\ DOMAIN a = {"ok", "tables", "models"}
      BY DEF Databases
    <3>. QED
      BY <1>1, <2>1, <3>1
  <2>3. i - 1 \in 0 .. Len(script) /\ i \in 1 .. Len(script) /\ at + (i - 1) = at + i - 1
    BY <2>1, <2>2
  <2>4. Out(i - 1)
    <3>1. ~(i <= i - 1)
      OBVIOUS
    <3>. QED
      BY <2>1, <2>3, <3>1
  <2>5. f[at + i] = Execute(f[at + i - 1], script[i])
    BY <1>1, <2>3 DEF Takes
  <2>6. f[at + i] = [f[at + i - 1] EXCEPT !.ok = FALSE]
    BY <2>3, <2>4, <2>5 DEF Execute
  <2>7. Out(i)
    BY <2>3, <2>4, <2>6
  <2>. QED
    BY <2>1, <2>7
<1>3. Out(Len(script))
  <2>1. Len(script) \in 0 .. Len(script) /\ Len(script) \notin B
    <3>1. Len(script) \in Nat
      OBVIOUS
    <3>. HIDE DEF B
    <3>. QED
      BY <1>2, <3>1
  <2>. HIDE DEF Out
  <2>. QED
    BY <2>1
<1>. QED
  BY <1>1, <1>3

----------------------------------------------------------------------------
(* Migrations                                                              *)

\* The tables and the models are those of the revision.
MInv ==
    /\ revision \in Revisions /\ tables = TablesAt(revision) /\ models = ModelsAt(revision)
    /\ (\E j \in Tasks : task[j] # "none") => revision >= 2

NoTasks == \A j \in Tasks : task[j] = "none"

LEMMA SchemaTypes ==
    ASSUME NEW r \in Revisions
    PROVE  Schema(r) \in Databases /\ DOMAIN Schema(r) = {"ok", "tables", "models"} /\ Schema(r).ok
<1>1. TablesAt(r) \in SUBSET Names /\ ModelsAt(r) \in {{}, Models}
  BY RefersTo DEF TablesAt, ModelsAt
<1>. QED
  BY <1>1 DEF Schema, Databases

LEMMA ScriptTypes ==
    /\ \A i \in 1 .. 3 : Upgrades[i] \in Seq(Statements) /\ Downgrades[i] \in Seq(Statements)
<1>1. \A t \in Names : Create(t) \in Statements /\ Drop(t) \in Statements
  BY DEF Statements
<1>2. Insert \in Statements /\ Delete \in Statements
  BY DEF Statements
<1>3. \A t \in Stored : t \in Names
  BY RefersTo
<1>4. "password_reset_attempts" \in Names /\ "password_reset_tokens" \in Names
  BY RefersTo
<1>5. CreateSchema \in Seq(Statements) /\ DropSchema \in Seq(Statements)
  <2>1. /\ "ml_models" \in Names /\ "users" \in Names /\ "balance_ledger_entries" \in Names
        /\ "ml_prediction_tasks" \in Names /\ "user_balances" \in Names
        /\ "user_identities" \in Names /\ "history_records" \in Names /\ "feedback" \in Names
    BY <1>3 DEF Stored
  <2>. QED
    BY <1>1, <2>1 DEF CreateSchema, DropSchema
<1>6. /\ SeedModels \in Seq(Statements) /\ DeleteModels \in Seq(Statements)
      /\ AddResetTables \in Seq(Statements) /\ DropResetTables \in Seq(Statements)
  BY <1>1, <1>2, <1>4 DEF SeedModels, DeleteModels, AddResetTables, DropResetTables
<1>7. /\ Upgrades[1] = CreateSchema /\ Upgrades[2] = SeedModels /\ Upgrades[3] = AddResetTables
      /\ Downgrades[1] = DropSchema /\ Downgrades[2] = DeleteModels /\ Downgrades[3] = DropResetTables
  BY DEF Upgrades, Downgrades
<1>. QED
  BY <1>5, <1>6, <1>7

\* The upgrades get from the schema of each revision to that of each later one.
LEMMA UpgradesLead ==
    ASSUME NEW from \in Revisions, NEW to \in Revisions, to >= from
    PROVE  Run(Schema(from), FlattenSeq([i \in 1 .. to - from |-> Upgrades[from + i]])) = Schema(to)
<1>1. from \in {0, 1, 2, 3} /\ to \in {0, 1, 2, 3}
  BY DEF Revisions
<1>. DEFINE db == Schema(from)
            k == to - from
            ss == [i \in 1 .. k |-> Upgrades[from + i]]
<1>2. db \in Databases
  BY SchemaTypes
<1>. HIDE DEF db
<1>3. Run(db, FlattenSeq(ss)) = Schema(to)
  <2>1. k \in 0 .. 3
    BY <1>1
  <2>2. ASSUME NEW i \in 1 .. k
        PROVE  from + i \in 1 .. 3 /\ ss[i] = Upgrades[from + i]
    BY <1>1
  <2>3. ss \in [1 .. k -> Seq(Statements)]
    <3>1. \A i \in 1 .. k : Upgrades[from + i] \in Seq(Statements)
      <4>. HIDE DEF ss, k
      <4>. QED
        BY <2>2, ScriptTypes
    <3>. HIDE DEF k
    <3>. QED
      BY <3>1
  <2>. HIDE DEF ss
  <2>4. PICK g : Parts(g, k, ss, db)
    <3>1. IsPlan(k, ss)
      <4>. HIDE DEF k
      <4>. QED
        BY <2>1, <2>3 DEF IsPlan
    <3>. HIDE DEF k
    <3>. QED
      BY <1>2, <3>1, RunInParts, Zenon
  <2>5. /\ g[0] = db /\ g[k] = Run(db, FlattenSeq(ss))
        /\ \A j \in 0 .. k : g[j] \in Databases
        /\ \A j \in 1 .. k : Leads(g[j - 1], ss[j], g[j])
    BY <2>4, Zenon DEF Parts
  <2>6. ASSUME NEW j \in 1 .. k, g[j - 1] = Schema(from + (j - 1))
        PROVE  g[j] = Schema(from + j)
    <3>. DEFINE r == from + (j - 1)
    <3>1. r \in 0 .. 2 /\ r + 1 = from + j
      BY <1>1
    <3>2. Leads(Schema(r), Upgrades[r + 1], g[j])
      <4>. HIDE DEF k
      <4>. QED
        BY <2>2, <2>5, <2>6, <3>1
    <3>. HIDE DEF r
    <3>. QED
      BY <3>1, <3>2, UpLeads
  <2>7. g[k] = Schema(from + k)
    <3>1. k = 0 \/ k = 1 \/ k = 2 \/ k = 3
      BY <2>1
    <3>2. g[0] = Schema(from + 0)
      BY <1>1, <2>5 DEF db
    <3>. HIDE DEF k
    <3>3. k >= 1 => g[1] = Schema(from + 1)
      BY <2>1, <2>6, <3>2
    <3>4. k >= 2 => g[2] = Schema(from + 2)
      BY <2>1, <2>6, <3>3
    <3>5. k >= 3 => g[3] = Schema(from + 3)
      BY <2>1, <2>6, <3>4
    <3>. QED
      BY <3>1, <3>2, <3>3, <3>4, <3>5
  <2>. QED
    <3>1. from + k = to
      BY <1>1
    <3>. HIDE DEF k
    <3>. QED
      BY <2>5, <2>7, <3>1
<1>. QED
  BY <1>3 DEF db

\* What a migration makes of the database, and when it fails
LEMMA Outcomes ==
    ASSUME MInv, NEW to \in Revisions
    PROVE  /\ revision < 2 \/ to >= 2 => Outcome(to) = Schema(to)
           /\ revision >= 2 /\ to < 2 => ~Outcome(to).ok
<1>1. /\ revision \in {0, 1, 2, 3} /\ to \in {0, 1, 2, 3}
      /\ [ok |-> TRUE, tables |-> tables, models |-> models] = Schema(revision)
  BY DEF MInv, Revisions, Schema
<1>. DEFINE db == Schema(revision)
<1>2. Outcome(to) = Run(db, PlanTo(to))
  BY <1>1 DEF Outcome, Run
<1>5. db \in Databases
  BY SchemaTypes DEF MInv
<1>. HIDE DEF db
<1>3. CASE to >= revision
  <2>1. PlanTo(to) = FlattenSeq([i \in 1 .. to - revision |-> Upgrades[revision + i]])
    BY <1>3 DEF PlanTo
  <2>2. Outcome(to) = Schema(to)
    BY <1>2, <1>3, <2>1, UpgradesLead DEF db, MInv
  <2>. QED
    BY <1>1, <1>3, <2>2
<1>4. CASE ~(to >= revision)
  <2>. DEFINE k == revision - to
              ss == [i \in 1 .. k |-> Downgrades[revision + 1 - i]]
  <2>1. k \in 1 .. 3
    BY <1>1, <1>4
  <2>2. ASSUME NEW i \in 1 .. k
        PROVE  revision + 1 - i \in 1 .. 3 /\ ss[i] = Downgrades[revision + 1 - i]
    BY <1>1, <1>4
  <2>3. ss \in [1 .. k -> Seq(Statements)]
    <3>1. \A i \in 1 .. k : Downgrades[revision + 1 - i] \in Seq(Statements)
      <4>. HIDE DEF ss, k
      <4>. QED
        BY <2>2, ScriptTypes
    <3>. HIDE DEF k
    <3>. QED
      BY <3>1
  <2>4. PlanTo(to) = FlattenSeq(ss)
    BY <1>4 DEF PlanTo
  <2>. HIDE DEF ss
  <2>12. PICK g : Parts(g, k, ss, db)
    <3>1. IsPlan(k, ss)
      <4>1. k \in 0 .. 3
        BY <2>1
      <4>. HIDE DEF k
      <4>. QED
        BY <2>3, <4>1 DEF IsPlan
    <3>. HIDE DEF k
    <3>. QED
      BY <1>5, <3>1, RunInParts, Zenon
  <2>5. /\ g[0] = db /\ g[k] = Run(db, FlattenSeq(ss))
        /\ \A j \in 0 .. k : g[j] \in Databases
        /\ \A j \in 1 .. k : Leads(g[j - 1], ss[j], g[j])
    BY <2>12, Zenon DEF Parts
  <2>6. ASSUME NEW j \in 1 .. k, g[j - 1] = Schema(revision - (j - 1))
        PROVE  /\ revision - (j - 1) # 2 => g[j] = Schema(revision - j)
               /\ revision - (j - 1) = 2 => ~g[j].ok
    <3>. DEFINE r == revision - (j - 1)
    <3>1. r \in 1 .. 3 /\ r = revision + 1 - j /\ r - 1 = revision - j
      BY <1>1, <1>4
    <3>2. Leads(Schema(r), Downgrades[r], g[j])
      <4>. HIDE DEF k
      <4>. QED
        BY <2>2, <2>5, <2>6, <3>1
    <3>3. /\ r # 2 => g[j] = Schema(r - 1)
          /\ r = 2 => ~g[j].ok
      <4>. HIDE DEF r
      <4>. QED
        BY <3>1, <3>2, DownLeads
    <3>. QED
      BY <3>1, <3>3
  <2>7. k = 1 \/ k = 2 \/ k = 3
    BY <2>1
  <2>8. g[0] = Schema(revision - 0)
    BY <1>1, <2>5 DEF db
  <2>9. Outcome(to) = g[k] /\ revision - k = to
    BY <1>1, <1>2, <2>4, <2>5
  <2>10. CASE revision < 2 \/ to >= 2
    <3>1. \A j \in 1 .. k : revision - (j - 1) # 2
      BY <1>1, <2>10
    <3>2. \A j \in 1 .. k : g[j - 1] = Schema(revision - (j - 1)) => g[j] = Schema(revision - j)
      BY <2>6, <3>1
    <3>. HIDE DEF k
    <3>3. g[1] = Schema(revision - 1)
      BY <2>1, <2>8, <3>2
    <3>4. k >= 2 => g[2] = Schema(revision - 2)
      BY <2>1, <3>2, <3>3
    <3>5. k >= 3 => g[3] = Schema(revision - 3)
      BY <2>1, <3>2, <3>4
    <3>6. g[k] = Schema(to)
      BY <2>7, <2>9, <3>3, <3>4, <3>5
    <3>. QED
      BY <1>1, <2>9, <2>10, <3>6
  <2>11. CASE revision >= 2 /\ to < 2
    <3>1. revision \in {2, 3}
      BY <1>1, <2>11
    <3>2. ASSUME NEW j \in 1 .. k, j # 1, ~g[j - 1].ok
          PROVE  ~g[j].ok
      <4>1. g[j - 1] \in Databases /\ ss[j] \in Seq(Statements) /\ Leads(g[j - 1], ss[j], g[j])
        BY <2>1, <2>3, <2>5
      <4>. QED
        BY <3>2, <4>1, FailureLeads
    <3>3. CASE revision = 2
      <4>1. ~g[1].ok
        <5>1. 1 \in 1 .. k /\ revision - (1 - 1) = 2 /\ 1 - 1 = 0 /\ revision - 0 = 2
          BY <2>1, <3>3
        <5>. HIDE DEF k
        <5>. QED
          BY <2>6, <2>8, <2>11, <5>1
      <4>2. k = 2 => ~g[2].ok
        <5>1. k = 2 => 2 \in 1 .. k /\ 2 # 1 /\ 2 - 1 = 1
          OBVIOUS
        <5>. HIDE DEF k
        <5>. QED
          BY <3>2, <4>1, <5>1
      <4>3. k = 1 \/ k = 2
        BY <1>1, <1>4, <3>3
      <4>4. ~g[k].ok
        <5>. HIDE DEF k
        <5>. QED
          BY <4>1, <4>2, <4>3
      <4>6. ~Outcome(to).ok
        <5>. HIDE DEF k
        <5>. QED
          BY <2>9, <4>4
      <4>. QED
        BY <1>1, <2>11, <4>6
    <3>4. CASE revision = 3
      <4>1. k = 2 \/ k = 3
        BY <1>1, <2>11, <3>4
      <4>2. g[1] = Schema(2)
        <5>1. 1 \in 1 .. k /\ revision - (1 - 1) # 2 /\ 1 - 1 = 0 /\ revision - 0 = 3 /\ revision - (1 - 1) = 3
              /\ revision - 1 = 2
          BY <2>1, <3>4
        <5>. HIDE DEF k
        <5>. QED
          BY <2>6, <2>8, <5>1
      <4>3. ~g[2].ok
        <5>1. 2 \in 1 .. k /\ revision - (2 - 1) = 2 /\ 2 - 1 = 1
          BY <3>4, <4>1
        <5>. HIDE DEF k
        <5>. QED
          BY <2>6, <2>11, <4>2, <5>1
      <4>4. k = 3 => ~g[3].ok
        <5>1. k = 3 => 3 \in 1 .. k /\ 3 # 1 /\ 3 - 1 = 2
          OBVIOUS
        <5>. HIDE DEF k
        <5>. QED
          BY <3>2, <4>3, <5>1
      <4>5. ~g[k].ok
        <5>. HIDE DEF k
        <5>. QED
          BY <4>1, <4>3, <4>4
      <4>6. ~Outcome(to).ok
        <5>. HIDE DEF k
        <5>. QED
          BY <2>9, <4>5
      <4>. QED
        BY <1>1, <2>11, <4>6
    <3>. QED
      BY <3>1, <3>3, <3>4
  <2>. QED
    BY <1>1, <2>10, <2>11
<1>. QED
  BY <1>3, <1>4

----------------------------------------------------------------------------
(* The books                                                               *)

\* What a journal has of a login, and its balance
Held(J, l, k) == {e \in J : e.login = l /\ e.kind = k}
Balance(J, l) == Total(Held(J, l, "credit")) - Total(Held(J, l, "debit"))
IsBooked(e) == e.amount \in Int /\ e.kind \in {"credit", "debit"}
Countable(J) == IsFiniteSet(J) /\ \A e \in J : IsBooked(e)
Change(e, l) == IF e.login # l THEN 0 ELSE IF e.kind = "credit" THEN e.amount ELSE 0 - e.amount

LEMMA HeldTotals ==
    ASSUME NEW J, Countable(J), NEW l, NEW k
    PROVE  Total(Held(J, l, k)) \in Int
<1>1. IsFiniteSet(Held(J, l, k))
  BY FS_Subset DEF Countable, Held
<1>2. \A e \in Held(J, l, k) : e.amount \in Int
  BY DEF Countable, IsBooked, Held
<1>. QED
  BY <1>1, <1>2, Totals

\* An entry changes the balance of its login by its amount.
LEMMA Booked ==
    ASSUME NEW J, Countable(J), NEW e, e \notin J, IsBooked(e), NEW l
    PROVE  Balance(J \cup {e}, l) = Balance(J, l) + Change(e, l)
<1>1. ASSUME NEW k
      PROVE  /\ e.login = l /\ e.kind = k =>
                   Total(Held(J \cup {e}, l, k)) = Total(Held(J, l, k)) + e.amount
             /\ ~(e.login = l /\ e.kind = k) =>
                   Total(Held(J \cup {e}, l, k)) = Total(Held(J, l, k))
  <2>1. CASE e.login = l /\ e.kind = k
    <3>1. Held(J \cup {e}, l, k) = Held(J, l, k) \cup {e}
      BY <2>1 DEF Held
    <3>2. IsFiniteSet(Held(J, l, k)) /\ e \notin Held(J, l, k) /\ e.amount \in Int
      BY FS_Subset DEF Countable, Held, IsBooked
    <3>3. \A x \in Held(J, l, k) : x.amount \in Int
      BY DEF Countable, IsBooked, Held
    <3>4. Total(Held(J, l, k) \cup {e}) = Total(Held(J, l, k)) + e.amount
      BY <3>2, <3>3, TotalWith
    <3>. QED
      BY <2>1, <3>1, <3>4
  <2>2. CASE ~(e.login = l /\ e.kind = k)
    <3>1. Held(J \cup {e}, l, k) = Held(J, l, k)
      BY <2>2 DEF Held
    <3>. QED
      BY <2>2, <3>1
  <2>. QED
    BY <2>1, <2>2
<1>2. Total(Held(J, l, "credit")) \in Int /\ Total(Held(J, l, "debit")) \in Int /\ e.amount \in Int
  BY HeldTotals DEF IsBooked
<1>3. e.kind = "credit" \/ e.kind = "debit"
  BY DEF IsBooked
<1>. DEFINE c == Total(Held(J, l, "credit"))
            d == Total(Held(J, l, "debit"))
            c1 == Total(Held(J \cup {e}, l, "credit"))
            d1 == Total(Held(J \cup {e}, l, "debit"))
<1>4. CASE e.login # l
  <2>1. c1 = c /\ d1 = d
    BY <1>1, <1>4
  <2>. QED
    BY <1>2, <1>4, <2>1 DEF Balance, Change
<1>5. CASE e.login = l /\ e.kind = "credit"
  <2>1. c1 = c + e.amount /\ d1 = d
    BY <1>1, <1>5
  <2>. QED
    BY <1>2, <1>5, <2>1 DEF Balance, Change
<1>6. CASE e.login = l /\ e.kind = "debit"
  <2>1. c1 = c /\ d1 = d + e.amount
    BY <1>1, <1>6
  <2>. QED
    BY <1>2, <1>6, <2>1 DEF Balance, Change
<1>. QED
  BY <1>3, <1>4, <1>5, <1>6

LEMMA BookedIf ==
    ASSUME NEW J, Countable(J), NEW b \in BOOLEAN, NEW e, b => e \notin J, IsBooked(e),
           NEW K, K = J \cup (IF b THEN {e} ELSE {})
    PROVE  /\ Countable(K)
           /\ \A l : Balance(K, l) = Balance(J, l) + (IF b THEN Change(e, l) ELSE 0)
<1>1. CASE b
  <2>1. Countable(J \cup {e})
    BY FS_AddElement DEF Countable
  <2>. QED
    BY <1>1, <2>1, Booked
<1>2. CASE ~b
  <2>1. K = J
    BY <1>2
  <2>2. \A l : Balance(J, l) \in Int
    BY HeldTotals DEF Balance
  <2>. QED
    BY <1>2, <2>1, <2>2
<1>. QED
  BY <1>1, <1>2

LEMMA SumsAre ==
    /\ \A l : Sum(l, "credit") - Sum(l, "debit") = Balance(journal, l)
    /\ \A l : (Sum(l, "credit") - Sum(l, "debit"))' = Balance(journal', l)
<1>1. ASSUME NEW l, NEW k
      PROVE  /\ Sum(l, k) = Total(Held(journal, l, k))
             /\ Sum(l, k)' = Total(Held(journal', l, k))
  BY DEF Sum, Held, Total, MapThenSumSet, MapThenFoldSet
<1>. QED
  BY <1>1 DEF Balance

\* What a script that has decided on the debit is about to write, and an edit
Decided(s) ==
    /\ s.kind = "seed" /\ s.phase = "debited" =>
          /\ s.debits <=> "admin" \in s.absent
          /\ s.debits => s.balance = AdminTopup - AdminDebit
    /\ s.kind = "edit" => s.writes \subseteq Fields

Decisions == \A t \in Threads : Decided(session[t])

Users ==
    \A l \in Logins : account[l] = NoAccount \/
        (DOMAIN account[l] = Fields \cup {"by"} /\ account[l].by \in {"seed", "person"})

\* An entry of the journal, with what it is of
IsEntry(e) ==
    \/ \E l \in Logins : e = Credit(l) /\ account[l].by = "seed"
    \/ e = Debit /\ account["admin"].by = "seed"
    \/ \E k \in 0 .. transfers - 1, l \in Logins :
          e = Entry(<<"transfer", k>>, l, "credit", 1) /\ account[l] # NoAccount
    \/ \E j \in Tasks :
          e = Entry(<<"task", j>>, "user", "debit", Price[j]) /\ task[j] = "completed"

Journal ==
    /\ IsFiniteSet(journal) /\ \A e \in journal : IsEntry(e)
    /\ account["admin"].by = "seed" => Debit \in journal
    /\ (\E j \in Tasks : task[j] # "none") => account["user"] # NoAccount

Wallets ==
    /\ DOMAIN wallet = Logins /\ transfers \in Nat
    /\ \A l \in Logins : account[l] = NoAccount => wallet[l] = 0
    /\ \A l \in Logins : wallet[l] = Balance(journal, l)

BInv == Users /\ Journal /\ Wallets /\ Decisions

LEMMA EntryTypes ==
    ASSUME DatabaseAssumption
    PROVE  /\ \A l : IsBooked(Credit(l)) /\ Credit(l).login = l /\ Credit(l).kind = "credit"
           /\ \A l : Credit(l).amount = Topup(l)
           /\ IsBooked(Debit) /\ Debit.login = "admin" /\ Debit.kind = "debit"
           /\ Debit.amount = AdminDebit
           /\ \A id, l : IsBooked(Entry(id, l, "credit", 1))
           /\ \A id, l : \A j \in Tasks : IsBooked(Entry(id, l, "debit", Price[j]))
<1>1. /\ AdminDebit \in Int /\ \A l : Topup(l) \in Int
      /\ \A j \in Tasks : Price[j] \in Int
  BY DEF DatabaseAssumption, Topup
<1>. QED
  BY <1>1 DEF IsBooked, Credit, Debit, Entry

LEMMA JournalCounts ==
    ASSUME DatabaseAssumption, Journal
    PROVE  Countable(journal)
<1>. SUFFICES ASSUME NEW e \in journal PROVE IsBooked(e)
  BY DEF Countable, Journal
<1>1. IsEntry(e)
  BY DEF Journal
<1>2. CASE \E l \in Logins : e = Credit(l)
  BY <1>2, EntryTypes
<1>3. CASE e = Debit
  BY <1>3, EntryTypes
<1>4. CASE \E id, l : e = Entry(id, l, "credit", 1)
  BY <1>4, EntryTypes
<1>5. CASE \E j \in Tasks : e = Entry(<<"task", j>>, "user", "debit", Price[j])
  BY <1>5, EntryTypes
<1>. QED
  BY <1>1, <1>2, <1>3, <1>4, <1>5 DEF IsEntry

\* Ids tell entries apart.
LEMMA Identified ==
    ASSUME NEW e, IsEntry(e)
    PROVE  /\ \A l \in Logins : e.id = <<"credit", l>> => account[l].by = "seed"
           /\ e.id = Debit.id => e = Debit /\ account["admin"].by = "seed"
           /\ e.id # <<"transfer", transfers>> \/ transfers \notin Nat
           /\ \A j \in Tasks : e.id = <<"task", j>> => task[j] = "completed"
<1>1. CASE \E l \in Logins : e = Credit(l) /\ account[l].by = "seed"
  BY <1>1 DEF Credit, Debit, Entry
<1>2. CASE e = Debit /\ account["admin"].by = "seed"
  BY <1>2 DEF Debit, Entry
<1>3. CASE \E k \in 0 .. transfers - 1, l \in Logins :
              e = Entry(<<"transfer", k>>, l, "credit", 1) /\ account[l] # NoAccount
  BY <1>3 DEF Debit, Entry
<1>4. CASE \E j \in Tasks :
              e = Entry(<<"task", j>>, "user", "debit", Price[j]) /\ task[j] = "completed"
  BY <1>4 DEF Debit, Entry
<1>. QED
  BY <1>1, <1>2, <1>3, <1>4 DEF IsEntry

\* Users stay, and tasks stay completed: then entries stay entries.
Stay ==
    /\ \A l \in Logins : /\ account[l] # NoAccount => account'[l] # NoAccount
                         /\ account[l].by = "seed" => account'[l].by = "seed"
    /\ \A j \in Tasks : task[j] = "completed" => task'[j] = "completed"
    /\ transfers \in Nat /\ transfers' \in Nat /\ transfers' >= transfers

LEMMA EntriesStay ==
    ASSUME Stay, NEW e, IsEntry(e)
    PROVE  IsEntry(e)'
<1>1. CASE \E l \in Logins : e = Credit(l) /\ account[l].by = "seed"
  BY <1>1 DEF Stay, IsEntry
<1>2. CASE e = Debit /\ account["admin"].by = "seed"
  BY <1>2 DEF Stay, IsEntry, Logins
<1>3. CASE \E k \in 0 .. transfers - 1, l \in Logins :
              e = Entry(<<"transfer", k>>, l, "credit", 1) /\ account[l] # NoAccount
  <2>1. PICK k \in 0 .. transfers - 1 : \E l \in Logins :
              e = Entry(<<"transfer", k>>, l, "credit", 1) /\ account[l] # NoAccount
    BY <1>3
  <2>2. k \in 0 .. transfers' - 1
    <3>1. transfers \in Nat /\ transfers' \in Nat /\ transfers' >= transfers
      BY DEF Stay
    <3>2. \A m, n \in Nat : n >= m => \A i \in 0 .. m - 1 : i \in 0 .. n - 1
      OBVIOUS
    <3>. QED
      BY <3>1, <3>2, Zenon
  <2>. QED
    BY <2>1, <2>2 DEF Stay, IsEntry
<1>4. CASE \E j \in Tasks :
              e = Entry(<<"task", j>>, "user", "debit", Price[j]) /\ task[j] = "completed"
  BY <1>4 DEF Stay, IsEntry
<1>. QED
  BY <1>1, <1>2, <1>3, <1>4 DEF IsEntry

\* The script debits the administrator that it creates, and no other.
LEMMA DebitsOwn ==
    ASSUME DatabaseAssumption, EInv, Journal, NEW t \in Threads, DebitAdmin(t)
    PROVE  LET own == "admin" \in session[t].absent
               balance == IF own THEN AdminTopup ELSE wallet["admin"]
               debits == /\ ~Journalled(Debit.id)
                         /\ own \/ account["admin"].by = "seed"
                         /\ balance >= AdminDebit
           IN /\ debits <=> own
              /\ debits => balance - AdminDebit = AdminTopup - AdminDebit
<1>1. "admin" \in Logins
  BY DEF Logins
<1>2. CASE "admin" \in session[t].absent
  <2>1. Holds(session[t], "admin")
    BY <1>2 DEF Holds, DebitAdmin, Seeding
  <2>2. account["admin"] = NoAccount
    BY <1>1, <2>1 DEF EInv, Seeds
  <2>3. account["admin"].by # "seed"
    BY <2>2 DEF NoAccount
  <2>4. ~Journalled(Debit.id)
    BY <2>3, Identified DEF Journalled, Journal
  <2>5. AdminTopup >= AdminDebit
    BY DEF DatabaseAssumption
  <2>. QED
    BY <1>2, <2>4, <2>5
<1>3. CASE "admin" \notin session[t].absent
  <2>1. account["admin"].by = "seed" => Journalled(Debit.id)
    BY DEF Journal, Journalled
  <2>. QED
    BY <1>3, <2>1
<1>. QED
  BY <1>2, <1>3

\* What no session of statistics and no decision is but the one it was
Plain(s) == Decided(s) /\ (s.kind # "stats" \/ s.counts = <<>>)

LEMMA NewSessions ==
    ASSUME DatabaseAssumption, EInv, Journal, Decisions, NEW t \in Threads,
           \/ StartSeed(t) \/ SeedStep(t) \/ Save(t) \/ CommitEdit(t)
           \/ StartStats(t) \/ EndStats(t) \/ Abort(t)
           \/ \E l \in Logins, r \in Requests : StartEdit(t, l, r)
    PROVE  \A o \in Threads : session'[o] = session[o] \/ Plain(session'[o])
<1>1. ASSUME NEW s, Puts(t, s), Plain(s)
      PROVE  \A o \in Threads : session'[o] = session[o] \/ Plain(session'[o])
  BY <1>1, PutOne DEF EInv
<1>2. Shape(session[t]) /\ Decided(session[t])
  BY DEF EInv, Shapes, Decisions
<1>3. CASE StartSeed(t) \/ StartStats(t) \/ \E l \in Logins, r \in Requests : StartEdit(t, l, r)
  <2>1. ASSUME NEW s, Open(t, s)
        PROVE  Puts(t, s)
    BY <2>1 DEF Open, Puts
  <2>2. CASE StartSeed(t)
    <3>. DEFINE s == [kind |-> "seed", phase |-> "looked", absent |-> Absent("user"),
                      debits |-> FALSE, balance |-> 0]
    <3>1. Open(t, s)
      BY <2>2 DEF StartSeed
    <3>2. Plain(s)
      BY DEF Plain, Decided
    <3>. QED
      BY <1>1, <2>1, <3>1, <3>2
  <2>3. CASE StartStats(t)
    <3>. DEFINE s == [kind |-> "stats", counts |-> <<>>]
    <3>1. Open(t, s)
      BY <2>3 DEF StartStats
    <3>2. Plain(s)
      BY DEF Plain, Decided
    <3>. QED
      BY <1>1, <2>1, <3>1, <3>2
  <2>4. ASSUME NEW l \in Logins, NEW r \in Requests, StartEdit(t, l, r)
        PROVE  \E s : Open(t, s) /\ s.kind = "edit" /\ s.writes = {}
    BY <2>4 DEF StartEdit
  <2>5. \A s : s.kind = "edit" /\ s.writes = {} => Plain(s)
    BY DEF Plain, Decided
  <2>. QED
    BY <1>1, <1>3, <2>1, <2>2, <2>3, <2>4, <2>5
<1>4. CASE Close(t)
  <2>1. Puts(t, NoSession) /\ Plain(NoSession)
    BY <1>4 DEF Close, Puts, NoSession, Plain, Decided
  <2>. QED
    BY <1>1, <2>1
<1>5. CASE LookForAdmin(t) \/ AddUsers(t) \/ DebitAdmin(t)
  <2>1. IsSeed(session[t])
    BY <1>2, <1>5 DEF Shape, IsEdit, IsStats, NoSession, LookForAdmin, AddUsers, DebitAdmin, Seeding
  <2>2. CASE LookForAdmin(t)
    <3>. DEFINE a == session[t].absent \cup Absent("admin")
                s == [session[t] EXCEPT !.phase = "adding", !.absent = a]
    <3>1. session' = [session EXCEPT ![t].phase = "adding", ![t].absent = a]
      BY <2>2 DEF LookForAdmin
    <3>. HIDE DEF a
    <3>2. Puts(t, s) /\ Plain(s)
      BY <2>1, <3>1 DEF IsSeed, Puts, EInv, Shapes, Plain, Decided
    <3>. QED
      BY <1>1, <3>2
  <2>3. CASE AddUsers(t) /\ ~Close(t)
    <3>. DEFINE s == [session[t] EXCEPT !.phase = "added"]
    <3>1. session' = [session EXCEPT ![t].phase = "added"]
      BY <2>3 DEF AddUsers
    <3>2. Puts(t, s) /\ Plain(s)
      BY <2>1, <3>1 DEF IsSeed, Puts, Plain, Decided
    <3>. QED
      BY <1>1, <3>2
  <2>4. CASE DebitAdmin(t)
    <3>. DEFINE own == "admin" \in session[t].absent
                balance == IF own THEN AdminTopup ELSE wallet["admin"]
                d == /\ ~Journalled(Debit.id)
                     /\ own \/ account["admin"].by = "seed"
                     /\ balance >= AdminDebit
                b == balance - AdminDebit
                s == [session[t] EXCEPT !.phase = "debited", !.debits = d, !.balance = b]
    <3>1. session' = [session EXCEPT ![t].phase = "debited", ![t].debits = d, ![t].balance = b]
      BY <2>4 DEF DebitAdmin
    <3>2. (d <=> own) /\ (d => b = AdminTopup - AdminDebit)
      BY <2>4, DebitsOwn
    <3>. HIDE DEF d, b
    <3>3. Puts(t, s)
      BY <2>1, <3>1 DEF IsSeed, Puts, EInv, Shapes
    <3>4. s.kind = "seed" /\ s.debits = d /\ s.balance = b /\ s.absent = session[t].absent
      BY <2>1 DEF IsSeed
    <3>. HIDE DEF s
    <3>5. Plain(s)
      BY <3>2, <3>4 DEF Plain, Decided
    <3>. QED
      BY <1>1, <3>3, <3>5
  <2>. QED
    BY <1>4, <1>5, <2>2, <2>3, <2>4
<1>6. CASE Save(t)
  <2>. DEFINE w == {f \in Fields : session[t].row[f] # account[session[t].login][f]}
              s == [session[t] EXCEPT !.phase = "flushing", !.writes = w]
  <2>1. IsEdit(session[t])
    BY <1>2, <1>6 DEF Shape, IsSeed, IsStats, NoSession, Save, Editing
  <2>2. session' = [session EXCEPT ![t].phase = "flushing", ![t].writes = w] /\ w \subseteq Fields
    BY <1>6 DEF Save
  <2>. HIDE DEF w
  <2>3. Puts(t, s) /\ Plain(s)
    BY <2>1, <2>2 DEF IsEdit, Puts, EInv, Shapes, Plain, Decided
  <2>. QED
    BY <1>1, <2>3
<1>7. CASE CommitEdit(t)
  <2>. SUFFICES ASSUME NEW o \in Threads
                PROVE  session'[o] = session[o] \/ Plain(session'[o])
    OBVIOUS
  <2>1. session'[o] = IF o = t THEN NoSession
                      ELSE IF Editing(o, "saving") /\ session[o].login = session[t].login
                      THEN [session[o] EXCEPT !.raced = TRUE] ELSE session[o]
    BY <1>7 DEF CommitEdit
  <2>2. Editing(o, "saving") => Plain([session[o] EXCEPT !.raced = TRUE])
    <3>1. Editing(o, "saving") => IsEdit(session[o]) /\ Decided(session[o])
      BY DEF Editing, EInv, Shapes, Shape, IsSeed, IsStats, NoSession, Decisions
    <3>. QED
      BY <3>1 DEF IsEdit, Plain, Decided
  <2>3. Plain(NoSession)
    BY DEF NoSession, Plain, Decided
  <2>. QED
    BY <2>1, <2>2, <2>3
<1>. QED
  BY <1>3, <1>4, <1>5, <1>6, <1>7 DEF SeedStep, CommitSeed, EndStats, Abort

\* Nothing is booked, and whoever appears has no money.
LEMMA NothingBooked ==
    ASSUME Journal, Wallets, Stay, UNCHANGED <<wallet, journal>>,
           account'["admin"].by = "seed" => account["admin"].by = "seed",
           (\E j \in Tasks : task'[j] # "none") => account'["user"] # NoAccount
    PROVE  Journal' /\ Wallets'
<1>1. \A e \in journal' : IsEntry(e)'
  BY EntriesStay DEF Journal
<1>2. Journal'
  BY <1>1 DEF Journal
<1>3. Wallets'
  BY DEF Wallets, Stay
<1>. QED
  BY <1>2, <1>3

\* One entry, with its change of the wallet
LEMMA OneBooked ==
    ASSUME DatabaseAssumption, Journal, Wallets, Stay, UNCHANGED account,
           NEW l \in Logins, NEW e, account[l] # NoAccount, e.login = l,
           IsBooked(e), e \notin journal, IsEntry(e)', journal' = journal \cup {e},
           wallet' = [wallet EXCEPT ![l] = @ + Change(e, l)],
           (\E j \in Tasks : task'[j] # "none") => account["user"] # NoAccount
    PROVE  Journal' /\ Wallets'
<1>1. \A x \in journal' : IsEntry(x)'
  BY EntriesStay DEF Journal
<1>2. IsFiniteSet(journal')
  BY FS_AddElement DEF Journal
<1>3. Journal'
  BY <1>1, <1>2 DEF Journal
<1>4. ASSUME NEW k \in Logins
      PROVE  /\ wallet'[k] = Balance(journal', k)
             /\ account[k] = NoAccount => wallet'[k] = 0
  <2>1. Balance(journal', k) = Balance(journal, k) + Change(e, k)
    BY JournalCounts, Booked
  <2>2. Balance(journal, k) \in Int
    BY JournalCounts, HeldTotals DEF Balance
  <2>3. CASE k = l
    <3>1. wallet'[l] = wallet[l] + Change(e, l)
      BY DEF Wallets
    <3>2. wallet[l] = Balance(journal, l)
      BY DEF Wallets
    <3>. QED
      BY <2>1, <2>3, <3>1, <3>2
  <2>4. CASE k # l
    <3>1. wallet'[k] = wallet[k] /\ Change(e, k) = 0
      BY <2>4 DEF Wallets, Change
    <3>2. wallet[k] = Balance(journal, k) /\ (account[k] = NoAccount => wallet[k] = 0)
      BY DEF Wallets
    <3>. QED
      BY <2>1, <2>2, <3>1, <3>2
  <2>. QED
    BY <2>3, <2>4
<1>5. Wallets'
  BY <1>4 DEF Wallets, Stay
<1>. QED
  BY <1>3, <1>5

LEMMA TopUpBooks ==
    ASSUME DatabaseAssumption, BInv, NEW l \in Logins, TopUp(l)
    PROVE  BInv'
<1>e. PICK e : e = Entry(<<"transfer", transfers>>, l, "credit", 1)
  OBVIOUS
<1>1. Journal /\ Wallets /\ transfers \in Nat
  BY DEF BInv, Wallets
<1>2. /\ UNCHANGED <<account, task, session>> /\ account[l] # NoAccount
      /\ transfers' = transfers + 1 /\ journal' = journal \cup {e}
      /\ wallet' = [wallet EXCEPT ![l] = @ + 1]
  BY <1>e DEF TopUp
<1>3. Stay
  BY <1>1, <1>2 DEF Stay
<1>4. IsBooked(e) /\ e.login = l /\ Change(e, l) = 1 /\ e.id = <<"transfer", transfers>>
  BY <1>e, EntryTypes DEF Entry, Change
<1>5. IsEntry(e)'
  <2>1. transfers \in 0 .. transfers' - 1
    BY <1>1, <1>2
  <2>2. \E k \in 0 .. transfers' - 1, m \in Logins :
           e = Entry(<<"transfer", k>>, m, "credit", 1) /\ account'[m] # NoAccount
    BY <1>e, <1>2, <2>1
  <2>. QED
    BY <2>2 DEF IsEntry
<1>6. e \notin journal
  BY <1>1, <1>4, Identified DEF Journal
<1>7. Journal' /\ Wallets'
  <2>1. (\E j \in Tasks : task'[j] # "none") => account["user"] # NoAccount
    BY <1>1, <1>2 DEF Journal
  <2>2. wallet' = [wallet EXCEPT ![l] = @ + Change(e, l)]
    BY <1>2, <1>4
  <2>. QED
    BY <1>1, <1>2, <1>3, <1>4, <1>5, <1>6, <2>1, <2>2, OneBooked
<1>8. Users' /\ Decisions'
  BY <1>2 DEF BInv, Users, Decisions, Decided
<1>. QED
  BY <1>7, <1>8 DEF BInv

LEMMA CompleteBooks ==
    ASSUME DatabaseAssumption, BInv, DOMAIN task = Tasks, NEW j \in Tasks, Complete(j)
    PROVE  BInv'
<1>. DEFINE e == Entry(<<"task", j>>, "user", "debit", Price[j])
<1>1. Journal /\ Wallets /\ transfers \in Nat /\ "user" \in Logins /\ Price[j] \in Nat
  BY DEF BInv, Wallets, Logins, DatabaseAssumption
<1>2. /\ UNCHANGED <<account, transfers, session>> /\ task[j] = "pending"
      /\ task' = [task EXCEPT ![j] = "completed"] /\ journal' = journal \cup {e}
      /\ wallet' = [wallet EXCEPT !["user"] = @ - Price[j]]
  BY DEF Complete
<1>3. Stay
  BY <1>1, <1>2 DEF Stay
<1>4. /\ IsBooked(e) /\ e.login = "user" /\ Change(e, "user") = 0 - Price[j]
      /\ e.id = <<"task", j>>
  BY EntryTypes DEF Entry, Change
<1>5. IsEntry(e)'
  <2>1. task'[j] = "completed"
    BY <1>2
  <2>. QED
    BY <2>1 DEF IsEntry
<1>. HIDE DEF e
<1>6. e \notin journal
  BY <1>1, <1>2, <1>4, Identified DEF Journal
<1>7. account["user"] # NoAccount
  BY <1>1, <1>2 DEF Journal
<1>8. wallet' = [wallet EXCEPT !["user"] = @ + Change(e, "user")]
  <2>1. wallet["user"] \in Int
    BY <1>1, JournalCounts, HeldTotals DEF Wallets, Balance
  <2>2. wallet["user"] - Price[j] = wallet["user"] + Change(e, "user")
    BY <1>1, <1>4, <2>1
  <2>. QED
    BY <1>2, <2>2
<1>9. Journal' /\ Wallets'
  BY <1>1, <1>2, <1>3, <1>4, <1>5, <1>6, <1>7, <1>8, OneBooked
<1>10. Users' /\ Decisions'
  BY <1>2 DEF BInv, Users, Decisions, Decided
<1>. QED
  BY <1>9, <1>10 DEF BInv

LEMMA AdminIn == "admin" \in Logins /\ "user" \in Logins
  BY DEF Logins

\* What the script gives to the accounts that it creates
Gifts(u, a) ==
    (IF u THEN {Credit("user")} ELSE {}) \cup (IF a THEN {Credit("admin"), Debit} ELSE {})

LEMMA GiftsCount ==
    ASSUME DatabaseAssumption, NEW J, Countable(J), NEW u \in BOOLEAN, NEW a \in BOOLEAN,
           u => Credit("user") \notin J, a => Credit("admin") \notin J /\ Debit \notin J
    PROVE  LET K == J \cup Gifts(u, a) IN
           /\ Countable(K)
           /\ Balance(K, "user") = Balance(J, "user") + (IF u THEN UserTopup ELSE 0)
           /\ Balance(K, "admin") =
                 Balance(J, "admin") + (IF a THEN AdminTopup - AdminDebit ELSE 0)
<1>. DEFINE J1 == J \cup (IF u THEN {Credit("user")} ELSE {})
            J2 == J1 \cup (IF a THEN {Credit("admin")} ELSE {})
            J3 == J2 \cup (IF a THEN {Debit} ELSE {})
<1>1. J \cup Gifts(u, a) = J3
  BY DEF Gifts
<1>2. /\ Credit("user") # Credit("admin") /\ Debit # Credit("user") /\ Debit # Credit("admin")
  BY DEF Credit, Debit, Entry
<1>3. IsBooked(Credit("user")) /\ IsBooked(Credit("admin")) /\ IsBooked(Debit)
  BY EntryTypes
<1>4. /\ a => Credit("admin") \notin J1 /\ Debit \notin J2
      /\ J1 = J \cup (IF u THEN {Credit("user")} ELSE {})
      /\ J2 = J1 \cup (IF a THEN {Credit("admin")} ELSE {})
      /\ J3 = J2 \cup (IF a THEN {Debit} ELSE {})
  BY <1>2
<1>. HIDE DEF J1, J2, J3
<1>5. /\ Countable(J1)
      /\ \A l : Balance(J1, l) = Balance(J, l) + (IF u THEN Change(Credit("user"), l) ELSE 0)
  BY <1>3, <1>4, BookedIf
<1>6. /\ Countable(J2)
      /\ \A l : Balance(J2, l) = Balance(J1, l) + (IF a THEN Change(Credit("admin"), l) ELSE 0)
  BY <1>3, <1>4, <1>5, BookedIf
<1>7. /\ Countable(J3)
      /\ \A l : Balance(J3, l) = Balance(J2, l) + (IF a THEN Change(Debit, l) ELSE 0)
  BY <1>3, <1>4, <1>6, BookedIf
<1>8. /\ Change(Credit("user"), "user") = UserTopup /\ Change(Credit("user"), "admin") = 0
      /\ Change(Credit("admin"), "user") = 0 /\ Change(Credit("admin"), "admin") = AdminTopup
      /\ Change(Debit, "user") = 0 /\ Change(Debit, "admin") = 0 - AdminDebit
  <2>1. Topup("user") = UserTopup /\ Topup("admin") = AdminTopup
    BY DEF Topup
  <2>. QED
    BY <2>1, EntryTypes DEF Change
<1>9. /\ Balance(J, "user") \in Int /\ Balance(J, "admin") \in Int
      /\ UserTopup \in Int /\ AdminTopup \in Int /\ AdminDebit \in Int
  BY HeldTotals DEF Balance, DatabaseAssumption
<1>10. Balance(J3, "user") = Balance(J, "user") + (IF u THEN UserTopup ELSE 0)
  <2>1. /\ Balance(J1, "user") = Balance(J, "user") + (IF u THEN UserTopup ELSE 0)
        /\ Balance(J2, "user") = Balance(J1, "user") + 0
        /\ Balance(J3, "user") = Balance(J2, "user") + 0
    BY <1>5, <1>6, <1>7, <1>8
  <2>. QED
    BY <1>9, <2>1
<1>11. Balance(J3, "admin") = Balance(J, "admin") + (IF a THEN AdminTopup - AdminDebit ELSE 0)
  <2>1. /\ Balance(J1, "admin") = Balance(J, "admin") + 0
        /\ Balance(J2, "admin") = Balance(J1, "admin") + (IF a THEN AdminTopup ELSE 0)
        /\ Balance(J3, "admin") = Balance(J2, "admin") + (IF a THEN 0 - AdminDebit ELSE 0)
    BY <1>5, <1>6, <1>7, <1>8
  <2>. QED
    BY <1>9, <2>1
<1>. QED
  BY <1>1, <1>7, <1>10, <1>11

\* The money that the script gives to the accounts it creates
LEMMA SeedBooks ==
    ASSUME DatabaseAssumption, EInv, BInv, NEW t \in Threads, CommitSeed(t)
    PROVE  Users' /\ Journal' /\ Wallets'
<1>. DEFINE s == session[t]
            new == session[t].absent
<1>1. IsSeed(s) /\ s.phase = "debited" /\ Decided(s)
  BY DEF EInv, Shapes, Shape, IsSeed, IsEdit, IsStats, NoSession, CommitSeed, Seeding, BInv, Decisions
<1>2. /\ new \subseteq Logins /\ (s.debits <=> "admin" \in new)
      /\ s.debits => s.balance = AdminTopup - AdminDebit
  BY <1>1 DEF IsSeed, Decided
<1>3. \A l \in new : account[l] = NoAccount
  BY <1>1, <1>2 DEF EInv, Seeds, Holds, IsSeed
<1>4. /\ account' = [l \in Logins |-> IF l \in new THEN Seeded(l) ELSE account[l]]
      /\ wallet' = [l \in Logins |->
             IF l = "admin" /\ s.debits THEN s.balance
             ELSE IF l \in new THEN Topup(l) ELSE wallet[l]]
      /\ journal' = journal \cup {Credit(l) : l \in new} \cup (IF s.debits THEN {Debit} ELSE {})
      /\ UNCHANGED <<task, transfers>>
  BY DEF CommitSeed
<1>5. Journal /\ Wallets /\ Users /\ transfers \in Nat
  BY DEF BInv, Wallets
<1>. HIDE DEF s, new
<1>6. /\ \A l : Seeded(l).by = "seed" /\ Seeded(l) # NoAccount
                /\ DOMAIN Seeded(l) = Fields \cup {"by"}
      /\ NoAccount.by = "nobody"
  BY DEF Seeded, NoAccount, Fields
<1>7. /\ \A l \in new : account'[l] = Seeded(l) /\ account'[l].by = "seed"
      /\ \A l \in Logins \ new : account'[l] = account[l]
  BY <1>2, <1>4, <1>6
<1>8. Users'
  BY <1>5, <1>6, <1>7 DEF Users
<1>9. Stay
  BY <1>3, <1>4, <1>5, <1>6, <1>7 DEF Stay
<1>. DEFINE u == "user" \in new
            a == "admin" \in new
<1>10. journal' = journal \cup Gifts(u, a)
  <2>1. {Credit(l) : l \in new} =
           (IF u THEN {Credit("user")} ELSE {}) \cup (IF a THEN {Credit("admin")} ELSE {})
    BY <1>2 DEF Logins
  <2>. QED
    BY <1>2, <1>4, <2>1 DEF Gifts
<1>11. /\ u => Credit("user") \notin journal
       /\ a => Credit("admin") \notin journal /\ Debit \notin journal
  <2>1. Credit("user").id = <<"credit", "user">> /\ Credit("admin").id = <<"credit", "admin">>
    BY DEF Credit, Entry
  <2>. QED
    BY <1>3, <1>5, <1>6, <2>1, Identified, AdminIn DEF Journal
<1>12. Countable(journal) /\ u \in BOOLEAN /\ a \in BOOLEAN
  BY <1>5, JournalCounts
<1>13. /\ Countable(journal')
       /\ Balance(journal', "user") = Balance(journal, "user") + (IF u THEN UserTopup ELSE 0)
       /\ Balance(journal', "admin") =
             Balance(journal, "admin") + (IF a THEN AdminTopup - AdminDebit ELSE 0)
  <2>. HIDE DEF u, a
  <2>. QED
    BY <1>10, <1>11, <1>12, GiftsCount
<1>14. /\ wallet'["admin"] = IF a THEN AdminTopup - AdminDebit ELSE wallet["admin"]
       /\ wallet'["user"] = IF u THEN UserTopup ELSE wallet["user"]
  <2>1. Topup("user") = UserTopup
    BY DEF Topup
  <2>. QED
    BY <1>2, <1>4, <2>1, AdminIn
<1>15. /\ u => wallet["user"] = 0
       /\ a => wallet["admin"] = 0
  BY <1>3, <1>5, AdminIn DEF Wallets
<1>16. /\ UserTopup \in Int /\ AdminTopup - AdminDebit \in Int
       /\ \A l \in Logins : wallet[l] = Balance(journal, l) /\ Balance(journal, l) \in Int
  BY <1>5, <1>12, HeldTotals DEF Balance, Wallets, DatabaseAssumption
<1>17. \A l \in Logins : wallet'[l] = Balance(journal', l)
  <2>. HIDE DEF u, a
  <2>1. wallet'["user"] = Balance(journal', "user")
    BY <1>13, <1>14, <1>15, <1>16, AdminIn
  <2>2. wallet'["admin"] = Balance(journal', "admin")
    BY <1>13, <1>14, <1>15, <1>16, AdminIn
  <2>. QED
    BY <2>1, <2>2 DEF Logins
<1>18. \A l \in Logins : account'[l] = NoAccount => wallet'[l] = 0
  <2>. TAKE l \in Logins
  <2>1. account'[l] = NoAccount => l \notin new /\ account[l] = NoAccount
    BY <1>6, <1>7
  <2>2. l \notin new => wallet'[l] = wallet[l]
    BY <1>2, <1>4
  <2>. QED
    BY <1>5, <2>1, <2>2 DEF Wallets
<1>19. Wallets'
  BY <1>4, <1>5, <1>17, <1>18 DEF Wallets
<1>20. \A e \in journal' : IsEntry(e)'
  <2>1. \A l \in new : IsEntry(Credit(l))'
    BY <1>2, <1>7 DEF IsEntry
  <2>2. a => IsEntry(Debit)'
    BY <1>7 DEF IsEntry, a
  <2>3. \A e \in journal : IsEntry(e)'
    BY <1>5, <1>9, EntriesStay DEF Journal
  <2>. QED
    BY <1>2, <1>4, <2>1, <2>2, <2>3 DEF a
<1>21. IsFiniteSet(journal')
  BY <1>13 DEF Countable
<1>22. account'["admin"].by = "seed" => Debit \in journal'
  BY <1>2, <1>4, <1>5, <1>7, AdminIn DEF Journal
<1>23. (\E j \in Tasks : task'[j] # "none") => account'["user"] # NoAccount
  BY <1>4, <1>5, <1>9, AdminIn DEF Journal, Stay
<1>24. Journal'
  BY <1>20, <1>21, <1>22, <1>23 DEF Journal
<1>. QED
  BY <1>8, <1>19, <1>24

\* Steps that leave the rows alone
LEMMA SameRows ==
    ASSUME Users, Journal, Wallets, UNCHANGED <<rows, transfers>>
    PROVE  Users' /\ Journal' /\ Wallets'
<1>1. UNCHANGED <<account, wallet, journal, task, transfers>>
  BY DEF rows
<1>2. Stay /\ Users'
  BY <1>1 DEF Stay, Users, Wallets
<1>3. (\E j \in Tasks : task'[j] # "none") => account'["user"] # NoAccount
  BY <1>1 DEF Journal
<1>. QED
  BY <1>1, <1>2, <1>3, NothingBooked

LEMMA RegisterBooks ==
    ASSUME EInv, BInv, NEW l \in Logins, Register(l)
    PROVE  BInv'
<1>. DEFINE a == [by |-> "person", allow |-> FALSE, name |-> "own", role |-> "user"]
<1>1. /\ account' = [account EXCEPT ![l] = a] /\ account[l] = NoAccount
      /\ UNCHANGED <<wallet, journal, task, session, transfers>>
  BY DEF Register
<1>2. /\ DOMAIN a = Fields \cup {"by"} /\ a.by = "person" /\ a # NoAccount
      /\ NoAccount.by = "nobody"
  BY DEF Fields, NoAccount
<1>. HIDE DEF a
<1>3. account'[l] = a /\ \A k \in Logins \ {l} : account'[k] = account[k]
  BY <1>1 DEF EInv, Shapes
<1>4. Users'
  BY <1>2, <1>3 DEF BInv, Users
<1>5. Stay
  BY <1>1, <1>2, <1>3 DEF Stay, BInv, Wallets
<1>6. account'["admin"].by = "seed" => account["admin"].by = "seed"
  BY <1>2, <1>3, AdminIn
<1>7. (\E j \in Tasks : task'[j] # "none") => account'["user"] # NoAccount
  BY <1>1, <1>5, AdminIn DEF BInv, Journal, Stay
<1>8. Journal' /\ Wallets'
  BY <1>1, <1>5, <1>6, <1>7, NothingBooked DEF BInv
<1>9. Decisions'
  BY <1>1 DEF BInv, Decisions, Decided
<1>. QED
  BY <1>4, <1>8, <1>9 DEF BInv

\* An edit changes neither who made the account nor that it is there.
LEMMA EditBooks ==
    ASSUME EInv, BInv, NEW t \in Threads, CommitEdit(t)
    PROVE  Users' /\ Journal' /\ Wallets'
<1>. DEFINE s == session[t]
            row == [f \in DOMAIN account[s.login] |-> IF f \in s.writes THEN s.row[f]
                                                      ELSE account[s.login][f]]
<1>1. /\ s.login \in Logins /\ s.writes \subseteq Fields /\ account[s.login] # NoAccount
  BY DEF EInv, Shapes, Shape, IsSeed, IsEdit, IsStats, NoSession, CommitEdit, Editing, Edits,
     Unraced, BInv, Decisions, Decided
<1>2. /\ account' = [account EXCEPT ![s.login] = row]
      /\ UNCHANGED <<wallet, journal, task, transfers>>
  BY DEF CommitEdit
<1>3. /\ DOMAIN account[s.login] = Fields \cup {"by"}
      /\ account[s.login].by \in {"seed", "person"}
  BY <1>1 DEF BInv, Users
<1>4. DOMAIN row = Fields \cup {"by"} /\ row.by = account[s.login].by
  <2>1. "by" \notin Fields
    BY DEF Fields
  <2>2. row["by"] = account[s.login]["by"]
    BY <1>1, <1>3, <2>1
  <2>. QED
    BY <1>3, <2>2
<1>. HIDE DEF row
<1>5. row # NoAccount
  BY <1>4 DEF NoAccount, Fields
<1>6. /\ account'[s.login] = row
      /\ \A l \in Logins : l # s.login => account'[l] = account[l]
  BY <1>1, <1>2 DEF EInv, Shapes
<1>7. Users'
  BY <1>1, <1>3, <1>4, <1>6 DEF BInv, Users
<1>8. \A l \in Logins : /\ account[l] # NoAccount => account'[l] # NoAccount
                        /\ account[l].by = account'[l].by
  <2>. TAKE l \in Logins
  <2>1. CASE l = s.login
    BY <1>4, <1>5, <1>6, <2>1
  <2>2. CASE l # s.login
    BY <1>6, <2>2
  <2>. QED
    BY <2>1, <2>2
<1>9. Stay
  BY <1>2, <1>8 DEF Stay, BInv, Wallets
<1>10. account'["admin"].by = "seed" => account["admin"].by = "seed"
  BY <1>8, AdminIn
<1>11. (\E j \in Tasks : task'[j] # "none") => account'["user"] # NoAccount
  BY <1>2, <1>9, AdminIn DEF BInv, Journal, Stay
<1>. QED
  BY <1>2, <1>7, <1>9, <1>10, <1>11, NothingBooked DEF BInv

\* The steps of a thread
LEMMA ThreadBooks ==
    ASSUME DatabaseAssumption, EInv, BInv, NEW t \in Threads,
           \/ StartSeed(t) \/ SeedStep(t) \/ Save(t) \/ CommitEdit(t)
           \/ StartStats(t) \/ EndStats(t) \/ Abort(t)
           \/ \E l \in Logins, r \in Requests : StartEdit(t, l, r)
    PROVE  BInv'
<1>1. Decisions'
  BY NewSessions DEF BInv, Decisions, Plain, Decided
<1>2. CASE CommitSeed(t)
  BY <1>1, <1>2, SeedBooks DEF BInv
<1>3. CASE CommitEdit(t)
  BY <1>1, <1>3, EditBooks DEF BInv
<1>4. CASE ~CommitSeed(t) /\ ~CommitEdit(t)
  <2>1. UNCHANGED <<rows, transfers>>
    BY <1>4 DEF StartSeed, SeedStep, LookForAdmin, AddUsers, DebitAdmin, Save, StartStats,
       EndStats, Abort, StartEdit
  <2>. QED
    BY <1>1, <2>1, SameRows DEF BInv
<1>. QED
  BY <1>2, <1>3, <1>4

LEMMA QueryBooks ==
    ASSUME EInv, BInv, NEW t \in Threads, RunQuery(t)
    PROVE  BInv'
<1>1. UNCHANGED <<rows, transfers>>
  BY DEF RunQuery
<1>2. Users' /\ Journal' /\ Wallets'
  BY <1>1, SameRows DEF BInv
<1>. DEFINE c == session[t].counts
            n == Count(Len(c) + 1)
            s == [session[t] EXCEPT !.counts = Append(c, n)]
<1>3. IsStats(session[t])
  BY DEF EInv, Shapes, Shape, IsSeed, IsEdit, NoSession, RunQuery
<1>4. Puts(t, s)
  BY DEF RunQuery, Puts, EInv, Shapes
<1>. HIDE DEF n
<1>5. s.kind = "stats"
  BY <1>3 DEF IsStats
<1>. HIDE DEF s
<1>6. \A o \in Threads : session'[o] = session[o] \/ session'[o].kind = "stats"
  BY <1>4, <1>5, PutOne DEF EInv
<1>7. Decisions'
  BY <1>6 DEF BInv, Decisions, Decided
<1>. QED
  BY <1>2, <1>7 DEF BInv

\* A migration comes to the schema of its revision; it leaves all rows as they
\* are, or none.
LEMMA Migrates ==
    ASSUME MInv, NEW to \in Revisions, Migrate(to)
    PROVE  /\ MInv'
           /\ UNCHANGED <<session, transfers>>
           /\ \/ UNCHANGED rows
              \/ /\ NoTasks
                 /\ account' = [l \in Logins |-> NoAccount] /\ wallet' = [l \in Logins |-> 0]
                 /\ journal' = {} /\ task' = [j \in Tasks |-> "none"]
<1>. DEFINE end == Outcome(to)
<1>1. /\ end.ok /\ revision' = to /\ tables' = end.tables /\ models' = end.models
      /\ account' = IF "users" \in end.tables THEN account ELSE [l \in Logins |-> NoAccount]
      /\ wallet' = IF "user_balances" \in end.tables THEN wallet ELSE [l \in Logins |-> 0]
      /\ journal' = IF "balance_ledger_entries" \in end.tables THEN journal ELSE {}
      /\ task' = IF "ml_prediction_tasks" \in end.tables THEN task ELSE [j \in Tasks |-> "none"]
      /\ UNCHANGED <<session, transfers>>
  BY Zenon DEF Migrate
<1>2. to \in {0, 1, 2, 3}
  BY DEF Revisions
<1>. HIDE DEF end
<1>3. (revision < 2 \/ to >= 2) /\ end = Schema(to)
  <2>1. revision \in {0, 1, 2, 3}
    BY DEF MInv, Revisions
  <2>. QED
    BY <1>1, <1>2, <2>1, Outcomes DEF end
<1>4. end.tables = TablesAt(to) /\ end.models = ModelsAt(to)
  BY <1>3 DEF Schema
<1>5. to # 0 => Stored \subseteq end.tables
  BY <1>4, RefersTo DEF TablesAt
<1>6. CASE to # 0
  <2>1. UNCHANGED rows
    BY <1>1, <1>5, <1>6 DEF Stored, rows
  <2>2. revision >= 2 => to >= 2
    <3>1. revision \in {0, 1, 2, 3}
      BY DEF MInv, Revisions
    <3>. QED
      BY <1>2, <1>3, <3>1
  <2>3. MInv'
    <3>1. task' = task
      BY <2>1 DEF rows
    <3>. QED
      BY <1>1, <1>4, <2>2, <3>1 DEF MInv
  <2>. QED
    BY <1>1, <2>1, <2>3
<1>7. CASE to = 0
  <2>1. NoTasks /\ end.tables = {}
    BY <1>3, <1>4, <1>7 DEF TablesAt, MInv, NoTasks, Revisions
  <2>2. /\ account' = [l \in Logins |-> NoAccount] /\ wallet' = [l \in Logins |-> 0]
        /\ journal' = {} /\ task' = [j \in Tasks |-> "none"]
    BY <1>1, <2>1
  <2>3. MInv'
    BY <1>1, <1>4, <2>2 DEF MInv
  <2>. QED
    BY <1>1, <2>1, <2>2, <2>3
<1>. QED
  BY <1>6, <1>7

LEMMA MigrateBooks ==
    ASSUME DatabaseAssumption, MInv, BInv, NEW to \in Revisions, Migrate(to)
    PROVE  BInv'
<1>1. Decisions'
  BY Migrates DEF BInv, Decisions, Decided
<1>2. CASE UNCHANGED rows
  BY <1>1, <1>2, Migrates, SameRows DEF BInv
<1>3. CASE /\ account' = [l \in Logins |-> NoAccount] /\ wallet' = [l \in Logins |-> 0]
           /\ journal' = {} /\ task' = [j \in Tasks |-> "none"]
  <2>1. Users'
    BY <1>3 DEF Users
  <2>2. account'["admin"].by # "seed"
    BY <1>3, AdminIn DEF NoAccount
  <2>3. Journal'
    BY <1>3, <2>2, FS_EmptySet DEF Journal
  <2>4. ASSUME NEW l PROVE Balance({}, l) = 0
    <3>1. Held({}, l, "credit") = {} /\ Held({}, l, "debit") = {}
      BY DEF Held
    <3>2. Total({}) = 0
      BY FS_EmptySet, Totals
    <3>3. Total(Held({}, l, "credit")) = 0 /\ Total(Held({}, l, "debit")) = 0
      BY <3>1, <3>2, Zenon
    <3>. QED
      BY <3>3 DEF Balance
  <2>5. transfers' \in Nat
    BY Migrates DEF BInv, Wallets
  <2>6. Wallets'
    BY <1>3, <2>4, <2>5 DEF Wallets
  <2>. QED
    BY <1>1, <2>1, <2>3, <2>6 DEF BInv
<1>. QED
  BY <1>2, <1>3, Migrates

LEMMA BenchmarkBooks ==
    ASSUME DatabaseAssumption, TInv, MInv, BInv, BenchmarkStep
    PROVE  MInv' /\ BInv'
<1>1. UNCHANGED <<schema, account, wallet, journal, session, transfers>>
  BY DEF BenchmarkStep, LogIn, ChooseModel, Post, CheckDeadline, Get, Expire, database, rows
<1>2. CASE UNCHANGED task
  <2>1. UNCHANGED rows
    BY <1>1, <1>2 DEF rows
  <2>2. MInv'
    BY <1>1, <1>2 DEF MInv, schema
  <2>3. Decisions'
    BY <1>1 DEF BInv, Decisions, Decided
  <2>. QED
    BY <1>1, <2>1, <2>2, <2>3, SameRows DEF BInv
<1>3. CASE ~UNCHANGED task
  <2>. DEFINE j == bench.at
  <2>1. /\ bench.phase = "posting" /\ Accepts(j) /\ task' = [task EXCEPT ![j] = "pending"]
    BY <1>3 DEF BenchmarkStep, LogIn, ChooseModel, Post, CheckDeadline, Get, Expire, database, rows
  <2>2. j \in Tasks => task[j] = "none"
    BY <2>1 DEF TInv, Posting, DatabaseAssumption
  <2>3. account["user"] # NoAccount /\ models # {}
    BY <2>1 DEF Accepts, Served
  <2>4. revision >= 2
    BY <2>3 DEF MInv, ModelsAt, Revisions
  <2>5. MInv'
    BY <1>1, <2>4 DEF MInv, schema
  <2>. HIDE DEF j
  <2>6. Stay
    BY <1>1, <2>1, <2>2 DEF Stay, BInv, Wallets, TInv
  <2>7. Journal' /\ Wallets'
    BY <1>1, <2>3, <2>6, NothingBooked DEF BInv
  <2>8. Users' /\ Decisions'
    BY <1>1 DEF BInv, Users, Decisions, Decided
  <2>. QED
    BY <2>5, <2>7, <2>8 DEF BInv
<1>. QED
  BY <1>2, <1>3

----------------------------------------------------------------------------
(* The benchmark's report                                                  *)

\* The report has a row for each task that the script has left behind.
RInv ==
    /\ bench.phase \in Phases /\ bench.rows \in Seq({"completed", "timeout"})
    /\ Len(bench.rows) <= Dialogs
    /\ bench.phase \in {"login", "model", "posting"} =>
          bench.rows = <<>> /\ bench.at \in 1 .. Dialogs
    /\ bench.phase \in {"waiting", "getting"} =>
          Len(bench.rows) = bench.at - 1 /\ bench.at \in 1 .. Dialogs
    /\ RowsAreTrue

LEMMA DialogsNumber ==
    ASSUME DatabaseAssumption, DialogsAssumption
    PROVE  Dialogs \in Nat /\ 1 \in 1 .. Dialogs /\ Tasks = 1 .. Dialogs
<1>1. Dialogs \in Nat
  BY FS_CardinalityType DEF Dialogs, DatabaseAssumption
<1>. QED
  BY <1>1 DEF DialogsAssumption

\* Completed tasks stay, and the deadline does not come back.
LEMMA ReportStays ==
    ASSUME DatabaseAssumption, DialogsAssumption, RInv, UNCHANGED bench, overdue => overdue',
           \A j \in Tasks : task[j] = "completed" => task'[j] = "completed"
    PROVE  RInv'
<1>1. \A i \in DOMAIN bench.rows : i \in Tasks
  <2>1. DOMAIN bench.rows = 1 .. Len(bench.rows) /\ Len(bench.rows) \in Nat
    BY DEF RInv
  <2>2. Len(bench.rows) <= Dialogs /\ Dialogs \in Nat /\ Tasks = 1 .. Dialogs
    BY DialogsNumber DEF RInv
  <2>. QED
    BY <2>1, <2>2
<1>2. RowsAreTrue'
  BY <1>1 DEF RInv, RowsAreTrue
<1>. QED
  BY <1>2 DEF RInv

LEMMA NextPhase ==
    ASSUME DatabaseAssumption, DialogsAssumption, TInv, RInv, UNCHANGED <<task, overdue>>,
           NEW p, Goto(p),
           \/ p = "ended"
           \/ bench.phase \in {"login", "model", "posting"} /\ p \in {"model", "posting"}
           \/ bench.phase \in {"waiting", "getting"} /\ p \in {"waiting", "getting"}
    PROVE  RInv'
<1>1. /\ bench'.phase = p /\ bench'.at = bench.at /\ bench'.rows = bench.rows
      /\ bench'.slow = bench.slow
  BY DEF TInv, Posting, Goto
<1>2. p \in Phases
  BY DEF Phases
<1>. QED
  BY <1>1, <1>2 DEF RInv, RowsAreTrue

LEMMA RowAdded ==
    ASSUME DatabaseAssumption, DialogsAssumption, RInv, UNCHANGED <<task, overdue>>,
           bench.phase \in {"waiting", "getting"}, NEW status \in {"completed", "timeout"},
           bench'.rows = Append(bench.rows, status), bench'.at = bench.at + 1,
           bench'.phase = IF bench.at = Dialogs THEN "ended" ELSE "waiting",
           bench.slow => bench'.slow,
           \/ status = "completed" /\ task[bench.at] = "completed"
           \/ status = "timeout" /\ (overdue \/ bench'.slow)
    PROVE  RInv'
<1>1. Dialogs \in Nat /\ bench.at \in 1 .. Dialogs /\ Len(bench.rows) = bench.at - 1
  BY DialogsNumber DEF RInv
<1>2. /\ bench'.rows \in Seq({"completed", "timeout"}) /\ Len(bench'.rows) = bench.at
      /\ DOMAIN bench'.rows = 1 .. bench.at /\ bench'.rows[bench.at] = status
      /\ \A i \in 1 .. bench.at : i # bench.at =>
            i \in DOMAIN bench.rows /\ bench'.rows[i] = bench.rows[i]
  <2>1. bench.rows \in Seq({"completed", "timeout"})
    BY DEF RInv
  <2>. QED
    BY <1>1, <2>1
<1>3. RowsAreTrue'
  <2>. SUFFICES ASSUME NEW i \in 1 .. bench.at
                PROVE  \/ bench'.rows[i] = "completed" /\ task'[i] = "completed"
                       \/ bench'.rows[i] = "timeout" /\ (overdue' \/ bench'.slow)
    BY <1>2 DEF RowsAreTrue
  <2>1. CASE i = bench.at
    BY <1>2, <2>1
  <2>2. CASE i # bench.at
    BY <1>2, <2>2 DEF RInv, RowsAreTrue
  <2>. QED
    BY <2>1, <2>2
<1>4. Len(bench'.rows) <= Dialogs
  BY <1>1, <1>2
<1>5. bench'.phase \in Phases /\ bench'.phase \notin {"login", "model", "posting", "getting"}
  BY DEF Phases
<1>6. bench'.phase = "waiting" => Len(bench'.rows) = bench'.at - 1 /\ bench'.at \in 1 .. Dialogs
  BY <1>1, <1>2
<1>. QED
  BY <1>2, <1>3, <1>4, <1>5, <1>6 DEF RInv

LEMMA BenchmarkReports ==
    ASSUME DatabaseAssumption, DialogsAssumption, TInv, RInv, BenchmarkStep
    PROVE  RInv'
<1>1. DOMAIN bench = {"phase", "at", "rows", "slow"} /\ Dialogs \in Nat /\ 1 \in 1 .. Dialogs
  BY DialogsNumber DEF TInv, Posting
<1>2. CASE LogIn \/ ChooseModel
  BY <1>2, NextPhase DEF LogIn, ChooseModel, database, rows
<1>3. CASE Post
  <2>1. /\ bench.phase = "posting" /\ bench.at \in 1 .. Dialogs /\ bench.rows = <<>>
        /\ UNCHANGED overdue
    BY <1>3 DEF Post, RInv
  <2>2. /\ bench'.rows = <<>> /\ bench'.phase \in Phases
        /\ bench'.phase \in {"login", "model", "posting"} => bench'.at \in 1 .. Dialogs
        /\ bench'.phase \in {"waiting", "getting"} => bench'.at = 1
    <3>1. CASE AfterPost
      <4>1. CASE bench.at = Dialogs
        <5>1. bench'.rows = bench.rows /\ bench'.phase = "waiting" /\ bench'.at = 1
          BY <1>1, <3>1, <4>1 DEF AfterPost
        <5>. QED
          BY <2>1, <5>1 DEF Phases
      <4>2. CASE bench.at # Dialogs
        <5>1. bench'.rows = bench.rows /\ bench'.phase = bench.phase /\ bench'.at = bench.at + 1
          BY <1>1, <3>1, <4>2 DEF AfterPost
        <5>2. bench.at + 1 \in 1 .. Dialogs
          BY <1>1, <2>1, <4>2
        <5>. QED
          BY <2>1, <5>1, <5>2 DEF Phases
      <4>. QED
        BY <4>1, <4>2
    <3>2. CASE Goto("ended")
      BY <1>1, <2>1, <3>2 DEF Goto, Phases
    <3>. QED
      BY <1>3, <3>1, <3>2 DEF Post
  <2>3. <<>> \in Seq({"completed", "timeout"}) /\ Len(<<>>) = 0 /\ DOMAIN <<>> = {}
    OBVIOUS
  <2>4. RowsAreTrue'
    BY <2>2, <2>3 DEF RowsAreTrue
  <2>. QED
    BY <1>1, <2>2, <2>3, <2>4 DEF RInv
<1>4. ASSUME NEW s \in {"completed", "timeout"}, Report(s),
             bench.phase \in {"waiting", "getting"}, UNCHANGED <<task, overdue>>,
             \/ s = "completed" /\ task[bench.at] = "completed"
             \/ s = "timeout" /\ overdue
      PROVE  RInv'
  <2>1. /\ bench'.rows = Append(bench.rows, s) /\ bench'.at = bench.at + 1
        /\ bench'.phase = IF bench.at = Dialogs THEN "ended" ELSE "waiting"
        /\ bench'.slow = bench.slow
    BY <1>1, <1>4 DEF Report
  <2>. QED
    BY <1>4, <2>1, RowAdded
<1>5. CASE CheckDeadline
  <2>1. bench.phase = "waiting" /\ UNCHANGED <<task, overdue>>
    BY <1>5 DEF CheckDeadline, database, rows
  <2>2. CASE overdue
    BY <1>4, <1>5, <2>1, <2>2 DEF CheckDeadline
  <2>3. CASE ~overdue
    BY <1>5, <2>1, <2>3, NextPhase DEF CheckDeadline
  <2>. QED
    BY <2>2, <2>3
<1>6. CASE Get
  <2>1. bench.phase = "getting" /\ UNCHANGED <<task, overdue>>
    BY <1>6 DEF Get, database, rows
  <2>2. CASE task[bench.at] = "completed" /\ Report("completed")
    BY <1>4, <2>1, <2>2
  <2>3. CASE Goto("waiting") \/ Goto("ended")
    BY <2>1, <2>3, NextPhase
  <2>4. CASE bench' = [bench EXCEPT
             !.rows = Append(@, "timeout"), !.at = @ + 1, !.slow = TRUE,
             !.phase = IF bench.at = Dialogs THEN "ended" ELSE "waiting"]
    <3>1. /\ bench'.rows = Append(bench.rows, "timeout") /\ bench'.at = bench.at + 1
          /\ bench'.phase = IF bench.at = Dialogs THEN "ended" ELSE "waiting"
          /\ bench'.slow
      BY <1>1, <2>4
    <3>. QED
      BY <2>1, <3>1, RowAdded
  <2>. QED
    BY <1>6, <2>2, <2>3, <2>4 DEF Get
<1>7. CASE Expire
  <2>1. UNCHANGED <<task, bench>> /\ overdue'
    BY <1>7 DEF Expire, database, rows
  <2>. QED
    BY <2>1, ReportStays
<1>. QED
  BY <1>2, <1>3, <1>5, <1>6, <1>7 DEF BenchmarkStep

----------------------------------------------------------------------------
(* The steps                                                               *)

\* The tasks go on, and the sessions with what is now.
LEMMA TasksKeep ==
    ASSUME DatabaseAssumption, EInv, TInv, DOMAIN task' = Tasks, Onwards, Posting',
           \A t \in Threads : session'[t] = session[t] \/ Covered(session[t])'
    PROVE  TInv'
<1>1. ASSUME NEW t \in Threads
      PROVE  Covered(session[t])'
  <2>1. CASE session'[t] = session[t]
    <3>1. Shape(session[t]) /\ Covered(session[t])
      BY DEF EInv, Shapes, TInv
    <3>. DEFINE s == session[t]
    <3>2. \A x : x = s => Covered(x)'
      <4>1. SUFFICES ASSUME NEW x, x = s
                     PROVE  Covered(x)'
        OBVIOUS
      <4>2. Shape(x) /\ Covered(x)
        BY <3>1, <4>1
      <4>. QED
        BY <4>2, StaysCovered
    <3>. QED
      BY <2>1, <3>2 DEF Covered
  <2>2. CASE Covered(session[t])'
    BY <2>2
  <2>. QED
    BY <2>1, <2>2
<1>2. \A j \in Tasks : task'[j] \in {"none", "pending", "completed"}
  BY DEF Onwards, TInv
<1>. QED
  BY <1>1, <1>2 DEF TInv

LEMMA OthersStayCovered ==
    ASSUME DatabaseAssumption, EInv, TInv, UNCHANGED <<task, bench>>,
           \A t \in Threads :
              session'[t] = session[t] \/ session'[t].kind # "stats" \/ session'[t].counts = <<>>
    PROVE  TInv'
<1>1. \A t \in Threads : session'[t] = session[t] \/ Covered(session[t])'
  <2>1. Len(<<>>) = 0
    OBVIOUS
  <2>. QED
    BY <2>1 DEF Covered
<1>2. Onwards /\ DOMAIN task' = Tasks /\ Posting'
  BY DEF Onwards, TInv, Posting
<1>. QED
  BY <1>1, <1>2, TasksKeep

\* Without a session, and with the tasks as they were or gone
LEMMA MigrateCovers ==
    ASSUME TInv, NEW to, Migrate(to), UNCHANGED bench
    PROVE  TInv'
<1>1. /\ \A t \in Threads : session'[t] = NoSession
      /\ task' = task \/ task' = [j \in Tasks |-> "none"]
  BY Zenon DEF Migrate
<1>2. \A t \in Threads : Covered(session[t])'
  <2>1. NoSession.kind # "stats"
    BY DEF NoSession
  <2>. QED
    BY <1>1, <2>1 DEF Covered
<1>3. /\ DOMAIN task' = Tasks /\ \A j \in Tasks : task'[j] \in {"none", "pending", "completed"}
      /\ Posting'
  BY <1>1 DEF TInv, Posting
<1>. QED
  BY <1>2, <1>3 DEF TInv

\* The benchmark moves on.
LEMMA BenchmarkCovers ==
    ASSUME DatabaseAssumption, EInv, TInv, BenchmarkStep
    PROVE  TInv'
<1>1. UNCHANGED session
  BY DEF BenchmarkStep, LogIn, ChooseModel, Post, CheckDeadline, Get, Expire, database
<1>2. ASSUME Posting', Onwards, DOMAIN task' = Tasks
      PROVE  TInv'
  BY <1>1, <1>2, TasksKeep
<1>3. DOMAIN bench = {"phase", "at", "rows", "slow"} /\ bench.at \in Nat
  BY DEF TInv, Posting
<1>4. ASSUME NEW p \in Phases, Goto(p)
      PROVE  bench'.phase = p /\ bench'.at = bench.at /\ DOMAIN bench' = DOMAIN bench
  BY <1>3, <1>4 DEF Goto
<1>5. CASE LogIn \/ ChooseModel
  <2>1. /\ UNCHANGED task /\ bench.phase \in {"login", "model"}
        /\ Goto("model") \/ Goto("posting") \/ Goto("ended")
    BY <1>5 DEF LogIn, ChooseModel, database, rows
  <2>2. bench'.at = bench.at /\ DOMAIN bench' = DOMAIN bench
    BY <1>4, <2>1 DEF Phases
  <2>. QED
    BY <1>2, <1>3, <2>1, <2>2 DEF Posting, TInv, Onwards
<1>6. CASE Post
  <2>. DEFINE j == bench.at
  <2>1. bench.phase = "posting"
    BY <1>6 DEF Post
  <2>2. task' = task \/ task' = [task EXCEPT ![j] = "pending"]
    BY <1>6 DEF Post
  <2>3. j \in Tasks => task[j] = "none"
    BY <1>3, <2>1 DEF TInv, Posting
  <2>4. DOMAIN task' = Tasks /\ Onwards
    BY <2>2, <2>3 DEF TInv, Onwards
  <2>5. /\ DOMAIN bench' = {"phase", "at", "rows", "slow"}
        /\ \/ bench'.phase \notin {"login", "model", "posting"} /\ bench'.at \in Nat
           \/ bench'.at = bench.at + 1
    <3>1. CASE AfterPost
      BY <1>3, <3>1 DEF AfterPost
    <3>2. CASE Goto("ended")
      <4>1. "ended" \in Phases
        BY DEF Phases
      <4>. QED
        BY <1>3, <1>4, <3>2, <4>1
    <3>. QED
      BY <1>6, <3>1, <3>2 DEF Post
  <2>6. \A i \in Tasks : i >= j + 1 => task'[i] = "none"
    <3>1. \A i \in Tasks : i >= j + 1 => i >= j /\ i # j
      BY <1>3 DEF DatabaseAssumption
    <3>. QED
      BY <2>1, <2>2, <3>1 DEF TInv, Posting
  <2>7. Posting'
    BY <1>3, <2>5, <2>6 DEF Posting
  <2>. QED
    BY <1>2, <2>4, <2>7
<1>7. CASE CheckDeadline \/ Get \/ Expire
  <2>1. UNCHANGED task /\ bench.phase \in {"waiting", "getting"}
    BY <1>7 DEF CheckDeadline, Get, Expire, database, rows
  <2>2. /\ DOMAIN bench' = {"phase", "at", "rows", "slow"} /\ bench'.at \in Nat
        /\ bench'.phase \notin {"login", "model", "posting"}
    <3>1. ASSUME NEW q, NEW r, NEW w,
                 \/ bench' = [bench EXCEPT !.rows = r, !.at = @ + 1, !.phase = q]
                 \/ bench' = [bench EXCEPT !.rows = r, !.at = @ + 1, !.slow = w, !.phase = q],
                 q \in {"ended", "waiting"}
          PROVE  /\ DOMAIN bench' = {"phase", "at", "rows", "slow"} /\ bench'.at \in Nat
                 /\ bench'.phase \notin {"login", "model", "posting"}
      <4>1. DOMAIN bench' = DOMAIN bench /\ bench'.phase = q /\ bench'.at = bench.at + 1
        <5>1. CASE bench' = [bench EXCEPT !.rows = r, !.at = @ + 1, !.phase = q]
          BY <1>3, <5>1
        <5>2. CASE bench' = [bench EXCEPT !.rows = r, !.at = @ + 1, !.slow = w, !.phase = q]
          BY <1>3, <5>2
        <5>. QED
          BY <3>1, <5>1, <5>2
      <4>. QED
        BY <1>3, <3>1, <4>1
    <3>2. \/ UNCHANGED bench
          \/ \E p \in {"getting", "waiting", "ended"} : Goto(p)
          \/ \E q \in {"ended", "waiting"} : \E r, w :
                \/ bench' = [bench EXCEPT !.rows = r, !.at = @ + 1, !.phase = q]
                \/ bench' = [bench EXCEPT !.rows = r, !.at = @ + 1, !.slow = w, !.phase = q]
      <4>. DEFINE q == IF bench.at = Dialogs THEN "ended" ELSE "waiting"
      <4>1. q \in {"ended", "waiting"}
        OBVIOUS
      <4>2. ASSUME NEW s, Report(s)
            PROVE  bench' = [bench EXCEPT !.rows = Append(bench.rows, s), !.at = @ + 1, !.phase = q]
        BY <4>2 DEF Report
      <4>3. \/ UNCHANGED bench
            \/ \E p \in {"getting", "waiting", "ended"} : Goto(p)
            \/ \E s : Report(s)
            \/ bench' = [bench EXCEPT !.rows = Append(bench.rows, "timeout"), !.at = @ + 1,
                                      !.slow = TRUE, !.phase = q]
        BY <1>7 DEF CheckDeadline, Get, Expire
      <4>. HIDE DEF q
      <4>. QED
        BY <4>1, <4>2, <4>3
    <3>3. ASSUME NEW p \in {"getting", "waiting", "ended"}, Goto(p)
          PROVE  /\ DOMAIN bench' = {"phase", "at", "rows", "slow"} /\ bench'.at \in Nat
                 /\ bench'.phase \notin {"login", "model", "posting"}
      BY <1>3, <1>4, <3>3 DEF Phases
    <3>. QED
      BY <1>3, <2>1, <3>1, <3>2, <3>3
  <2>. QED
    BY <1>2, <2>1, <2>2 DEF Posting, TInv, Onwards
<1>. QED
  BY <1>5, <1>6, <1>7 DEF BenchmarkStep

----------------------------------------------------------------------------
(* The theorems                                                            *)

IInv == EInv /\ TInv /\ MInv /\ BInv /\ RInv

LEMMA InitBooks ==
    ASSUME DatabaseAssumption, Init
    PROVE  MInv /\ BInv
<1>1. PICK new \in BOOLEAN :
        /\ revision = IF new THEN 0 ELSE 3
        /\ tables = IF new THEN {} ELSE DOMAIN References
        /\ models = IF new THEN {} ELSE Models
        /\ account = [l \in Logins |-> IF new THEN NoAccount ELSE Seeded(l)]
        /\ wallet = [l \in Logins |->
              IF new THEN 0 ELSE IF l = "user" THEN UserTopup ELSE AdminTopup - AdminDebit]
        /\ journal = IF new THEN {} ELSE {Credit(l) : l \in Logins} \cup {Debit}
  BY DEF Init, DatabaseInit
<1>2. NoTasks /\ transfers = 0 /\ \A t \in Threads : session[t] = NoSession
  BY DEF Init, DatabaseInit, NoTasks
<1>3. MInv
  BY <1>1, <1>2 DEF MInv, NoTasks, Revisions, TablesAt, ModelsAt, Names
<1>4. /\ \A l : Seeded(l).by = "seed" /\ Seeded(l) # NoAccount
                /\ DOMAIN Seeded(l) = Fields \cup {"by"}
      /\ NoAccount.by = "nobody"
  BY DEF Seeded, NoAccount, Fields
<1>5. Users
  BY <1>1, <1>4 DEF Users
<1>6. Decisions
  BY <1>2 DEF Decisions, Decided, NoSession
<1>7. /\ Balance({}, "user") = 0 /\ Balance({}, "admin") = 0 /\ Countable({})
  <2>1. ASSUME NEW l PROVE Balance({}, l) = 0
    <3>1. Held({}, l, "credit") = {} /\ Held({}, l, "debit") = {} /\ Total({}) = 0
      BY FS_EmptySet, Totals DEF Held
    <3>2. Total(Held({}, l, "credit")) = 0 /\ Total(Held({}, l, "debit")) = 0
      BY <3>1, Zenon
    <3>. QED
      BY <3>2 DEF Balance
  <2>. QED
    BY <2>1, FS_EmptySet DEF Countable
<1>8. CASE new
  <2>1. Journal
    BY <1>1, <1>2, <1>4, <1>8, FS_EmptySet, AdminIn DEF Journal, NoTasks
  <2>2. Wallets
    BY <1>1, <1>2, <1>7, <1>8 DEF Wallets, Logins
  <2>. QED
    BY <1>3, <1>5, <1>6, <2>1, <2>2 DEF BInv
<1>9. CASE ~new
  <2>1. journal = {} \cup Gifts(TRUE, TRUE) /\ \A l \in Logins : account[l] = Seeded(l)
    BY <1>1, <1>9 DEF Gifts, Logins
  <2>2. /\ Countable(journal)
        /\ Balance(journal, "user") = Balance({}, "user") + UserTopup
        /\ Balance(journal, "admin") = Balance({}, "admin") + (AdminTopup - AdminDebit)
    BY <1>7, <2>1, GiftsCount
  <2>3. UserTopup \in Int /\ AdminTopup - AdminDebit \in Int
    BY DEF DatabaseAssumption
  <2>4. wallet["user"] = Balance(journal, "user") /\ wallet["admin"] = Balance(journal, "admin")
    BY <1>1, <1>7, <1>9, <2>2, <2>3, AdminIn
  <2>5. Wallets
    BY <1>1, <1>2, <1>4, <2>1, <2>4 DEF Wallets, Logins
  <2>6. \A e \in journal : IsEntry(e)
    <3>1. \A l \in Logins : IsEntry(Credit(l))
      BY <1>4, <2>1 DEF IsEntry
    <3>2. IsEntry(Debit)
      BY <1>4, <2>1, AdminIn DEF IsEntry
    <3>. QED
      BY <1>1, <1>9, <3>1, <3>2
  <2>7. Debit \in journal
    BY <1>1, <1>9
  <2>8. Journal
    BY <1>2, <2>2, <2>6, <2>7 DEF Journal, Countable, NoTasks
  <2>. QED
    BY <1>3, <1>5, <1>6, <2>5, <2>8 DEF BInv
<1>. QED
  BY <1>8, <1>9

LEMMA InitReport ==
    ASSUME DatabaseAssumption, DialogsAssumption, Init
    PROVE  RInv
<1>1. <<>> \in Seq({"completed", "timeout"}) /\ Len(<<>>) = 0 /\ DOMAIN <<>> = {}
  OBVIOUS
<1>2. bench.phase = "login" /\ bench.at = 1 /\ bench.rows = <<>>
  BY DEF Init, BenchmarkInit
<1>. QED
  BY <1>1, <1>2, DialogsNumber DEF RInv, RowsAreTrue, Phases

LEMMA InitInv ==
    ASSUME DatabaseAssumption, DialogsAssumption, Init
    PROVE  IInv
<1>1. Shapes
  <2>1. \A l : Fields \subseteq DOMAIN Seeded(l)
    BY DEF Seeded, Fields
  <2>2. \A l \in Logins : account[l] = NoAccount \/ account[l] = Seeded(l)
    BY DEF Init, DatabaseInit
  <2>. QED
    BY <2>1, <2>2 DEF Init, DatabaseInit, Shapes, Shape
<1>2. Seeds /\ Edits /\ \A t \in Threads : Covered(session[t])
  BY DEF Init, DatabaseInit, Seeds, Edits, Holds, Unraced, Covered, NoSession
<1>3. DOMAIN task = Tasks /\ \A j \in Tasks : task[j] = "none"
  BY DEF Init, DatabaseInit
<1>4. Posting
  BY <1>3 DEF Init, BenchmarkInit, Posting
<1>. QED
  BY <1>1, <1>2, <1>3, <1>4, InitBooks, InitReport DEF IInv, EInv, TInv

\* The steps of a thread that leave the tasks alone
LEMMA ThreadSteps ==
    ASSUME DatabaseAssumption, DialogsAssumption, IInv, NEW t \in Threads, UNCHANGED client,
           \/ StartSeed(t) \/ SeedStep(t) \/ Save(t) \/ CommitEdit(t)
           \/ StartStats(t) \/ EndStats(t) \/ Abort(t)
           \/ \E l \in Logins, r \in Requests : StartEdit(t, l, r)
    PROVE  IInv'
<1>1. EInv'
  <2>1. CASE StartSeed(t) \/ SeedStep(t)
    BY <2>1, SeedStarts, SeedGoesOn, SeedCommits DEF SeedStep, IInv
  <2>2. CASE Save(t) \/ CommitEdit(t) \/ \E l \in Logins, r \in Requests : StartEdit(t, l, r)
    BY <2>2, EditStarts, EditSaves, EditCommits DEF IInv
  <2>3. CASE StartStats(t)
    BY <2>3, StatsKeep, TasksFinite DEF IInv
  <2>4. CASE EndStats(t) \/ Abort(t)
    BY <2>4, CloseKeeps DEF EndStats, Abort, IInv, rows
  <2>. QED
    BY <2>1, <2>2, <2>3, <2>4
<1>2. UNCHANGED task
  BY DEF StartSeed, SeedStep, LookForAdmin, AddUsers, DebitAdmin, CommitSeed, Save, CommitEdit,
     StartStats, EndStats, Abort, StartEdit, rows
<1>3. TInv'
  <2>1. \A o \in Threads :
           session'[o] = session[o] \/ session'[o].kind # "stats" \/ session'[o].counts = <<>>
    BY NewSessions DEF IInv, BInv, Plain
  <2>. QED
    BY <1>2, <2>1, OthersStayCovered DEF IInv, client
<1>4. MInv'
  BY <1>2 DEF IInv, MInv, StartSeed, SeedStep, LookForAdmin, AddUsers, DebitAdmin, CommitSeed, Save,
     CommitEdit, StartStats, EndStats, Abort, StartEdit, schema
<1>5. BInv'
  BY ThreadBooks DEF IInv
<1>6. RInv'
  BY <1>2, ReportStays DEF IInv, client
<1>. QED
  BY <1>1, <1>3, <1>4, <1>5, <1>6 DEF IInv

LEMMA ServerSteps ==
    ASSUME DatabaseAssumption, DialogsAssumption, IInv, Server, UNCHANGED client
    PROVE  IInv'
<1>0. UNCHANGED <<bench, overdue>>
  BY DEF client
<1>1. ASSUME NEW to \in Revisions, Migrate(to)
      PROVE  IInv'
  <2>1. \A j \in Tasks : task[j] = "completed" => task'[j] = "completed"
    BY <1>1, Migrates DEF IInv, rows, NoTasks
  <2>. QED
    BY <1>0, <1>1, <2>1, MigrateKeeps, MigrateCovers, Migrates, MigrateBooks, ReportStays DEF IInv
<1>2. ASSUME NEW t \in Threads, RunQuery(t)
      PROVE  IInv'
  <2>1. EInv'
    BY <1>2, StatsKeep, TasksFinite DEF IInv
  <2>2. /\ UNCHANGED <<task, schema>> /\ \A o \in Threads \ {t} : session'[o] = session[o]
    BY <1>2 DEF RunQuery, IInv, EInv, Shapes, rows
  <2>3. Covered(session'[t])
    BY <1>2, QueryCovers DEF IInv
  <2>4. Covered(session[t])'
    BY <2>2, <2>3 DEF Covered, Pending, Completed
  <2>5. Onwards /\ DOMAIN task' = Tasks /\ Posting'
    BY <1>0, <2>2 DEF Onwards, IInv, TInv, Posting
  <2>6. TInv'
    BY <2>2, <2>4, <2>5, TasksKeep DEF IInv
  <2>7. MInv'
    BY <2>2 DEF IInv, MInv, schema
  <2>8. BInv' /\ RInv'
    BY <1>0, <1>2, <2>2, QueryBooks, ReportStays DEF IInv
  <2>. QED
    BY <2>1, <2>6, <2>7, <2>8 DEF IInv
<1>3. ASSUME NEW l \in Logins, Register(l) \/ TopUp(l)
      PROVE  IInv'
  <2>1. EInv'
    BY <1>3, RegisterKeeps, StillKeeps DEF IInv, TopUp
  <2>2. UNCHANGED <<task, session, schema>>
    BY <1>3 DEF Register, TopUp
  <2>3. TInv'
    BY <1>0, <2>2, OthersStayCovered DEF IInv
  <2>4. MInv'
    BY <2>2 DEF IInv, MInv, schema
  <2>5. BInv'
    BY <1>3, RegisterBooks, TopUpBooks DEF IInv
  <2>6. RInv'
    BY <1>0, <2>2, ReportStays DEF IInv
  <2>. QED
    BY <2>1, <2>3, <2>4, <2>5, <2>6 DEF IInv
<1>4. ASSUME NEW j \in Tasks, Complete(j)
      PROVE  IInv'
  <2>1. UNCHANGED <<account, session, schema>>
    BY <1>4 DEF Complete
  <2>2. task[j] = "pending" /\ task' = [task EXCEPT ![j] = "completed"]
    BY <1>4 DEF Complete
  <2>3. Onwards /\ DOMAIN task' = Tasks /\ Posting'
    BY <1>0, <2>2 DEF Onwards, IInv, TInv, Posting
  <2>4. TInv'
    BY <2>1, <2>3, TasksKeep DEF IInv
  <2>5. MInv'
    BY <2>1, <2>2 DEF IInv, MInv, TInv, schema
  <2>6. BInv'
    BY <1>4, CompleteBooks DEF IInv, TInv
  <2>7. \A i \in Tasks : task[i] = "completed" => task'[i] = "completed"
    BY <2>2 DEF IInv, TInv
  <2>8. RInv'
    BY <1>0, <2>7, ReportStays DEF IInv
  <2>. QED
    BY <2>1, <2>4, <2>5, <2>6, <2>8, StillKeeps DEF IInv
<1>. QED
  BY <1>1, <1>2, <1>3, <1>4, ThreadSteps DEF Server, AdministrationStep

LEMMA StepInv ==
    ASSUME DatabaseAssumption, DialogsAssumption, IInv, [Next]_vars
    PROVE  IInv'
<1>1. CASE Server /\ UNCHANGED client
  BY <1>1, ServerSteps
<1>2. CASE BenchmarkStep
  <2>1. UNCHANGED <<account, session>>
    BY <1>2 DEF BenchmarkStep, LogIn, ChooseModel, Post, CheckDeadline, Get, Expire, database, rows
  <2>. QED
    BY <1>2, <2>1, StillKeeps, BenchmarkCovers, BenchmarkBooks, BenchmarkReports DEF IInv
<1>3. CASE UNCHANGED vars
  <2>1. UNCHANGED <<account, session, task, bench, overdue, rows, schema, transfers>>
    BY <1>3 DEF vars, database, client, rows
  <2>2. EInv' /\ TInv'
    BY <2>1, StillKeeps, OthersStayCovered DEF IInv
  <2>3. MInv'
    BY <2>1 DEF IInv, MInv, schema
  <2>4. Users' /\ Journal' /\ Wallets' /\ Decisions'
    BY <2>1, SameRows DEF IInv, BInv, Decisions, Decided
  <2>5. RInv'
    BY <2>1, ReportStays DEF IInv
  <2>. QED
    BY <2>2, <2>3, <2>4, <2>5 DEF IInv, BInv
<1>. QED
  BY <1>1, <1>2, <1>3 DEF Next

\* Rows that a seed script has flushed are nobody else's, an edit that was not
\* raced has read what is still so, what statistics have counted is covered by
\* the tasks of now, the tables are those of the revision, every entry of the
\* journal is of something that is there, and every row of the report is true.
THEOREM Inductive ==
    ASSUME DatabaseAssumption, DialogsAssumption
    PROVE  Spec => []IInv
<1>1. Init => IInv
  BY InitInv
<1>2. IInv /\ [Next]_vars => IInv'
  BY StepInv
<1>. QED
  BY <1>1, <1>2, PTL DEF Spec

\* StatisticsCoverTasks: GET /admin/stats may count a task twice, as pending and
\* as completed, but never leaves one out.
THEOREM StatisticsCover ==
    ASSUME DatabaseAssumption, DialogsAssumption
    PROVE  Spec => []StatisticsCoverTasks
<1>1. ASSUME IInv, NEW t \in Threads, session[t].kind = "stats", Len(session[t].counts) = 3
      PROVE  LET n == session[t].counts IN n[2] + n[3] >= n[1]
  <2>. DEFINE n == session[t].counts
  <2>1. n[1] <= n[2] + n[3]
    BY <1>1 DEF IInv, TInv, Covered
  <2>2. n \in Seq(Nat)
    BY <1>1 DEF IInv, EInv, Shapes, Shape, IsSeed, IsEdit, IsStats, NoSession
  <2>3. n[1] \in Nat /\ n[2] \in Nat /\ n[3] \in Nat
    BY <1>1, <2>2
  <2>. QED
    BY <2>1, <2>3
<1>2. IInv => StatisticsCoverTasks
  BY <1>1 DEF StatisticsCoverTasks
<1>. QED
  BY <1>2, Inductive, PTL

\* WriteBackNeedsWindow: an edit writes a field that its client did not name
\* only if another edit of the user was committed between its two reads.
THEOREM WritesBackInWindow ==
    ASSUME DatabaseAssumption, DialogsAssumption
    PROVE  Spec => WriteBackNeedsWindow
<1>. DEFINE Changed(l, f) ==
        account[l] # NoAccount /\ account'[l] # NoAccount /\ account'[l][f] # account[l][f]
            Explained(l, f) ==
        \E t \in Threads :
           /\ Editing(t, "flushing") /\ session[t].login = l
           /\ f \in session[t].named \/ session[t].raced
<1>1. ASSUME IInv, [Next]_vars, NEW l \in Logins, NEW f \in Fields, Changed(l, f)
      PROVE  Explained(l, f)
  <2>1. account' # account
    BY <1>1
  <2>2. PICK t \in Threads : CommitEdit(t)
    <3>1. \A to \in Revisions : ~Migrate(to)
      BY <1>1, <2>1, MigrateKeeps DEF IInv
    <3>2. \A t \in Threads : ~CommitSeed(t)
      BY <1>1, SeedCommits DEF IInv
    <3>3. \A k \in Logins : ~Register(k)
      BY <1>1 DEF Register, IInv, EInv, Shapes
    <3>4. Server
      BY <1>1, <2>1 DEF Next, BenchmarkStep, LogIn, ChooseModel, Post, CheckDeadline, Get, Expire,
         vars, database, rows
    <3>5. /\ \A t \in Threads :
               /\ ~StartSeed(t) /\ ~StartStats(t) /\ ~LookForAdmin(t) /\ ~AddUsers(t)
               /\ ~DebitAdmin(t) /\ ~Abort(t) /\ ~Save(t) /\ ~RunQuery(t) /\ ~EndStats(t)
               /\ \A k \in Logins, r \in Requests : ~StartEdit(t, k, r)
          /\ \A k \in Logins : ~TopUp(k)
          /\ \A j \in Tasks : ~Complete(j)
      BY <2>1 DEF StartSeed, StartStats, LookForAdmin, AddUsers, DebitAdmin, Abort, Save, RunQuery,
         EndStats, StartEdit, TopUp, Complete, rows
    <3>. QED
      BY <3>1, <3>2, <3>3, <3>4, <3>5 DEF Server, SeedStep, AdministrationStep
  <2>. DEFINE s == session[t]
  <2>3. IsEdit(s) /\ Editing(t, "flushing") /\ Unraced(s)
    BY <1>1, <2>2 DEF IInv, EInv, Shapes, Shape, IsSeed, IsEdit, IsStats, NoSession, CommitEdit,
       Editing, Edits
  <2>4. account' = [account EXCEPT ![s.login] =
                       [g \in DOMAIN @ |-> IF g \in s.writes THEN s.row[g] ELSE @[g]]]
    BY <2>2 DEF CommitEdit
  <2>5. s.login = l
    BY <1>1, <2>3, <2>4 DEF IInv, EInv, Shapes, IsEdit
  <2>6. f \in s.writes
    <3>1. f \in DOMAIN account[l]
      BY <1>1 DEF IInv, EInv, Shapes
    <3>2. account'[l] = [g \in DOMAIN account[l] |-> IF g \in s.writes THEN s.row[g] ELSE account[l][g]]
      BY <1>1, <2>4, <2>5 DEF IInv, EInv, Shapes
    <3>3. account'[l][f] = IF f \in s.writes THEN s.row[f] ELSE account[l][f]
      BY <3>1, <3>2
    <3>. QED
      BY <1>1, <3>3
  <2>7. f \in s.named \/ s.raced
    BY <2>3, <2>6 DEF Unraced, IsEdit, Editing
  <2>. QED
    BY <2>3, <2>5, <2>7
<1>2. IInv /\ [Next]_vars => [\A l \in Logins, f \in Fields : Changed(l, f) => Explained(l, f)]_vars
  BY <1>1
<1>3. [\A l \in Logins, f \in Fields : Changed(l, f) => Explained(l, f)]_vars =>
         [\A l \in Logins, f \in Fields :
            /\ account[l] # NoAccount /\ account'[l] # NoAccount
            /\ account'[l][f] # account[l][f]
            => \E t \in Threads :
                  /\ Editing(t, "flushing") /\ session[t].login = l
                  /\ f \in session[t].named \/ session[t].raced]_vars
  OBVIOUS
<1>. QED
  BY <1>2, <1>3, Inductive, PTL DEF Spec, WriteBackNeedsWindow

LEMMA BooksFollow ==
    ASSUME BInv
    PROVE  BooksBalance
<1>1. \A l \in Logins : wallet[l] = Sum(l, "credit") - Sum(l, "debit")
  BY SumsAre DEF BInv, Wallets
<1>2. \A j \in Tasks : Journalled(<<"task", j>>) => task[j] = "completed"
  BY Identified DEF BInv, Journal, Journalled
<1>. QED
  BY <1>1, <1>2 DEF BooksBalance

\* A new database gets the schema of every revision.
LEMMA FreshSchemas ==
    ASSUME NEW to \in Revisions
    PROVE  Fresh[to] = Schema(to)
<1>1. 0 \in Revisions /\ to \in {0, 1, 2, 3}
  BY DEF Revisions
<1>2. Run(Schema(0), FlattenSeq([i \in 1 .. to - 0 |-> Upgrades[0 + i]])) = Schema(to)
  BY <1>1, UpgradesLead
<1>3. [i \in 1 .. to - 0 |-> Upgrades[0 + i]] = [i \in 1 .. to |-> Upgrades[i]]
  BY <1>1
<1>4. Schema(0) = [ok |-> TRUE, tables |-> {}, models |-> {}]
  BY DEF Schema, TablesAt, ModelsAt
<1>. QED
  BY <1>2, <1>3, <1>4 DEF Fresh, Run

LEMMA MigrationsFollow ==
    ASSUME MInv
    PROVE  MigrationsEndAsNew
<1>1. ASSUME NEW to \in Revisions
      PROVE  /\ revision >= 2 /\ to < 2 => ~Outcome(to).ok
             /\ ~(revision >= 2 /\ to < 2) => Outcome(to).ok /\ Outcome(to) = Fresh[to]
  <2>1. revision \in {0, 1, 2, 3} /\ to \in {0, 1, 2, 3}
    BY DEF MInv, Revisions
  <2>2. Fresh[to] = Schema(to) /\ Schema(to).ok
    BY FreshSchemas, SchemaTypes
  <2>3. CASE revision >= 2 /\ to < 2
    BY <2>3, Outcomes
  <2>4. CASE ~(revision >= 2 /\ to < 2)
    <3>1. Outcome(to) = Schema(to)
      BY <2>1, <2>4, Outcomes
    <3>. QED
      BY <2>2, <2>4, <3>1
  <2>. QED
    BY <2>3, <2>4
<1>. QED
  BY <1>1 DEF MigrationsEndAsNew

\* BooksBalance: while seed scripts, edits, migrations, transfers, workers and
\* the benchmark cross, every wallet is the sum of its journal, and every debit
\* of a task is of a completed one.
THEOREM BooksAreBalanced ==
    ASSUME DatabaseAssumption, DialogsAssumption
    PROVE  Spec => []BooksBalance
<1>1. IInv => BooksBalance
  BY BooksFollow DEF IInv
<1>. QED
  BY <1>1, Inductive, PTL

\* MigrationsEndAsNew: from every state that operation comes to, alembic gets to
\* every later revision and from 1 to 0 and 3 to 2, always to the schema that a new
\* database has there; a downgrade from 2 or 3 to 0 or 1 is always refused.
THEOREM WhereMigrationsEnd ==
    ASSUME DatabaseAssumption, DialogsAssumption
    PROVE  Spec => []MigrationsEndAsNew
<1>1. IInv => MigrationsEndAsNew
  BY MigrationsFollow DEF IInv
<1>. QED
  BY <1>1, Inductive, PTL

\* However it was come to, by upgrades, downgrades and whatever was in between,
\* the tables and the models are those of the revision.
THEOREM SchemaOfRevision ==
    ASSUME DatabaseAssumption, DialogsAssumption
    PROVE  Spec => [](tables = TablesAt(revision) /\ models = ModelsAt(revision))
<1>1. IInv => tables = TablesAt(revision) /\ models = ModelsAt(revision)
  BY DEF IInv, MInv
<1>. QED
  BY <1>1, Inductive, PTL

\* RowsAreTrue: the benchmark says "completed" of tasks that are, and "timeout"
\* only after its deadline or an answer that came too late.
THEOREM ReportIsTrue ==
    ASSUME DatabaseAssumption, DialogsAssumption
    PROVE  Spec => []RowsAreTrue
<1>1. IInv => RowsAreTrue
  BY DEF IInv, RInv
<1>. QED
  BY <1>1, Inductive, PTL

\* No step of anybody, a migration included, takes back or forgets a task.
THEOREM TasksGoOnwards ==
    ASSUME DatabaseAssumption, DialogsAssumption
    PROVE  Spec => [][Onwards]_vars
<1>1. ASSUME IInv, [Next]_vars
      PROVE  Onwards
  <2>1. CASE \E to \in Revisions : Migrate(to)
    <3>1. UNCHANGED task \/ \A j \in Tasks : task'[j] = task[j]
      BY <1>1, <2>1, Migrates DEF IInv, rows, NoTasks
    <3>. QED
      BY <3>1 DEF Onwards
  <2>2. CASE \E j \in Tasks : Complete(j)
    BY <1>1, <2>2 DEF Complete, Onwards, IInv, TInv
  <2>3. CASE Post
    <3>1. bench.phase = "posting" /\ (UNCHANGED task \/ task' = [task EXCEPT ![bench.at] = "pending"])
      BY <2>3 DEF Post
    <3>2. bench.at \in Tasks => task[bench.at] = "none"
      BY <1>1, <3>1 DEF IInv, TInv, Posting, DatabaseAssumption
    <3>. QED
      BY <1>1, <3>1, <3>2 DEF Onwards, IInv, TInv
  <2>4. CASE UNCHANGED task
    BY <2>4 DEF Onwards
  <2>5. \/ \E to \in Revisions : Migrate(to)
        \/ \E j \in Tasks : Complete(j)
        \/ Post
        \/ UNCHANGED task
    BY <1>1 DEF Next, Server, SeedStep, AdministrationStep, BenchmarkStep, StartSeed, StartStats,
       StartEdit, LookForAdmin, AddUsers, DebitAdmin, CommitSeed, Save, CommitEdit, RunQuery, EndStats,
       Abort, Register, TopUp, LogIn, ChooseModel, CheckDeadline, Get, Expire, vars, database, rows
  <2>. QED
    BY <2>1, <2>2, <2>3, <2>4, <2>5
<1>2. IInv /\ [Next]_vars => [Onwards]_vars
  BY <1>1
<1>. QED
  BY <1>2, Inductive, PTL DEF Spec

\* SeedsOnlyAdd: a script debits no administrator but one that it creates itself, and
\* those it creates are not there until it commits.
THEOREM SeedsOnlyAddRows ==
    ASSUME DatabaseAssumption, DialogsAssumption
    PROVE  Spec => SeedsOnlyAdd
<1>. DEFINE Kept(l) ==
        /\ account'[l] = account[l] /\ wallet'[l] = wallet[l]
        /\ {e \in journal' : e.login = l} = {e \in journal : e.login = l}
<1>1. ASSUME IInv, NEW t \in Threads, NEW l \in Logins, CommitSeed(t), account[l] # NoAccount
      PROVE  Kept(l)
  <2>. DEFINE s == session[t]
              new == session[t].absent
  <2>1. IsSeed(s) /\ s.phase = "debited" /\ Decided(s)
    BY <1>1 DEF IInv, EInv, Shapes, Shape, IsSeed, IsEdit, IsStats, NoSession, CommitSeed,
       Seeding, BInv, Decisions
  <2>2. new \subseteq Logins /\ (s.debits <=> "admin" \in new)
    BY <2>1 DEF IsSeed, Decided
  <2>3. l \notin new
    BY <1>1, <2>1, <2>2 DEF IInv, EInv, Seeds, Holds, IsSeed
  <2>4. /\ account' = [k \in Logins |-> IF k \in new THEN Seeded(k) ELSE account[k]]
        /\ wallet' = [k \in Logins |->
               IF k = "admin" /\ s.debits THEN s.balance
               ELSE IF k \in new THEN Topup(k) ELSE wallet[k]]
        /\ journal' = journal \cup {Credit(k) : k \in new} \cup (IF s.debits THEN {Debit} ELSE {})
    BY <1>1 DEF CommitSeed
  <2>. HIDE DEF s, new
  <2>5. \A e \in journal' \ journal : e.login \in new
    BY <2>2, <2>4 DEF Credit, Debit, Entry
  <2>6. journal \subseteq journal'
    BY <2>4
  <2>. QED
    BY <1>1, <2>2, <2>3, <2>4, <2>5, <2>6
<1>2. IInv /\ [Next]_vars => [\A t \in Threads, l \in Logins :
          CommitSeed(t) /\ account[l] # NoAccount => Kept(l)]_vars
  BY <1>1
<1>. QED
  BY <1>2, Inductive, PTL DEF Spec, SeedsOnlyAdd

=============================================================================
