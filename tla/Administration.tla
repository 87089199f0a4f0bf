--------------------------- MODULE Administration ---------------------------
(***************************************************************************)
(* Profile edits and statistics: UserService.update_profile and            *)
(* admin_patch_user, and GET /admin/stats.  Both are transactions at READ  *)
(* COMMITTED that take several statements, without a lock on what they     *)
(* have read.                                                              *)
(***************************************************************************)
EXTENDS DemoDatabase

Fields == {"name", "role", "allow"}

CONSTANT Requests   \* edits that clients ask for: the fields they name, with values

ASSUME RequestAssumption ==
    \A r \in Requests : DOMAIN r \subseteq {"name", "allow"}

\* _require_admin: only the script makes an administrator.
AdminExists == \E l \in Logins : account[l] # NoAccount /\ account[l].role = "admin"

Editing(t, phase) == session[t].kind = "edit" /\ session[t].phase = phase

\* The first read of the profile; what is not named keeps the value read.
StartEdit(t, login, request) ==
    /\ account[login] # NoAccount
    /\ "allow" \in DOMAIN request => AdminExists
    /\ Open(t, [kind  |-> "edit", phase |-> "saving", login |-> login,
                named |-> DOMAIN request,
                row   |-> [f \in Fields |-> IF f \in DOMAIN request THEN request[f]
                                                                 ELSE account[login][f]],
                writes |-> {}, raced |-> FALSE])
    /\ UNCHANGED <<schema, rows, transfers>>

\* Mutation of Save: every column is written.
SaveAll(t) ==
    /\ Editing(t, "saving")
    /\ session' = [session EXCEPT ![t].phase = "flushing", ![t].writes = Fields]
    /\ UNCHANGED <<schema, rows, sessions, transfers>>

\* SqlAlchemyUserStore.save reads the row again and assigns all its columns;
\* the session writes those that this changes.
Save(t) ==
    /\ Editing(t, "saving")
    /\ LET s == session[t] IN
       session' = [session EXCEPT
          ![t].phase = "flushing",
          ![t].writes = {f \in Fields : s.row[f] # account[s.login][f]}]
    /\ UNCHANGED <<schema, rows, sessions, transfers>>

\* The UPDATE and the commit.  "raced" records that another edit of the same
\* user was committed between the two reads of a session.
CommitEdit(t) ==
    /\ Editing(t, "flushing")
    /\ LET s == session[t] IN
       /\ account' = [account EXCEPT ![s.login] =
             [f \in DOMAIN @ |-> IF f \in s.writes THEN s.row[f] ELSE @[f]]]
       /\ session' = [o \in Threads |->
             IF o = t THEN NoSession
             ELSE IF Editing(o, "saving") /\ session[o].login = s.login
             THEN [session[o] EXCEPT !.raced = TRUE] ELSE session[o]]
    /\ UNCHANGED <<schema, wallet, journal, task, sessions, transfers>>

----------------------------------------------------------------------------
(* GET /admin/stats                                                        *)

\* The queries about tasks, in their order; those about users, the journal and
\* the wallets come before them.
Queries == <<"all", "pending", "completed">>

\* Mutation of Count: the completed tasks are counted before the pending ones.
CountSwapped(i) ==
    Cardinality({j \in Tasks :
        \/ i = 1 /\ task[j] # "none"
        \/ i = 2 /\ task[j] = "completed"
        \/ i = 3 /\ task[j] = "pending"})

Count(i) ==
    Cardinality({j \in Tasks :
        \/ Queries[i] = "all" /\ task[j] # "none"
        \/ Queries[i] = task[j]})

StartStats(t) ==
    /\ AdminExists
    /\ Open(t, [kind |-> "stats", counts |-> <<>>])
    /\ UNCHANGED <<schema, rows, transfers>>

RunQuery(t) ==
    /\ session[t].kind = "stats"
    /\ Len(session[t].counts) < Len(Queries)
    /\ session' = [session EXCEPT
          ![t].counts = Append(@, Count(Len(@) + 1))]
    /\ UNCHANGED <<schema, rows, sessions, transfers>>

EndStats(t) ==
    /\ session[t].kind = "stats"
    /\ Len(session[t].counts) = Len(Queries)
    /\ Close(t)
    /\ UNCHANGED <<schema, rows, sessions, transfers>>

AdministrationStep(t) ==
    \/ Save(t)
    \/ CommitEdit(t)
    \/ RunQuery(t)
    \/ EndStats(t)
=============================================================================
