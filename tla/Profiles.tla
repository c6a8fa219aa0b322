------------------------------ MODULE Profiles ------------------------------
(***************************************************************************)
(* Accounts live at Clerk; the API keeps one profile row per account.  A   *)
(* profile is written by POST /auth/sync, which reads the account from     *)
(* Clerk first, by DELETE /users/{id}, which deletes the account at Clerk  *)
(* before its own deletion commits, and by the handlers of Clerk's         *)
(* webhooks, which carry the account as it was when the event was sent.    *)
(*                                                                         *)
(* Clerk delivers an event in no fixed order, and again until it sees a    *)
(* 2xx answer: `events` is a set, and an answered event may stay in it.    *)
(*                                                                         *)
(* A request is a worker's coroutine, interleaved with the others at every *)
(* await.  Its one write and the commit are a single step here: PostgreSQL *)
(* lets no other transaction write the row, or insert its unique keys, in  *)
(* between, and nobody sees the row before the commit.  The answer is sent *)
(* before the commit, which may then never come (`Stop`).                  *)
(***************************************************************************)
EXTENDS Naturals

CONSTANTS
  Accounts, Emails,
  Workers,      \* coroutines serving requests at once
  Wishes,       \* roles clients ask a sync for, None if for none
  Seeds,        \* profiles that may exist at the start
  MaxIds,       \* bounds the profiles ever inserted
  MaxActs,      \* bounds what users and the network do
  None, NotYet, Gone

Ids         == 1..MaxIds
SyncRoles   == {"LANDLORD", "TENANT"}           \* what the body of a sync may hold
ValidRoles  == {"LANDLORD", "TENANT", "BOTH"}   \* what sync_user takes
StoredRoles == ValidRoles \cup {"ADMIN"}

(* `held`: listings or favourites refer to the row.                        *)
Profile   == [account : Accounts, email : Emails, role : StoredRoles, held : BOOLEAN]
NoProfile == [account |-> None, email |-> None, role |-> None, held |-> FALSE]

Webhooks  == {"created", "updated", "deleted"}

ASSUME ProfilesAssumption ==
  /\ MaxIds \in Nat /\ MaxActs \in Nat
  /\ Wishes \subseteq SyncRoles \cup {None}
  /\ Seeds \subseteq Profile \cup {NoProfile}
  /\ None \notin Accounts /\ None \notin Emails /\ None \notin Ids
  /\ None \notin StoredRoles /\ None \notin Webhooks \cup {"sync", "remove"}
  /\ NotYet \notin Emails /\ Gone \notin Emails /\ NotYet # Gone

VARIABLES
  clerk,      \* clerk[a]: the account's email, NotYet or Gone
  users,      \* the committed table
  next,       \* the next id the table gives
  events,     \* webhook events Clerk will still deliver
  req,        \* what each worker is doing
  lost,       \* events answered 2xx by a transaction that did not commit
  acts,       \* requests, changes of email, attachments, mishaps so far
  survivors   \* ids inserted for, or kept in spite of, an account already gone

vars == <<clerk, users, next, events, lost, req, acts, survivors>>

Stages   == {"idle", "fetched", "missing", "found", "loaded", "answered", "bare"}
Event    == [type : Webhooks, account : Accounts, email : Emails \cup {None}]

(* `id` is None while there is no row; `email_was` and `role_was` are the   *)
(* row's columns as an update loaded them.                                 *)
Request == [stage : Stages, op : Webhooks \cup {"sync", "remove", None},
            account : Accounts \cup {None}, email : Emails \cup {None},
            role : SyncRoles \cup {None}, id : Ids \cup {None},
            email_was : Emails \cup {None}, role_was : StoredRoles \cup {None}]

Idle == [stage |-> "idle", op |-> None, account |-> None, email |-> None,
         role |-> None, id |-> None, email_was |-> None, role_was |-> None]

TypeOK ==
  /\ clerk \in [Accounts -> Emails \cup {NotYet, Gone}]
  /\ users \in [Ids -> Profile \cup {NoProfile}]
  /\ next \in 1..(MaxIds + 1)
  /\ events \subseteq Event /\ lost \subseteq Event
  /\ req \in [Workers -> Request]
  /\ acts \in 0..MaxActs
  /\ survivors \subseteq Ids

(* The table is empty, or holds the profile of one account still at Clerk. *)
Init ==
  /\ \E seed \in Seeds :
       /\ users = [i \in Ids |-> IF i = 1 THEN seed ELSE NoProfile]
       /\ clerk = [a \in Accounts |-> IF a = seed.account THEN seed.email ELSE NotYet]
       /\ next = IF seed = NoProfile \/ MaxIds = 0 THEN 1 ELSE 2
  /\ events = {} /\ lost = {}
  /\ req = [w \in Workers |-> Idle]
  /\ acts = 0
  /\ survivors = {}

----------------------------------------------------------------------------
(* At Clerk, and in the tables that refer to a profile                     *)

Created(a, e) == [type |-> "created", account |-> a, email |-> e]
Updated(a, e) == [type |-> "updated", account |-> a, email |-> e]
Deleted(a)    == [type |-> "deleted", account |-> a, email |-> None]

Act == acts < MaxActs /\ acts' = acts + 1

Unclaimed(e) == \A a \in Accounts : clerk[a] # e

SignUp(a, e) ==
  /\ clerk[a] = NotYet /\ Unclaimed(e)
  /\ clerk' = [clerk EXCEPT ![a] = e]
  /\ events' = events \cup {Created(a, e)}
  /\ UNCHANGED <<users, next, lost, req, acts, survivors>>

ChangeEmail(a, e) ==
  /\ clerk[a] \in Emails /\ Unclaimed(e)
  /\ Act
  /\ clerk' = [clerk EXCEPT ![a] = e]
  /\ events' = events \cup {Updated(a, e)}
  /\ UNCHANGED <<users, next, lost, req, survivors>>

(* users.delete: Clerk forgets the account and tells it.                   *)
Close(a) ==
  /\ clerk[a] \in Emails
  /\ clerk' = [clerk EXCEPT ![a] = Gone]
  /\ events' = events \cup {Deleted(a)}

CloseAtClerk(a) == Close(a) /\ UNCHANGED <<users, next, lost, req, acts, survivors>>

(* The owner publishes a first listing or favourite, or removes the last.  *)
Attach(i) ==
  /\ users[i] # NoProfile /\ Act
  /\ users' = [users EXCEPT ![i].held = ~@]
  /\ UNCHANGED <<clerk, next, events, lost, req, survivors>>

----------------------------------------------------------------------------
(* Steps of a request                                                      *)

Advance(w, q) == req' = [req EXCEPT ![w] = q]
Reads         == UNCHANGED <<clerk, users, next, events, lost, acts, survivors>>

(* An event answered 2xx is not delivered again, unless the answer is lost.*)
EventOf(q) == [type |-> q.op, account |-> q.account, email |-> q.email]

Acknowledge(q) ==
  \/ events' = events \ {EventOf(q)} /\ UNCHANGED acts
  \/ UNCHANGED events /\ Act

Answer(w, q) == Advance(w, Idle) /\ Acknowledge(q)
Refuse(w)    == Advance(w, Idle) /\ UNCHANGED <<events, acts>>
Untouched    == UNCHANGED <<clerk, users, next, lost, survivors>>

ProfilesOf(a) == {i \in Ids : users[i].account = a}

(* The first SELECT of sync_user and of the three webhook handlers.        *)
SelectAccount(w, q) ==
  \/ \E i \in ProfilesOf(q.account) :
       /\ Advance(w, IF q.op = "deleted"
                     THEN [q EXCEPT !.stage = "found", !.id = i]
                     ELSE [q EXCEPT !.stage = "loaded", !.id = i,
                                    !.email_was = users[i].email, !.role_was = users[i].role])
       /\ Reads
  \/ /\ ProfilesOf(q.account) = {}
     /\ q.op \in {"sync", "created"}
     /\ Advance(w, [q EXCEPT !.stage = "missing"])
     /\ Reads
  \/ /\ ProfilesOf(q.account) = {}
     /\ q.op \in {"updated", "deleted"}
     /\ Answer(w, q) /\ Untouched

(* POST /auth/sync: Clerk is asked for the account before the database is. *)
FetchAccount(w, a, wish) ==
  /\ req[w] = Idle
  /\ clerk[a] \in Emails /\ Act
  /\ Advance(w, [Idle EXCEPT !.stage = "fetched", !.op = "sync", !.account = a,
                             !.email = clerk[a], !.role = wish])
  /\ UNCHANGED <<clerk, users, next, events, lost, survivors>>

SyncUser(w) == req[w].stage = "fetched" /\ SelectAccount(w, req[w])

(* POST /webhooks/clerk.                                                   *)
Deliver(w, e) ==
  /\ req[w] = Idle
  /\ e \in events
  /\ SelectAccount(w, [Idle EXCEPT !.op = e.type, !.account = e.account, !.email = e.email])

(* No profile: is the email free?  A conflict is a 409 of sync, and is     *)
(* swallowed by user.created.                                              *)
SelectEmail(w) ==
  LET q == req[w]
  IN  /\ q.stage = "missing"
      /\ \/ /\ \E i \in Ids : users[i].email = q.email
            /\ IF q.op = "created" THEN Answer(w, q) ELSE Refuse(w)
            /\ Untouched
         \/ /\ \A i \in Ids : users[i].email # q.email
            /\ Advance(w, [q EXCEPT !.stage = "loaded"])
            /\ Reads

(* Wrong: no unique index on email.                                        *)
FitsAccountOnly(i, p) == \A j \in Ids \ {i} : users[j].account # p.account

(* Wrong: no unique index on clerk_user_id.                                *)
FitsEmailOnly(i, p) == \A j \in Ids \ {i} : users[j].email # p.email

(* The unique indexes on clerk_user_id and email.                          *)
Fits(i, p) == \A j \in Ids \ {i} : users[j].account # p.account /\ users[j].email # p.email

(* Wrong: the role asked for is stored as it came, also when none was.     *)
InsertUnchecked(w) ==
  LET q == req[w]
      p == [account |-> q.account, email |-> q.email, held |-> FALSE, role |-> q.role]
  IN  /\ q.stage = "loaded" /\ q.op \in {"sync", "created"} /\ q.id = None
      /\ next \in Ids /\ Fits(next, p)
      /\ users' = [users EXCEPT ![next] = p]
      /\ next' = next + 1
      /\ IF q.op = "created" THEN Answer(w, q) ELSE Refuse(w)
      /\ UNCHANGED <<clerk, lost, survivors>>

(* Wrong: an insert takes over the email, and with it the place, of the    *)
(* profile that holds it.                                                  *)
InsertDisplacing(w) ==
  LET q == req[w]
      p == [account |-> q.account, email |-> q.email, held |-> FALSE, role |-> "TENANT"]
  IN  /\ q.stage = "loaded" /\ q.op \in {"sync", "created"} /\ q.id = None
      /\ next \in Ids
      /\ users' = [i \in Ids |-> IF i = next THEN p
                                ELSE IF users[i].email = q.email THEN NoProfile
                                ELSE users[i]]
      /\ next' = next + 1
      /\ IF q.op = "created" THEN Answer(w, q) ELSE Refuse(w)
      /\ UNCHANGED <<clerk, lost, survivors>>

(* An insert that meets a unique index is a 500: Clerk delivers it again.  *)
(* So, here, is one beyond MaxIds.                                         *)
Insert(w) ==
  LET q == req[w]
      p == [account |-> q.account, email |-> q.email, held |-> FALSE,
            role |-> IF q.role \in ValidRoles THEN q.role ELSE "TENANT"]
  IN  /\ q.stage = "loaded" /\ q.op \in {"sync", "created"} /\ q.id = None
      /\ IF next \in Ids /\ Fits(next, p)
         THEN /\ users' = [users EXCEPT ![next] = p]
              /\ next' = next + 1
              /\ survivors' = survivors \cup {i \in {next} : clerk[q.account] = Gone}
              /\ IF q.op = "created" THEN Answer(w, q) ELSE Refuse(w)
              /\ UNCHANGED <<clerk, lost>>
         ELSE Refuse(w) /\ Untouched

(* Wrong: the TENANT default of an insert applied to an update as well.    *)
RewrittenToDefault(q, row) ==
  [row EXCEPT !.email = q.email,
              !.role  = IF q.role \in ValidRoles THEN q.role ELSE "TENANT"]

(* The ORM writes the columns whose value differs from the row it loaded.  *)
Rewritten(q, row) ==
  [row EXCEPT !.email = IF q.email # q.email_was THEN q.email ELSE @,
              !.role  = IF q.role \in ValidRoles \ {q.role_was} THEN q.role ELSE @]

(* Wrong: a collision of emails is logged and answered 200.                *)
UpdateSwallowing(w) ==
  LET q   == req[w]
      new == Rewritten(q, users[q.id])
  IN  /\ q.stage = "loaded" /\ q.op \in {"sync", "created", "updated"} /\ q.id # None
      /\ users[q.id] # NoProfile
      /\ users' = IF Fits(q.id, new) THEN [users EXCEPT ![q.id] = new] ELSE users
      /\ IF q.op = "sync" THEN Refuse(w) ELSE Answer(w, q)
      /\ UNCHANGED <<clerk, next, lost, survivors>>

(* A row gone since is a StaleDataError, or fails sync_user's refresh.     *)
Update(w) ==
  LET q   == req[w]
      row == users[q.id]
      new == Rewritten(q, row)
  IN  /\ q.stage = "loaded" /\ q.op \in {"sync", "created", "updated"} /\ q.id # None
      /\ \/ /\ row # NoProfile /\ Fits(q.id, new)
            /\ users' = [users EXCEPT ![q.id] = new]
            /\ IF q.op = "sync" THEN Refuse(w) ELSE Answer(w, q)
            /\ UNCHANGED <<clerk, next, lost, survivors>>
         \/ /\ row # NoProfile /\ ~Fits(q.id, new)
            /\ Refuse(w) /\ Untouched
         \/ /\ row = NoProfile
            /\ IF q.op = "updated" /\ q.email = q.email_was THEN Answer(w, q) ELSE Refuse(w)
            /\ Untouched

(* user.deleted selects the row again: one gone in between is a 404, of    *)
(* one found the deletion is answered before it is flushed.                *)
SelectUser(w) ==
  LET q == req[w]
  IN  /\ q.stage = "found"
      /\ IF users[q.id] # NoProfile
         THEN Advance(w, [q EXCEPT !.stage = "answered"]) /\ Acknowledge(q)
         ELSE Refuse(w)
      /\ Untouched

(* DELETE /users/{id}: by the owner or an ADMIN.                           *)
MayRemove(c, i) == users[c] # NoProfile /\ (users[c].role = "ADMIN" \/ c = i)

Remove(w, c, i) ==
  /\ req[w] = Idle
  /\ users[i] # NoProfile /\ MayRemove(c, i) /\ Act
  /\ Advance(w, [Idle EXCEPT !.stage = "loaded", !.op = "remove", !.id = i,
                             !.account = users[i].account])
  /\ UNCHANGED <<clerk, users, next, events, lost, survivors>>

(* delete_auth_user: a failure is logged and the request goes on.          *)
DeleteAuthUser(w) ==
  LET q == req[w]
  IN  /\ q.stage = "loaded" /\ q.op = "remove"
      /\ Advance(w, [q EXCEPT !.stage = "answered"])
      /\ \/ Close(q.account)
         \/ UNCHANGED <<clerk, events>>
      /\ UNCHANGED <<users, next, lost, acts, survivors>>

(* Wrong: the row of an ADMIN is left alone, as if something held it.      *)
SelectDependantsSparing(w) ==
  LET q == req[w]
  IN  /\ q.stage = "answered"
      /\ \/ /\ users[q.id].held \/ users[q.id].role = "ADMIN"
            /\ Advance(w, Idle)
            /\ survivors' = survivors \cup {i \in {q.id} : q.op = "deleted" /\ users[i].held}
         \/ /\ ~(users[q.id].held \/ users[q.id].role = "ADMIN")
            /\ Advance(w, [q EXCEPT !.stage = "bare"])
            /\ UNCHANGED survivors
      /\ UNCHANGED <<clerk, users, next, events, lost, acts>>

(* db.delete is flushed at the commit.  The ORM first selects what refers  *)
(* to the row, to clear keys that may not be NULL: of a held row it fails. *)
SelectDependants(w) ==
  LET q == req[w]
  IN  /\ q.stage = "answered"
      /\ \/ /\ users[q.id].held
            /\ Advance(w, Idle)
            /\ survivors' = survivors \cup {i \in {q.id} : q.op = "deleted"}
         \/ /\ ~users[q.id].held
            /\ Advance(w, [q EXCEPT !.stage = "bare"])
            /\ UNCHANGED survivors
      /\ UNCHANGED <<clerk, users, next, events, lost, acts>>

(* What came to refer to the row since, the foreign keys remove with it;   *)
(* of a row gone, the ORM only warns.                                      *)
Delete(w) ==
  /\ req[w].stage = "bare"
  /\ users' = [users EXCEPT ![req[w].id] = NoProfile]
  /\ Refuse(w)
  /\ UNCHANGED <<clerk, next, lost, survivors>>

(* The process stops, or the commit fails: before the answer or after it.  *)
Stop(w) ==
  LET q == req[w]
      answered == q.stage \in {"answered", "bare"}
  IN  /\ q # Idle /\ Act
      /\ Advance(w, Idle)
      /\ \/ /\ lost' = lost \cup (IF answered /\ q.op = "deleted" THEN {EventOf(q)} ELSE {})
            /\ UNCHANGED events
         \/ /\ q.stage = "loaded" /\ q.op \in {"created", "updated"}
            /\ lost' = lost \cup {EventOf(q)}
            /\ events' = events \ {EventOf(q)}
      /\ UNCHANGED <<clerk, users, next, survivors>>

----------------------------------------------------------------------------
Step(w) ==
  \/ SyncUser(w) \/ SelectEmail(w) \/ SelectUser(w)
  \/ Insert(w) \/ Update(w)
  \/ DeleteAuthUser(w) \/ SelectDependants(w) \/ Delete(w)

Next ==
  \/ \E a \in Accounts, e \in Emails : SignUp(a, e) \/ ChangeEmail(a, e)
  \/ \E a \in Accounts : CloseAtClerk(a)
  \/ \E i \in Ids : Attach(i)
  \/ \E w \in Workers :
       \/ \E a \in Accounts, wish \in Wishes : FetchAccount(w, a, wish)
       \/ \E e \in events : Deliver(w, e)
       \/ \E c, i \in Ids : Remove(w, c, i)
       \/ Step(w) \/ Stop(w)

Spec == Init /\ [][Next]_vars

(* A coroutine that can go on does; Clerk delivers again until answered.   *)
FairSpec ==
  /\ Spec
  /\ \A w \in Workers : WF_vars(Step(w))
  /\ \A a \in Accounts : SF_vars(\E w \in Workers : Deliver(w, Deleted(a)))

----------------------------------------------------------------------------
(* Accounts and emails name at most one profile each: overlapping first    *)
(* syncs and a webhook that inserts at the same time are told apart only   *)
(* by the unique indexes.                                                  *)
OneProfileEach ==
  \A i, j \in Ids : i # j /\ users[i] # NoProfile
                    => users[i].account # users[j].account /\ users[i].email # users[j].email

(* A profile whose account is gone waits for user.deleted or for a handler *)
(* to remove it.  The others were inserted too late, from an account read  *)
(* or an event sent earlier, or had listings or favourites when the event  *)
(* was handled, or the handler stopped between its answer and its commit.  *)
OutlivesWithACause ==
  \A i \in Ids \ survivors :
    users[i] # NoProfile /\ clerk[users[i].account] = Gone
    => \/ Deleted(users[i].account) \in events \cup lost
       \/ \E w \in Workers : req[w].op = "deleted" /\ req[w].id = i

(* Webhooks leave the role of a profile alone, whatever they overlap with; *)
(* it changes to what a sync of the same account asked for, never to ADMIN.*)
RolesComeFromSync ==
  [][\A i \in Ids :
       users[i] # NoProfile /\ users'[i] # NoProfile /\ users'[i].role # users[i].role
       => \E w \in Workers :
            /\ req[w].op = "sync" /\ req[w].account = users[i].account
            /\ req[w].role = users'[i].role
            /\ req'[w] = Idle]_vars

(* A profile disappears only when its account is gone or its deletion was  *)
(* asked for through the API: no other write displaces it, also when two   *)
(* accounts race for one email.                                            *)
ProfilesLeaveOnRequest ==
  [][\A i \in Ids :
       users[i] # NoProfile /\ users'[i] = NoProfile
       => \/ clerk[users[i].account] = Gone
          \/ \E w \in Workers : req[w].op = "remove" /\ req[w].id = i]_vars

(* An event answered 2xx and not lost took effect: a created account has a *)
(* profile, unless its email was taken; a new email is in the profile, or  *)
(* was when the handler looked; the profile of a deleted account is gone,  *)
(* or its handler is about to look what refers to it.                      *)
AnswerMeansDone ==
  [][\A a \in Accounts, e \in Emails :
       LET answered == (events \ events') \ lost'
       IN  /\ Created(a, e) \in answered
                => \E i \in Ids : users'[i].account = a \/ users'[i].email = e
           /\ Updated(a, e) \in answered
                => \A i \in Ids : users'[i].account = a
                     => users'[i].email = e \/ \E w \in Workers : req[w].email_was = e
           /\ Deleted(a) \in answered
                => \A i \in Ids : users'[i].account = a
                     => \E w \in Workers : req'[w].stage = "answered" /\ req'[w].id = i]_vars

(* An account deleted at Clerk loses its profile, unless something refers  *)
(* to it or the handler stops after its answer, however often user.deleted *)
(* fails or overlaps with other writes.                                    *)
DeletionReachesProfile ==
  \A a \in Accounts :
    Deleted(a) \in events
      ~> Deleted(a) \in lost \/ \A i \in ProfilesOf(a) : users[i].held

=============================================================================
