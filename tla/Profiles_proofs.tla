--------------------------- MODULE Profiles_proofs ---------------------------
(***************************************************************************)
(* Theorems about Profiles for any accounts, emails, coroutines and        *)
(* bounds, from one inductive invariant: what requests in flight know of   *)
(* the table stays true although other requests write it meanwhile.        *)
(***************************************************************************)
EXTENDS Profiles, TLAPS

(* What a request knows while clerk is c, the table u and the next id n:   *)
(* each stage has the values it works with; user.deleted is about an       *)
(* account that is gone; a loaded row, unless deleted, is the account's.   *)
Sound(q, c, u, n) ==
  /\ q.stage \in {"fetched", "missing"} =>
       q.account \in Accounts /\ q.email \in Emails /\ q.id = None /\ q.op \in {"sync", "created"}
  /\ q.stage = "loaded" =>
       /\ q.account \in Accounts /\ q.op \in {"sync", "created", "updated", "remove"}
       /\ q.op # "remove" => q.email \in Emails
       /\ q.op \in {"updated", "remove"} => q.id # None
  /\ q.stage \in {"found", "answered", "bare"} =>
       q.account \in Accounts /\ q.id # None /\ q.op \in {"deleted", "remove"}
  /\ q.op = "deleted" =>
       /\ q.stage \in {"found", "answered", "bare"} /\ q.email = None
       /\ c[q.account] = Gone
  /\ q.role # None => q.op = "sync"
  /\ q.id # None => /\ q.id \in Ids /\ q.id < n
                    /\ u[q.id] # NoProfile => u[q.id].account = q.account

RequestsSound == \A w \in Workers : Sound(req[w], clerk, users, next)

(* user.deleted is sent of accounts that are gone, the others with an email. *)
EventsSound ==
  \A e \in events : IF e.type = "deleted" THEN e.email = None /\ clerk[e.account] = Gone
                    ELSE e.email \in Emails

(* Ids not handed out yet have no row. *)
FreshIds == \A i \in Ids : i >= next => users[i] = NoProfile

(* The request has answered user.deleted and is about to delete row i. *)
Leaving(q, i) == q.op = "deleted" /\ q.stage \in {"answered", "bare"} /\ q.id = i

(* OutlivesWithACause, with a request that only found the row left out: it *)
(* may stop, and then the event is still there or another one is leaving.  *)
Outlives ==
  \A i \in Ids \ survivors :
    users[i] # NoProfile /\ clerk[users[i].account] = Gone
    => \/ Deleted(users[i].account) \in events \cup lost
       \/ \E w \in Workers : Leaving(req[w], i)

IInv == TypeOK /\ OneProfileEach /\ RequestsSound /\ EventsSound /\ FreshIds /\ Outlives

----------------------------------------------------------------------------
(* Requests in flight *)

(* Nothing refers to an idle worker. *)
LEMMA IdleSound ==
  ASSUME NEW c, NEW u, NEW n
  PROVE  Idle \in Request /\ Sound(Idle, c, u, n) /\ (\A i : ~Leaving(Idle, i))
<1>1. Idle \in Request
  BY DEF Idle, Request, Stages
<1>2. /\ Idle.stage = "idle" /\ Idle.role = None /\ Idle.id = None
      /\ Idle.op # "deleted"
  BY ProfilesAssumption DEF Idle, Webhooks
<1>3. Sound(Idle, c, u, n) /\ \A i : ~Leaving(Idle, i)
  BY <1>2 DEF Sound, Leaving
<1>4. QED
  BY <1>1, <1>3

(* What other requests do: no account comes back, no id is used again and  *)
(* no row changes its account.                                             *)
Grows ==
  /\ \A a \in Accounts : clerk[a] = Gone => clerk'[a] = Gone
  /\ next <= next' /\ next' \in Nat
  /\ \A i \in Ids : i < next /\ users'[i] # NoProfile
                      => users[i] # NoProfile /\ users'[i].account = users[i].account

(* So a request keeps what it knows while others go on. *)
LEMMA OthersStaySound ==
  ASSUME IInv, Grows, NEW w \in Workers
  PROVE  Sound(req[w], clerk', users', next')
<1>1. Sound(req[w], clerk, users, next)
  BY DEF IInv, RequestsSound
<1>2. next \in Nat /\ MaxIds \in Nat
  BY ProfilesAssumption DEF IInv, TypeOK
<1>3. req[w].op = "deleted" => clerk'[req[w].account] = Gone
  BY <1>1 DEF Sound, Grows
<1>4. req[w].id # None =>
        /\ req[w].id \in Ids /\ req[w].id < next'
        /\ users'[req[w].id] # NoProfile => users'[req[w].id].account = req[w].account
  BY <1>1, <1>2 DEF Sound, Grows, Ids
<1>5. QED
  BY <1>1, <1>3, <1>4 DEF Sound

(* One worker goes on to a sound request, the others to nothing new. *)
LEMMA RequestsStaySound ==
  ASSUME IInv, Grows, NEW w \in Workers, NEW q \in Request, Advance(w, q),
         Sound(q, clerk', users', next')
  PROVE  req' \in [Workers -> Request] /\ RequestsSound'
<1>1. req \in [Workers -> Request] /\ req' = [req EXCEPT ![w] = q]
  BY DEF IInv, TypeOK, Advance
<1>2. req' \in [Workers -> Request]
  BY <1>1
<1>3. ASSUME NEW v \in Workers
      PROVE  Sound(req'[v], clerk', users', next')
  BY <1>1, OthersStaySound
<1>4. QED
  BY <1>2, <1>3 DEF RequestsSound

(* Without a write, and when no request moves. *)
LEMMA StandingStillGrows ==
  ASSUME IInv, UNCHANGED <<clerk, users, next>>
  PROVE  Grows
  BY ProfilesAssumption DEF Grows, IInv, TypeOK

(* A step of a request that writes nothing keeps the invariant, when the   *)
(* cause of a row that outlives its account is passed on.                  *)
LEMMA QuietKeepsIInv ==
  ASSUME IInv, NEW w \in Workers, NEW q \in Request, Advance(w, q),
         Sound(q, clerk, users, next), UNCHANGED <<clerk, users, next>>,
         events' \subseteq events, lost \subseteq lost', lost' \subseteq Event,
         acts' \in 0..MaxActs, survivors \subseteq survivors', survivors' \subseteq Ids,
         \A i \in Ids \ survivors' : users[i] # NoProfile =>
           /\ Deleted(users[i].account) \in events
                => Deleted(users[i].account) \in events' \cup lost' \/ Leaving(q, i)
           /\ Leaving(req[w], i)
                => Deleted(users[i].account) \in events' \cup lost' \/ Leaving(q, i)
  PROVE  IInv'
<1>1. Grows
  BY StandingStillGrows
<1>2. req' \in [Workers -> Request] /\ RequestsSound'
  BY <1>1, RequestsStaySound
<1>3. TypeOK'
  BY <1>2 DEF IInv, TypeOK
<1>4. OneProfileEach' /\ FreshIds' /\ EventsSound'
  BY DEF IInv, OneProfileEach, FreshIds, EventsSound
<1>5. ASSUME NEW i \in Ids \ survivors', users[i] # NoProfile,
             clerk[users[i].account] = Gone
      PROVE  \/ Deleted(users[i].account) \in events' \cup lost'
             \/ \E v \in Workers : Leaving(req'[v], i)
  <2>1. \/ Deleted(users[i].account) \in events \cup lost
        \/ \E v \in Workers : Leaving(req[v], i)
    BY <1>5 DEF IInv, Outlives
  <2>2. req' = [req EXCEPT ![w] = q] /\ req \in [Workers -> Request]
    BY DEF Advance, IInv, TypeOK
  <2>3. CASE Deleted(users[i].account) \in events \cup lost
    BY <1>5, <2>2, <2>3
  <2>4. ASSUME NEW v \in Workers, Leaving(req[v], i)
        PROVE  \/ Deleted(users[i].account) \in events' \cup lost'
               \/ \E x \in Workers : Leaving(req'[x], i)
    <3>1. CASE v = w
      BY <1>5, <2>2, <2>4, <3>1
    <3>2. CASE v # w
      BY <2>2, <2>4, <3>2
    <3>3. QED
      BY <3>1, <3>2
  <2>5. QED
    BY <2>1, <2>3, <2>4
<1>6. Outlives'
  BY <1>5 DEF Outlives
<1>7. QED
  BY <1>2, <1>3, <1>4, <1>6 DEF IInv

----------------------------------------------------------------------------
(* The steps of a request that write no profile *)

(* Acknowledging a request takes away its own event at most. *)
LEMMA AcknowledgeTakesOne ==
  ASSUME IInv, NEW q, Acknowledge(q)
  PROVE  events' \subseteq events /\ events \subseteq events' \cup {EventOf(q)} /\ acts' \in 0..MaxActs
  BY ProfilesAssumption DEF Acknowledge, Act, IInv, TypeOK

(* A request that ends without a write keeps the invariant, unless a row   *)
(* that outlives its account waits for it or for its event.                *)
LEMMA AnswerKeepsIInv ==
  ASSUME IInv, NEW w \in Workers, NEW q \in Request, Answer(w, q) \/ Refuse(w), Untouched,
         \A i \in Ids \ survivors :
           users[i] # NoProfile => Deleted(users[i].account) # EventOf(q) /\ ~Leaving(req[w], i)
  PROVE  IInv'
<1>1. Idle \in Request /\ Sound(Idle, clerk, users, next) /\ \A i : ~Leaving(Idle, i)
  BY IdleSound
<1>2. /\ Advance(w, Idle) /\ acts' \in 0..MaxActs
      /\ events' \subseteq events /\ events \subseteq events' \cup {EventOf(q)}
  <2>1. CASE Answer(w, q)
    BY <2>1, AcknowledgeTakesOne DEF Answer
  <2>2. CASE Refuse(w)
    BY <2>2 DEF Refuse, IInv, TypeOK
  <2>3. QED
    BY <2>1, <2>2
<1>3. /\ UNCHANGED <<clerk, users, next, lost, survivors>>
      /\ lost' \subseteq Event /\ survivors' \subseteq Ids
  BY DEF Untouched, IInv, TypeOK
<1>4. QED
  BY <1>1, <1>2, <1>3, QuietKeepsIInv

(* The first SELECT of a request that has not looked at the table yet. *)
LEMMA SelectAccountKeepsIInv ==
  ASSUME IInv, NEW w \in Workers, NEW q \in Request, SelectAccount(w, q),
         q.account \in Accounts, q.id = None, q.op \in Webhooks \cup {"sync"},
         IF q.op = "deleted" THEN q.email = None /\ clerk[q.account] = Gone
                             ELSE q.email \in Emails,
         q.role # None => q.op = "sync",
         \A i \in Ids : ~Leaving(req[w], i)
  PROVE  IInv'
<1>1. CASE \E i \in ProfilesOf(q.account) :
             /\ Advance(w, IF q.op = "deleted"
                           THEN [q EXCEPT !.stage = "found", !.id = i]
                           ELSE [q EXCEPT !.stage = "loaded", !.id = i,
                                          !.email_was = users[i].email, !.role_was = users[i].role])
             /\ Reads
  <2>1. PICK i \in Ids :
          /\ users[i].account = q.account
          /\ Advance(w, IF q.op = "deleted"
                        THEN [q EXCEPT !.stage = "found", !.id = i]
                        ELSE [q EXCEPT !.stage = "loaded", !.id = i,
                                       !.email_was = users[i].email, !.role_was = users[i].role])
    BY <1>1 DEF ProfilesOf
  <2>2. users[i] \in Profile /\ i < next
    <3>1. users[i] # NoProfile
      BY <2>1, ProfilesAssumption DEF NoProfile
    <3>2. users[i] \in Profile /\ ~(i >= next)
      BY <3>1 DEF IInv, TypeOK, FreshIds
    <3>3. QED
      BY <3>2, ProfilesAssumption DEF IInv, TypeOK, Ids
  <2>3. i # None
    BY ProfilesAssumption
  <2>4. PICK p \in Request :
          /\ Advance(w, p)
          /\ p.stage = IF q.op = "deleted" THEN "found" ELSE "loaded"
          /\ p.op = q.op /\ p.account = q.account /\ p.email = q.email
          /\ p.role = q.role /\ p.id = i
    <3>1. CASE q.op = "deleted"
      <4> DEFINE p == [q EXCEPT !.stage = "found", !.id = i]
      <4>1. "found" \in Stages
        BY DEF Stages
      <4>2. /\ p \in Request /\ p.stage = "found" /\ p.op = q.op /\ p.account = q.account
            /\ p.email = q.email /\ p.role = q.role /\ p.id = i
        BY <4>1 DEF Request
      <4>3. Advance(w, p)
        BY <2>1, <3>1
      <4> HIDE DEF p
      <4>4. QED
        BY <3>1, <4>2, <4>3
    <3>2. CASE q.op # "deleted"
      <4> DEFINE p == [q EXCEPT !.stage = "loaded", !.id = i,
                                !.email_was = users[i].email, !.role_was = users[i].role]
      <4>1. /\ "loaded" \in Stages /\ users[i].email \in Emails
            /\ users[i].role \in StoredRoles
        BY <2>2 DEF Stages, Profile
      <4>2. /\ p \in Request /\ p.stage = "loaded" /\ p.op = q.op /\ p.account = q.account
            /\ p.email = q.email /\ p.role = q.role /\ p.id = i
        BY <4>1 DEF Request
      <4>3. Advance(w, p)
        BY <2>1, <3>2
      <4> HIDE DEF p
      <4>4. QED
        BY <3>2, <4>2, <4>3
    <3>3. QED
      BY <3>1, <3>2
  <2>5. Sound(p, clerk, users, next)
    BY <2>1, <2>2, <2>3, <2>4 DEF Sound, Webhooks
  <2>6. UNCHANGED <<clerk, users, next, events, lost, acts, survivors>>
    BY <1>1 DEF Reads
  <2>7. /\ lost' \subseteq Event /\ acts' \in 0..MaxActs /\ survivors' \subseteq Ids
    BY <2>6 DEF IInv, TypeOK
  <2>8. QED
    BY <2>4, <2>5, <2>6, <2>7, QuietKeepsIInv
<1>2. CASE /\ q.op \in {"sync", "created"}
           /\ Advance(w, [q EXCEPT !.stage = "missing"]) /\ Reads
  <2> DEFINE p == [q EXCEPT !.stage = "missing"]
  <2>1. /\ p \in Request /\ p.stage = "missing" /\ p.op = q.op /\ p.account = q.account
        /\ p.email = q.email /\ p.role = q.role /\ p.id = None
    BY DEF Request, Stages
  <2>2. Advance(w, p)
    BY <1>2
  <2> HIDE DEF p
  <2>3. Sound(p, clerk, users, next)
    BY <1>2, <2>1 DEF Sound
  <2>4. UNCHANGED <<clerk, users, next, events, lost, acts, survivors>>
    BY <1>2 DEF Reads
  <2>5. /\ lost' \subseteq Event /\ acts' \in 0..MaxActs /\ survivors' \subseteq Ids
    BY <2>4 DEF IInv, TypeOK
  <2>6. QED
    BY <2>1, <2>2, <2>3, <2>4, <2>5, QuietKeepsIInv
<1>3. CASE /\ ProfilesOf(q.account) = {} /\ Answer(w, q) /\ Untouched
  <2>1. \A i \in Ids : Deleted(users[i].account) # EventOf(q)
    BY <1>3 DEF ProfilesOf, Deleted, EventOf
  <2>2. QED
    BY <1>3, <2>1, AnswerKeepsIInv
<1>4. QED
  BY <1>1, <1>2, <1>3 DEF SelectAccount

(* What the account's request and event agree on. *)
LEMMA EventsName ==
  ASSUME NEW q, NEW a, EventOf(q) = Deleted(a)
  PROVE  q.op = "deleted" /\ q.account = a
  BY DEF EventOf, Deleted

LEMMA FetchAccountKeepsIInv ==
  ASSUME IInv, NEW w \in Workers, NEW a \in Accounts, NEW wish \in Wishes,
         FetchAccount(w, a, wish)
  PROVE  IInv'
<1> DEFINE p == [Idle EXCEPT !.stage = "fetched", !.op = "sync", !.account = a,
                             !.email = clerk[a], !.role = wish]
<1>1. /\ req[w] = Idle /\ clerk[a] \in Emails /\ Act /\ Advance(w, p)
      /\ UNCHANGED <<clerk, users, next, events, lost, survivors>>
  BY DEF FetchAccount
<1>2. /\ p \in Request /\ p.stage = "fetched" /\ p.op = "sync" /\ p.account = a
      /\ p.email \in Emails /\ p.id = None
  BY <1>1, ProfilesAssumption DEF Idle, Request, Stages
<1> HIDE DEF p
<1>3. Sound(p, clerk, users, next)
  BY <1>2 DEF Sound
<1>4. \A i : ~Leaving(req[w], i)
  BY <1>1, IdleSound
<1>5. lost' \subseteq Event /\ acts' \in 0..MaxActs /\ survivors' \subseteq Ids
  BY <1>1, ProfilesAssumption DEF IInv, TypeOK, Act
<1>6. QED
  BY <1>1, <1>2, <1>3, <1>4, <1>5, QuietKeepsIInv

LEMMA DeliverKeepsIInv ==
  ASSUME IInv, NEW w \in Workers, NEW e \in events, Deliver(w, e)
  PROVE  IInv'
<1> DEFINE p == [Idle EXCEPT !.op = e.type, !.account = e.account, !.email = e.email]
<1>1. req[w] = Idle /\ SelectAccount(w, p)
  BY DEF Deliver
<1>2. e \in Event /\ IF e.type = "deleted" THEN e.email = None /\ clerk[e.account] = Gone
                     ELSE e.email \in Emails
  BY DEF IInv, TypeOK, EventsSound
<1>3. /\ p \in Request /\ p.account = e.account /\ p.id = None /\ p.op = e.type
      /\ p.email = e.email /\ p.role = None
  BY <1>2 DEF Idle, Request, Stages, Event
<1> HIDE DEF p
<1>4. p.account \in Accounts /\ p.op \in Webhooks
  BY <1>2, <1>3 DEF Event
<1>5. IF p.op = "deleted" THEN p.email = None /\ clerk[p.account] = Gone ELSE p.email \in Emails
  BY <1>2, <1>3
<1>6. \A i \in Ids : ~Leaving(req[w], i)
  BY <1>1, IdleSound
<1>7. QED
  BY <1>1, <1>3, <1>4, <1>5, <1>6, SelectAccountKeepsIInv

LEMMA SyncUserKeepsIInv ==
  ASSUME IInv, NEW w \in Workers, SyncUser(w)
  PROVE  IInv'
<1>1. req[w].stage = "fetched" /\ SelectAccount(w, req[w])
  BY DEF SyncUser
<1>2. req[w] \in Request /\ Sound(req[w], clerk, users, next)
  BY DEF IInv, TypeOK, RequestsSound
<1>3. /\ req[w].account \in Accounts /\ req[w].email \in Emails /\ req[w].id = None
      /\ req[w].op \in {"sync", "created"} /\ (req[w].role # None => req[w].op = "sync")
  BY <1>1, <1>2 DEF Sound
<1>4. \A i \in Ids : ~Leaving(req[w], i)
  BY <1>3 DEF Leaving
<1>5. QED
  BY <1>1, <1>2, <1>3, <1>4, SelectAccountKeepsIInv DEF Webhooks

LEMMA SelectEmailKeepsIInv ==
  ASSUME IInv, NEW w \in Workers, SelectEmail(w)
  PROVE  IInv'
<1> DEFINE q == req[w]
           p == [q EXCEPT !.stage = "loaded"]
<1>1. q \in Request /\ Sound(q, clerk, users, next) /\ q.stage = "missing"
  BY DEF SelectEmail, IInv, TypeOK, RequestsSound
<1>2. /\ q.account \in Accounts /\ q.email \in Emails /\ q.id = None
      /\ q.op \in {"sync", "created"} /\ (q.role # None => q.op = "sync")
  BY <1>1 DEF Sound
<1>3. \A i \in Ids : ~Leaving(q, i) /\ Deleted(users[i].account) # EventOf(q)
  BY <1>2, EventsName DEF Leaving
<1>4. /\ p \in Request /\ p.stage = "loaded" /\ p.account = q.account /\ p.email = q.email
      /\ p.op = q.op /\ p.id = None /\ p.role = q.role
  BY <1>1, <1>2 DEF Request, Stages
<1>5. \/ (Answer(w, q) \/ Refuse(w)) /\ Untouched
      \/ Advance(w, p) /\ Reads
  BY DEF SelectEmail
<1> HIDE DEF p, q
<1>6. Sound(p, clerk, users, next)
  BY <1>2, <1>4 DEF Sound
<1>7. CASE (Answer(w, q) \/ Refuse(w)) /\ Untouched
  BY <1>1, <1>3, <1>7, AnswerKeepsIInv DEF q
<1>8. CASE Advance(w, p) /\ Reads
  <2>1. UNCHANGED <<clerk, users, next, events, lost, acts, survivors>>
    BY <1>8 DEF Reads
  <2>2. /\ lost' \subseteq Event /\ acts' \in 0..MaxActs /\ survivors' \subseteq Ids
    BY <2>1 DEF IInv, TypeOK
  <2>3. QED
    BY <1>3, <1>4, <1>6, <1>8, <2>1, <2>2, QuietKeepsIInv DEF q
<1>9. QED
  BY <1>5, <1>7, <1>8

(* Answering user.deleted passes the cause on, from the event to a worker. *)
LEMMA SelectUserKeepsIInv ==
  ASSUME IInv, NEW w \in Workers, SelectUser(w)
  PROVE  IInv'
<1> DEFINE q == req[w]
           p == [q EXCEPT !.stage = "answered"]
<1>1. q \in Request /\ Sound(q, clerk, users, next) /\ q.stage = "found"
  BY DEF SelectUser, IInv, TypeOK, RequestsSound
<1>2. /\ q.account \in Accounts /\ q.op \in {"deleted", "remove"} /\ q.role = None
      /\ q.id \in Ids /\ q.id < next /\ q.id # None
      /\ users[q.id] # NoProfile => users[q.id].account = q.account
      /\ q.op = "deleted" => q.email = None /\ clerk[q.account] = Gone
  BY <1>1 DEF Sound
<1>3. /\ p \in Request /\ p.stage = "answered" /\ p.account = q.account /\ p.email = q.email
      /\ p.op = q.op /\ p.id = q.id /\ p.role = q.role
  BY <1>1 DEF Request, Stages
<1>4. /\ IF users[q.id] # NoProfile THEN Advance(w, p) /\ Acknowledge(q) ELSE Refuse(w)
      /\ Untouched
  BY DEF SelectUser
<1>5. UNCHANGED <<clerk, users, next, lost, survivors>>
  BY <1>4 DEF Untouched
<1> HIDE DEF p, q
<1>6. Sound(p, clerk, users, next)
  BY <1>2, <1>3 DEF Sound
<1>7. CASE users[q.id] # NoProfile
  <2>1. Advance(w, p) /\ Acknowledge(q)
    BY <1>4, <1>7
  <2>2. events' \subseteq events /\ events \subseteq events' \cup {EventOf(q)} /\ acts' \in 0..MaxActs
    BY <2>1, AcknowledgeTakesOne
  <2>3. lost' \subseteq Event /\ survivors' \subseteq Ids
    BY <1>5 DEF IInv, TypeOK
  <2>4. ASSUME NEW i \in Ids \ survivors', users[i] # NoProfile,
               Deleted(users[i].account) \in events
        PROVE  Deleted(users[i].account) \in events' \cup lost' \/ Leaving(p, i)
    <3>1. CASE Deleted(users[i].account) = EventOf(q)
      <4>1. q.op = "deleted" /\ q.account = users[i].account
        BY <3>1, EventsName
      <4>2. i = q.id
        BY <1>2, <1>7, <2>4, <4>1 DEF IInv, OneProfileEach
      <4>3. QED
        BY <1>3, <4>1, <4>2 DEF Leaving
    <3>2. CASE Deleted(users[i].account) # EventOf(q)
      BY <2>2, <2>4, <3>2
    <3>3. QED
      BY <3>1, <3>2
  <2>5. \A i \in Ids : ~Leaving(req[w], i)
    BY <1>1 DEF Leaving, q
  <2>6. QED
    BY <1>3, <1>5, <1>6, <2>1, <2>2, <2>3, <2>4, <2>5, QuietKeepsIInv
<1>8. CASE users[q.id] = NoProfile
  <2>1. Refuse(w)
    BY <1>4, <1>8
  <2>2. /\ Idle \in Request /\ Sound(Idle, clerk, users, next) /\ Advance(w, Idle)
        /\ UNCHANGED <<events, acts>>
    BY <2>1, IdleSound DEF Refuse
  <2>3. lost' \subseteq Event /\ survivors' \subseteq Ids /\ acts' \in 0..MaxActs
    BY <1>5, <2>2 DEF IInv, TypeOK
  <2>4. \A i \in Ids : ~Leaving(req[w], i)
    BY <1>1 DEF Leaving, q
  <2>5. QED
    BY <1>5, <2>2, <2>3, <2>4, QuietKeepsIInv
<1>9. QED
  BY <1>7, <1>8

LEMMA RemoveKeepsIInv ==
  ASSUME IInv, NEW w \in Workers, NEW c \in Ids, NEW i \in Ids, Remove(w, c, i)
  PROVE  IInv'
<1> DEFINE p == [Idle EXCEPT !.stage = "loaded", !.op = "remove", !.id = i,
                             !.account = users[i].account]
<1>1. /\ req[w] = Idle /\ users[i] # NoProfile /\ Act /\ Advance(w, p)
      /\ UNCHANGED <<clerk, users, next, events, lost, survivors>>
  BY DEF Remove
<1>2. users[i].account \in Accounts /\ i < next /\ i # None
  <2>1. users[i] \in Profile /\ ~(i >= next)
    BY <1>1 DEF IInv, TypeOK, FreshIds
  <2>2. QED
    BY <2>1, ProfilesAssumption DEF IInv, TypeOK, Ids, Profile
<1>3. /\ p \in Request /\ p.stage = "loaded" /\ p.op = "remove" /\ p.id = i
      /\ p.account = users[i].account /\ p.role = None
  BY <1>2 DEF Idle, Request, Stages
<1> HIDE DEF p
<1>4. Sound(p, clerk, users, next)
  BY <1>2, <1>3 DEF Sound
<1>5. \A x : ~Leaving(req[w], x)
  BY <1>1, IdleSound
<1>6. lost' \subseteq Event /\ acts' \in 0..MaxActs /\ survivors' \subseteq Ids
  BY <1>1, ProfilesAssumption DEF IInv, TypeOK, Act
<1>7. QED
  BY <1>1, <1>3, <1>4, <1>5, <1>6, QuietKeepsIInv

(* What an answered request knows of the row it is about to delete. *)
LEMMA AnsweredKnows ==
  ASSUME IInv, NEW w \in Workers, req[w].stage \in {"answered", "bare"}
  PROVE  /\ req[w] \in Request /\ req[w].account \in Accounts /\ req[w].role = None
         /\ req[w].op \in {"deleted", "remove"}
         /\ req[w].id \in Ids /\ req[w].id < next /\ req[w].id # None
         /\ users[req[w].id] # NoProfile => users[req[w].id].account = req[w].account
         /\ req[w].op = "deleted" => req[w].email = None /\ clerk[req[w].account] = Gone
<1>1. req[w] \in Request /\ Sound(req[w], clerk, users, next)
  BY DEF IInv, TypeOK, RequestsSound
<1>2. QED
  BY <1>1 DEF Sound

LEMMA SelectDependantsKeepsIInv ==
  ASSUME IInv, NEW w \in Workers, SelectDependants(w)
  PROVE  IInv'
<1> DEFINE q == req[w]
           p == [q EXCEPT !.stage = "bare"]
<1>1. /\ q.stage = "answered"
      /\ \/ /\ Advance(w, Idle)
            /\ survivors' = survivors \cup {i \in {q.id} : q.op = "deleted"}
         \/ Advance(w, p) /\ UNCHANGED survivors
      /\ UNCHANGED <<clerk, users, next, events, lost, acts>>
  BY DEF SelectDependants
<1>2. /\ q \in Request /\ q.account \in Accounts /\ q.role = None
      /\ q.op \in {"deleted", "remove"}
      /\ q.id \in Ids /\ q.id < next /\ q.id # None
      /\ users[q.id] # NoProfile => users[q.id].account = q.account
      /\ q.op = "deleted" => q.email = None /\ clerk[q.account] = Gone
  BY <1>1, AnsweredKnows
<1>3. /\ p \in Request /\ p.stage = "bare" /\ p.op = q.op /\ p.id = q.id
      /\ p.account = q.account /\ p.email = q.email /\ p.role = None
  BY <1>2 DEF Request, Stages
<1> HIDE DEF p, q
<1>4. lost' \subseteq Event /\ acts' \in 0..MaxActs
  BY <1>1 DEF IInv, TypeOK
<1>5. CASE Advance(w, Idle) /\ survivors' = survivors \cup {i \in {q.id} : q.op = "deleted"}
  <2>1. Idle \in Request /\ Sound(Idle, clerk, users, next)
    BY IdleSound
  <2>2. survivors \subseteq survivors' /\ survivors' \subseteq Ids
    BY <1>2, <1>5 DEF IInv, TypeOK
  <2>3. \A i \in Ids \ survivors' : ~Leaving(req[w], i)
    BY <1>5 DEF Leaving, q
  <2>4. QED
    BY <1>1, <1>4, <1>5, <2>1, <2>2, <2>3, QuietKeepsIInv
<1>6. CASE Advance(w, p) /\ UNCHANGED survivors
  <2>1. Sound(p, clerk, users, next)
    BY <1>2, <1>3 DEF Sound
  <2>2. survivors' \subseteq Ids
    BY <1>6 DEF IInv, TypeOK
  <2>3. \A i \in Ids : Leaving(req[w], i) => Leaving(p, i)
    BY <1>1, <1>3 DEF Leaving, q
  <2>4. QED
    BY <1>1, <1>3, <1>4, <1>6, <2>1, <2>2, <2>3, QuietKeepsIInv
<1>7. QED
  BY <1>1, <1>5, <1>6

(* A request that stops after answering user.deleted leaves it in `lost`. *)
LEMMA StopKeepsIInv ==
  ASSUME IInv, NEW w \in Workers, Stop(w)
  PROVE  IInv'
<1> DEFINE q == req[w]
<1>1. /\ Act /\ Advance(w, Idle) /\ UNCHANGED <<clerk, users, next, survivors>>
      /\ \/ /\ lost' = lost \cup (IF q.stage \in {"answered", "bare"} /\ q.op = "deleted"
                                  THEN {EventOf(q)} ELSE {})
            /\ UNCHANGED events
         \/ /\ q.stage = "loaded" /\ q.op \in {"created", "updated"}
            /\ lost' = lost \cup {EventOf(q)}
            /\ events' = events \ {EventOf(q)}
  BY DEF Stop
<1>2. Idle \in Request /\ Sound(Idle, clerk, users, next)
  BY IdleSound
<1>3. acts' \in 0..MaxActs /\ survivors' \subseteq Ids /\ lost \subseteq Event
  BY <1>1, ProfilesAssumption DEF IInv, TypeOK, Act
<1>4. q \in Request /\ Sound(q, clerk, users, next)
  BY DEF IInv, TypeOK, RequestsSound
<1>5. CASE /\ lost' = lost \cup (IF q.stage \in {"answered", "bare"} /\ q.op = "deleted"
                                 THEN {EventOf(q)} ELSE {})
           /\ UNCHANGED events
  <2>1. CASE q.stage \in {"answered", "bare"} /\ q.op = "deleted"
    <3>1. /\ q.account \in Accounts /\ q.email = None
          /\ \A i \in Ids : Leaving(q, i) /\ users[i] # NoProfile => users[i].account = q.account
      BY <2>1, AnsweredKnows DEF Leaving
    <3>2. EventOf(q) = Deleted(q.account) /\ EventOf(q) \in Event
      BY <2>1, <3>1 DEF EventOf, Deleted, Event, Webhooks
    <3>3. lost' = lost \cup {EventOf(q)}
      BY <1>5, <2>1
    <3>4. \A i \in Ids : Leaving(q, i) /\ users[i] # NoProfile
                           => Deleted(users[i].account) \in lost'
      BY <3>1, <3>2, <3>3
    <3>5. lost \subseteq lost' /\ lost' \subseteq Event
      BY <1>3, <3>2, <3>3
    <3>6. QED
      BY <1>1, <1>2, <1>3, <1>5, <3>4, <3>5, QuietKeepsIInv
  <2>2. CASE ~(q.stage \in {"answered", "bare"} /\ q.op = "deleted")
    <3>1. lost' = lost
      BY <1>5, <2>2
    <3>2. \A i \in Ids : ~Leaving(q, i)
      BY <2>2 DEF Leaving
    <3>3. QED
      BY <1>1, <1>2, <1>3, <1>5, <3>1, <3>2, QuietKeepsIInv
  <2>3. QED
    BY <2>1, <2>2
<1>6. CASE /\ q.stage = "loaded" /\ q.op \in {"created", "updated"}
           /\ lost' = lost \cup {EventOf(q)}
           /\ events' = events \ {EventOf(q)}
  <2>1. q.account \in Accounts /\ q.email \in Emails
    BY <1>4, <1>6 DEF Sound
  <2>2. EventOf(q) \in Event
    BY <1>6, <2>1 DEF EventOf, Event, Webhooks
  <2>3. \A i \in Ids : ~Leaving(q, i) /\ Deleted(users[i].account) # EventOf(q)
    BY <1>6, EventsName DEF Leaving
  <2>4. /\ events' \subseteq events /\ lost \subseteq lost' /\ lost' \subseteq Event
        /\ \A e \in events : e # EventOf(q) => e \in events'
    BY <1>3, <1>6, <2>2
  <2> HIDE DEF q
  <2>5. \A i \in Ids : ~Leaving(req[w], i)
    BY <2>3 DEF q
  <2>6. \A i \in Ids : Deleted(users[i].account) \in events => Deleted(users[i].account) \in events'
    BY <2>3, <2>4
  <2>7. QED
    BY <1>1, <1>2, <1>3, <2>4, <2>5, <2>6, QuietKeepsIInv
<1>7. QED
  BY <1>1, <1>5, <1>6

----------------------------------------------------------------------------
(* The steps that write a profile *)

LEMMA InsertKeepsIInv ==
  ASSUME IInv, NEW w \in Workers, Insert(w)
  PROVE  IInv'
<1> DEFINE q == req[w]
           p == [account |-> q.account, email |-> q.email, held |-> FALSE,
                 role |-> IF q.role \in ValidRoles THEN q.role ELSE "TENANT"]
<1>1. q.stage = "loaded" /\ q.op \in {"sync", "created"} /\ q.id = None
  BY DEF Insert
<1>2. q \in Request /\ Sound(q, clerk, users, next)
  BY DEF IInv, TypeOK, RequestsSound
<1>3. q.account \in Accounts /\ q.email \in Emails
  BY <1>1, <1>2 DEF Sound
<1>4. \A i \in Ids : ~Leaving(q, i) /\ Deleted(users[i].account) # EventOf(q)
  BY <1>1, EventsName DEF Leaving
<1>5. p \in Profile
  BY <1>3 DEF Profile, StoredRoles, ValidRoles
<1>6. CASE next \in Ids /\ Fits(next, p)
  <2>1. /\ users' = [users EXCEPT ![next] = p]
        /\ next' = next + 1
        /\ survivors' = survivors \cup {i \in {next} : clerk[q.account] = Gone}
        /\ Answer(w, q) \/ Refuse(w)
        /\ UNCHANGED <<clerk, lost>>
    BY <1>6 DEF Insert
  <2>2. /\ Advance(w, Idle) /\ acts' \in 0..MaxActs
        /\ events' \subseteq events /\ events \subseteq events' \cup {EventOf(q)}
    <3>1. CASE Answer(w, q)
      BY <3>1, AcknowledgeTakesOne DEF Answer
    <3>2. CASE Refuse(w)
      BY <3>2 DEF Refuse, IInv, TypeOK
    <3>3. QED
      BY <2>1, <3>1, <3>2
  <2>3. p.account = q.account /\ p.email = q.email
    OBVIOUS
  <2> HIDE DEF p, q
  <2>4. /\ users \in [Ids -> Profile \cup {NoProfile}] /\ next \in Nat /\ MaxIds \in Nat
        /\ users' \in [Ids -> Profile \cup {NoProfile}] /\ users'[next] = p
        /\ \A i \in Ids : i # next => users'[i] = users[i]
    BY <1>5, <1>6, <2>1, ProfilesAssumption DEF IInv, TypeOK
  <2>5. Grows
    <3>1. \A i \in Ids : i < next /\ users'[i] # NoProfile
                           => users[i] # NoProfile /\ users'[i].account = users[i].account
      BY <2>4 DEF Ids
    <3>2. next <= next' /\ next' \in Nat
      BY <2>1, <2>4
    <3>3. QED
      BY <2>1, <3>1, <3>2 DEF Grows
  <2>6. req' \in [Workers -> Request] /\ RequestsSound'
    BY <2>2, <2>5, IdleSound, RequestsStaySound
  <2>7. TypeOK'
    <3>1. next' \in 1..(MaxIds + 1)
      BY <1>6, <2>1, <2>4 DEF Ids
    <3>2. survivors' \subseteq Ids /\ lost' \subseteq Event /\ events' \subseteq Event
      BY <1>6, <2>1, <2>2 DEF IInv, TypeOK
    <3>3. QED
      BY <2>1, <2>2, <2>4, <2>6, <3>1, <3>2 DEF IInv, TypeOK
  <2>8. OneProfileEach'
    <3>1. ASSUME NEW i \in Ids, NEW j \in Ids, i # j, users'[i] # NoProfile
          PROVE  users'[i].account # users'[j].account /\ users'[i].email # users'[j].email
      BY <1>6, <2>4, <3>1 DEF Fits, IInv, OneProfileEach
    <3>2. QED
      BY <3>1 DEF OneProfileEach
  <2>9. EventsSound' /\ FreshIds'
    <3>1. EventsSound'
      BY <2>1, <2>2 DEF IInv, EventsSound
    <3>2. ASSUME NEW i \in Ids, i >= next'
          PROVE  users'[i] = NoProfile
      <4>1. i # next /\ i >= next
        BY <2>1, <2>4, <3>2 DEF Ids
      <4>2. QED
        BY <2>4, <4>1 DEF IInv, FreshIds
    <3>3. QED
      BY <3>1, <3>2 DEF FreshIds
  <2>10. ASSUME NEW i \in Ids \ survivors', users'[i] # NoProfile,
                clerk'[users'[i].account] = Gone
         PROVE  \/ Deleted(users'[i].account) \in events' \cup lost'
                \/ \E v \in Workers : Leaving(req'[v], i)
    <3>1. i # next
      BY <2>1, <2>3, <2>4, <2>10
    <3>2. users'[i] = users[i] /\ i \in Ids \ survivors
      BY <2>1, <2>4, <3>1
    <3>3. \/ Deleted(users[i].account) \in events \cup lost
          \/ \E v \in Workers : Leaving(req[v], i)
      BY <2>1, <2>10, <3>2 DEF IInv, Outlives
    <3>4. Deleted(users[i].account) \in events \cup lost => Deleted(users[i].account) \in events' \cup lost'
      BY <1>4, <2>1, <2>2
    <3>5. ASSUME NEW v \in Workers, Leaving(req[v], i)
          PROVE  Leaving(req'[v], i)
      BY <1>4, <2>2, <3>5 DEF Advance, IInv, TypeOK, q
    <3>6. QED
      BY <3>2, <3>3, <3>4, <3>5
  <2>11. QED
    BY <2>6, <2>7, <2>8, <2>9, <2>10 DEF IInv, Outlives
<1>7. CASE ~(next \in Ids /\ Fits(next, p))
  <2>1. Refuse(w) /\ Untouched
    BY <1>7 DEF Insert
  <2>2. QED
    BY <1>2, <1>4, <2>1, AnswerKeepsIInv
<1>8. QED
  BY <1>6, <1>7

(* A row rewritten for an account stays that account's. *)
LEMMA RewrittenStays ==
  ASSUME NEW q \in Request, NEW row \in Profile, q.email \in Emails
  PROVE  /\ Rewritten(q, row) \in Profile
         /\ Rewritten(q, row).account = row.account
         /\ Rewritten(q, row).held = row.held
  BY DEF Rewritten, Profile, StoredRoles

(* Writes to rows that are there already, which move neither clerk nor an  *)
(* account: a rewritten profile, a first or last listing.                  *)
LEMMA RewriteKeepsIInv ==
  ASSUME IInv, NEW i \in Ids, NEW new \in Profile, users[i] # NoProfile,
         new.account = users[i].account, Fits(i, new),
         users' = [users EXCEPT ![i] = new],
         UNCHANGED <<clerk, next, lost, survivors>>, acts' \in 0..MaxActs,
         req' \in [Workers -> Request],
         \A w \in Workers : req'[w] = req[w] \/ (req'[w] = Idle /\ \A j \in Ids : ~Leaving(req[w], j)),
         events' \subseteq events,
         \A j \in Ids : Deleted(users[j].account) \in events => Deleted(users[j].account) \in events'
  PROVE  IInv'
<1>1. /\ users \in [Ids -> Profile \cup {NoProfile}] /\ next \in Nat
      /\ users' \in [Ids -> Profile \cup {NoProfile}] /\ users'[i] = new
      /\ \A j \in Ids : j # i => users'[j] = users[j]
  BY ProfilesAssumption DEF IInv, TypeOK
<1>2. \A j \in Ids : /\ users'[j] # NoProfile => users[j] # NoProfile
                     /\ users'[j].account = users[j].account
  BY <1>1
<1>3. Grows
  BY <1>1, <1>2 DEF Grows
<1>4. RequestsSound'
  <2>1. ASSUME NEW w \in Workers
        PROVE  Sound(req'[w], clerk', users', next')
    BY <1>3, OthersStaySound, IdleSound
  <2>2. QED
    BY <2>1 DEF RequestsSound
<1>5. TypeOK'
  BY <1>1 DEF IInv, TypeOK
<1>6. OneProfileEach'
  <2>1. ASSUME NEW j \in Ids, NEW k \in Ids, j # k, users'[j] # NoProfile
        PROVE  users'[j].account # users'[k].account /\ users'[j].email # users'[k].email
    <3>1. CASE j = i
      BY <1>1, <2>1, <3>1 DEF Fits
    <3>2. CASE k = i
      BY <1>1, <2>1, <3>2 DEF Fits
    <3>3. CASE j # i /\ k # i
      BY <1>1, <2>1, <3>3 DEF IInv, OneProfileEach
    <3>4. QED
      BY <3>1, <3>2, <3>3
  <2>2. QED
    BY <2>1 DEF OneProfileEach
<1>7. EventsSound' /\ FreshIds'
  BY <1>1, <1>2 DEF IInv, EventsSound, FreshIds
<1>8. ASSUME NEW j \in Ids \ survivors', users'[j] # NoProfile, clerk'[users'[j].account] = Gone
      PROVE  \/ Deleted(users'[j].account) \in events' \cup lost'
             \/ \E v \in Workers : Leaving(req'[v], j)
  <2>1. \/ Deleted(users[j].account) \in events \cup lost
        \/ \E v \in Workers : Leaving(req[v], j)
    BY <1>2, <1>8 DEF IInv, Outlives
  <2>2. \A v \in Workers : Leaving(req[v], j) => Leaving(req'[v], j)
    OBVIOUS
  <2>3. QED
    BY <1>2, <2>1, <2>2
<1>9. QED
  BY <1>4, <1>5, <1>6, <1>7, <1>8 DEF IInv, Outlives

LEMMA UpdateKeepsIInv ==
  ASSUME IInv, NEW w \in Workers, Update(w)
  PROVE  IInv'
<1> DEFINE q   == req[w]
           row == users[q.id]
           new == Rewritten(q, row)
<1>1. /\ q.stage = "loaded" /\ q.op \in {"sync", "created", "updated"} /\ q.id # None
      /\ \/ /\ row # NoProfile /\ Fits(q.id, new)
            /\ users' = [users EXCEPT ![q.id] = new]
            /\ Answer(w, q) \/ Refuse(w)
            /\ UNCHANGED <<clerk, next, lost, survivors>>
         \/ (Answer(w, q) \/ Refuse(w)) /\ Untouched
  BY DEF Update
<1>2. q \in Request /\ Sound(q, clerk, users, next)
  BY DEF IInv, TypeOK, RequestsSound
<1>3. q.email \in Emails /\ q.id \in Ids /\ (row # NoProfile => row \in Profile)
  BY <1>1, <1>2 DEF Sound, IInv, TypeOK
<1>4. \A i \in Ids : ~Leaving(q, i) /\ Deleted(users[i].account) # EventOf(q)
  BY <1>1, EventsName DEF Leaving
<1>5. row # NoProfile => new \in Profile /\ new.account = row.account
  BY <1>2, <1>3, RewrittenStays
<1> HIDE DEF new
<1>6. CASE /\ row # NoProfile /\ Fits(q.id, new)
           /\ users' = [users EXCEPT ![q.id] = new]
           /\ Answer(w, q) \/ Refuse(w)
           /\ UNCHANGED <<clerk, next, lost, survivors>>
  <2>1. /\ Advance(w, Idle) /\ acts' \in 0..MaxActs
        /\ events' \subseteq events /\ events \subseteq events' \cup {EventOf(q)}
    <3>1. CASE Answer(w, q)
      BY <3>1, AcknowledgeTakesOne DEF Answer
    <3>2. CASE Refuse(w)
      BY <3>2 DEF Refuse, IInv, TypeOK
    <3>3. QED
      BY <1>6, <3>1, <3>2
  <2>2. /\ req' \in [Workers -> Request]
        /\ \A v \in Workers : req'[v] = req[v] \/ (req'[v] = Idle /\ \A j \in Ids : ~Leaving(req[v], j))
    <3>1. req' = [req EXCEPT ![w] = Idle] /\ req \in [Workers -> Request]
      BY <2>1 DEF Advance, IInv, TypeOK
    <3>2. \A v \in Workers : IF v = w THEN req'[v] = Idle ELSE req'[v] = req[v]
      BY <3>1
    <3>3. QED
      BY <1>4, <3>1, <3>2, IdleSound
  <2>3. \A j \in Ids : Deleted(users[j].account) \in events => Deleted(users[j].account) \in events'
    BY <1>4, <2>1
  <2> HIDE DEF q
  <2>4. QED
    BY <1>3, <1>5, <1>6, <2>1, <2>2, <2>3, RewriteKeepsIInv
<1>7. CASE (Answer(w, q) \/ Refuse(w)) /\ Untouched
  BY <1>2, <1>4, <1>7, AnswerKeepsIInv
<1>8. QED
  BY <1>1, <1>6, <1>7

LEMMA AttachKeepsIInv ==
  ASSUME IInv, NEW i \in Ids, Attach(i)
  PROVE  IInv'
<1> DEFINE new == [users[i] EXCEPT !.held = ~@]
<1>1. /\ users[i] # NoProfile /\ Act /\ users' = [users EXCEPT ![i] = new]
      /\ UNCHANGED <<clerk, next, events, lost, req, survivors>>
  BY DEF Attach
<1>2. users[i] \in Profile
  BY <1>1 DEF IInv, TypeOK
<1>3. new \in Profile /\ new.account = users[i].account /\ new.email = users[i].email
  BY <1>2 DEF Profile
<1> HIDE DEF new
<1>4. Fits(i, new)
  BY <1>1, <1>3 DEF Fits, IInv, OneProfileEach
<1>5. acts' \in 0..MaxActs /\ req' \in [Workers -> Request]
  BY <1>1, ProfilesAssumption DEF Act, IInv, TypeOK
<1>6. QED
  BY <1>1, <1>3, <1>4, <1>5, RewriteKeepsIInv

LEMMA DeleteKeepsIInv ==
  ASSUME IInv, NEW w \in Workers, Delete(w)
  PROVE  IInv'
<1> DEFINE q == req[w]
<1>1. /\ q.stage = "bare" /\ users' = [users EXCEPT ![q.id] = NoProfile]
      /\ Advance(w, Idle) /\ UNCHANGED <<clerk, next, events, lost, acts, survivors>>
  BY DEF Delete, Refuse
<1>2. q.id \in Ids
  BY <1>1, AnsweredKnows
<1> HIDE DEF q
<1>3. /\ users \in [Ids -> Profile \cup {NoProfile}]
      /\ users' \in [Ids -> Profile \cup {NoProfile}] /\ users'[q.id] = NoProfile
      /\ \A i \in Ids : i # q.id => users'[i] = users[i]
  BY <1>1, <1>2 DEF IInv, TypeOK
<1>4. \A i \in Ids : users'[i] # NoProfile => users'[i] = users[i] /\ i # q.id
  BY <1>3
<1>5. Grows
  BY <1>1, <1>4, ProfilesAssumption DEF Grows, IInv, TypeOK
<1>6. req' \in [Workers -> Request] /\ RequestsSound'
  BY <1>1, <1>5, IdleSound, RequestsStaySound
<1>7. TypeOK'
  BY <1>1, <1>3, <1>6 DEF IInv, TypeOK
<1>8. OneProfileEach'
  <2>1. ASSUME NEW i \in Ids, NEW j \in Ids, i # j, users'[i] # NoProfile
        PROVE  users'[i].account # users'[j].account /\ users'[i].email # users'[j].email
    <3>1. users'[i] = users[i] /\ users[i] # NoProfile /\ users[i] \in Profile
      BY <1>3, <1>4, <2>1
    <3>2. CASE j = q.id
      BY <1>3, <3>1, <3>2, ProfilesAssumption DEF NoProfile, Profile
    <3>3. CASE j # q.id
      BY <1>3, <2>1, <3>1, <3>3 DEF IInv, OneProfileEach
    <3>4. QED
      BY <3>2, <3>3
  <2>2. QED
    BY <2>1 DEF OneProfileEach
<1>9. EventsSound' /\ FreshIds'
  BY <1>1, <1>3 DEF IInv, EventsSound, FreshIds
<1>10. ASSUME NEW i \in Ids \ survivors', users'[i] # NoProfile, clerk'[users'[i].account] = Gone
       PROVE  \/ Deleted(users'[i].account) \in events' \cup lost'
              \/ \E v \in Workers : Leaving(req'[v], i)
  <2>1. /\ users'[i] = users[i] /\ i # q.id
        /\ \/ Deleted(users[i].account) \in events \cup lost
           \/ \E v \in Workers : Leaving(req[v], i)
    BY <1>1, <1>4, <1>10 DEF IInv, Outlives
  <2>2. \A v \in Workers : Leaving(req[v], i) => Leaving(req'[v], i)
    BY <1>1, <2>1 DEF Advance, Leaving, IInv, TypeOK, q
  <2>3. QED
    BY <1>1, <2>1, <2>2
<1>11. QED
  BY <1>6, <1>7, <1>8, <1>9, <1>10 DEF IInv, Outlives

(* What happens to accounts at Clerk: the event tells, and a profile whose *)
(* account goes has its user.deleted.                                      *)
LEMMA ClerkMovesKeepsIInv ==
  ASSUME IInv, NEW a \in Accounts, NEW to \in Emails \cup {Gone}, clerk[a] # Gone,
         clerk' = [clerk EXCEPT ![a] = to], NEW e \in Event, events' = events \cup {e},
         IF to = Gone THEN e = Deleted(a) ELSE e.type # "deleted" /\ e.email \in Emails,
         UNCHANGED <<users, next, lost, survivors>>, acts' \in 0..MaxActs,
         req' \in [Workers -> Request],
         \A w \in Workers :
           /\ req'[w] = req[w] \/ Sound(req'[w], clerk', users', next')
           /\ \A i \in Ids : Leaving(req[w], i) => Leaving(req'[w], i)
  PROVE  IInv'
<1>1. /\ clerk' \in [Accounts -> Emails \cup {NotYet, Gone}] /\ clerk'[a] = to
      /\ \A b \in Accounts : b # a => clerk'[b] = clerk[b]
  BY DEF IInv, TypeOK
<1>2. Grows
  BY <1>1, ProfilesAssumption DEF Grows, IInv, TypeOK
<1>3. RequestsSound'
  BY <1>2, OthersStaySound DEF RequestsSound
<1>4. TypeOK'
  BY <1>1 DEF IInv, TypeOK
<1>5. OneProfileEach' /\ FreshIds'
  BY DEF IInv, OneProfileEach, FreshIds
<1>6. EventsSound'
  <2>1. ASSUME NEW f \in events'
        PROVE  IF f.type = "deleted" THEN f.email = None /\ clerk'[f.account] = Gone
               ELSE f.email \in Emails
    <3>1. CASE f \in events
      <4>1. f \in Event
        BY <3>1 DEF IInv, TypeOK
      <4>2. f.account \in Accounts
        BY <4>1 DEF Event
      <4>3. QED
        BY <1>1, <3>1, <4>2 DEF IInv, EventsSound
    <3>2. CASE f = e
      BY <1>1, <3>2 DEF Deleted
    <3>3. QED
      BY <3>1, <3>2
  <2>2. QED
    BY <2>1 DEF EventsSound
<1>7. ASSUME NEW i \in Ids \ survivors', users'[i] # NoProfile, clerk'[users'[i].account] = Gone
      PROVE  \/ Deleted(users'[i].account) \in events' \cup lost'
             \/ \E v \in Workers : Leaving(req'[v], i)
  <2>1. users'[i] = users[i] /\ users[i].account \in Accounts
    BY <1>7 DEF IInv, TypeOK, Profile
  <2>2. CASE users[i].account = a
    BY <1>1, <1>7, <2>1, <2>2
  <2>3. CASE users[i].account # a
    BY <1>1, <1>7, <2>1, <2>3 DEF IInv, Outlives
  <2>4. QED
    BY <2>2, <2>3
<1>8. QED
  BY <1>3, <1>4, <1>5, <1>6, <1>7 DEF IInv, Outlives

LEMMA SignUpKeepsIInv ==
  ASSUME IInv, NEW a \in Accounts, NEW e \in Emails, SignUp(a, e)
  PROVE  IInv'
<1>1. /\ clerk[a] # Gone /\ e # Gone /\ clerk' = [clerk EXCEPT ![a] = e]
      /\ events' = events \cup {Created(a, e)}
      /\ UNCHANGED <<users, next, lost, req, acts, survivors>>
  BY ProfilesAssumption DEF SignUp
<1>2. Created(a, e) \in Event /\ Created(a, e).type # "deleted" /\ Created(a, e).email \in Emails
  BY DEF Created, Event, Webhooks
<1>3. req' \in [Workers -> Request] /\ acts' \in 0..MaxActs
  BY <1>1 DEF IInv, TypeOK
<1>4. QED
  BY <1>1, <1>2, <1>3, ClerkMovesKeepsIInv

LEMMA ChangeEmailKeepsIInv ==
  ASSUME IInv, NEW a \in Accounts, NEW e \in Emails, ChangeEmail(a, e)
  PROVE  IInv'
<1>1. /\ clerk[a] # Gone /\ e # Gone /\ Act /\ clerk' = [clerk EXCEPT ![a] = e]
      /\ events' = events \cup {Updated(a, e)}
      /\ UNCHANGED <<users, next, lost, req, survivors>>
  BY ProfilesAssumption DEF ChangeEmail
<1>2. Updated(a, e) \in Event /\ Updated(a, e).type # "deleted" /\ Updated(a, e).email \in Emails
  BY DEF Updated, Event, Webhooks
<1>3. req' \in [Workers -> Request] /\ acts' \in 0..MaxActs
  BY <1>1, ProfilesAssumption DEF Act, IInv, TypeOK
<1>4. QED
  BY <1>1, <1>2, <1>3, ClerkMovesKeepsIInv

LEMMA CloseAtClerkKeepsIInv ==
  ASSUME IInv, NEW a \in Accounts, CloseAtClerk(a)
  PROVE  IInv'
<1>1. /\ clerk[a] # Gone /\ clerk' = [clerk EXCEPT ![a] = Gone]
      /\ events' = events \cup {Deleted(a)}
      /\ UNCHANGED <<users, next, lost, req, acts, survivors>>
  BY ProfilesAssumption DEF CloseAtClerk, Close
<1>2. Deleted(a) \in Event
  BY DEF Deleted, Event, Webhooks
<1>3. req' \in [Workers -> Request] /\ acts' \in 0..MaxActs
  BY <1>1 DEF IInv, TypeOK
<1>4. QED
  BY <1>1, <1>2, <1>3, ClerkMovesKeepsIInv

LEMMA DeleteAuthUserKeepsIInv ==
  ASSUME IInv, NEW w \in Workers, DeleteAuthUser(w)
  PROVE  IInv'
<1> DEFINE q == req[w]
           p == [q EXCEPT !.stage = "answered"]
<1>1. /\ q.stage = "loaded" /\ q.op = "remove" /\ Advance(w, p)
      /\ Close(q.account) \/ UNCHANGED <<clerk, events>>
      /\ UNCHANGED <<users, next, lost, acts, survivors>>
  BY DEF DeleteAuthUser
<1>2. q \in Request /\ Sound(q, clerk, users, next) /\ req \in [Workers -> Request]
  BY DEF IInv, TypeOK, RequestsSound
<1>3. /\ q.account \in Accounts /\ q.role = None /\ q.id # None /\ q.id \in Ids
      /\ q.id < next /\ (users[q.id] # NoProfile => users[q.id].account = q.account)
  BY <1>1, <1>2 DEF Sound
<1>4. /\ p \in Request /\ p.stage = "answered" /\ p.op = "remove" /\ p.account = q.account
      /\ p.role = None /\ p.id = q.id
  BY <1>1, <1>2, <1>3 DEF Request, Stages
<1>5. \A i \in Ids : ~Leaving(q, i)
  BY <1>1 DEF Leaving
<1>6. acts' \in 0..MaxActs /\ lost' \subseteq Event /\ survivors' \subseteq Ids
  BY <1>1 DEF IInv, TypeOK
<1> HIDE DEF p
<1>7. \A c : Sound(p, c, users, next)
  BY <1>3, <1>4 DEF Sound
<1>8. CASE Close(q.account)
  <2>1. /\ clerk[q.account] # Gone /\ clerk' = [clerk EXCEPT ![q.account] = Gone]
        /\ events' = events \cup {Deleted(q.account)}
    BY <1>8, ProfilesAssumption DEF Close
  <2>2. Deleted(q.account) \in Event
    BY <1>3 DEF Deleted, Event, Webhooks
  <2>3. /\ req' \in [Workers -> Request]
        /\ \A v \in Workers : /\ req'[v] = req[v] \/ Sound(req'[v], clerk', users', next')
                              /\ \A i \in Ids : Leaving(req[v], i) => Leaving(req'[v], i)
    <3>1. req' = [req EXCEPT ![w] = p]
      BY <1>1 DEF Advance
    <3>2. \A v \in Workers : IF v = w THEN req'[v] = p ELSE req'[v] = req[v]
      BY <1>2, <3>1
    <3>3. Sound(p, clerk', users', next')
      BY <1>1, <1>7
    <3>4. QED
      BY <1>2, <1>4, <1>5, <3>1, <3>2, <3>3
  <2> HIDE DEF q
  <2>4. QED
    BY <1>1, <1>3, <1>6, <2>1, <2>2, <2>3, ClerkMovesKeepsIInv
<1>9. CASE UNCHANGED <<clerk, events>>
  BY <1>1, <1>4, <1>5, <1>6, <1>7, <1>9, QuietKeepsIInv
<1>10. QED
  BY <1>1, <1>8, <1>9

----------------------------------------------------------------------------
(* The invariant *)

(* One row at most, of an account that Clerk has. *)
LEMMA InitIInv == Init => IInv
<1> SUFFICES ASSUME Init PROVE IInv
  OBVIOUS
<1>1. PICK seed \in Seeds :
        /\ users = [i \in Ids |-> IF i = 1 THEN seed ELSE NoProfile]
        /\ clerk = [a \in Accounts |-> IF a = seed.account THEN seed.email ELSE NotYet]
        /\ next = IF seed = NoProfile \/ MaxIds = 0 THEN 1 ELSE 2
  BY DEF Init
<1>2. seed \in Profile \cup {NoProfile} /\ MaxIds \in Nat /\ MaxActs \in Nat
  BY ProfilesAssumption
<1>3. /\ events = {} /\ lost = {} /\ acts = 0 /\ survivors = {}
      /\ req = [w \in Workers |-> Idle]
  BY DEF Init
<1>4. clerk \in [Accounts -> Emails \cup {NotYet, Gone}]
  <2>1. \A a \in Accounts : a = seed.account => seed.email \in Emails
    BY <1>2, ProfilesAssumption DEF Profile, NoProfile
  <2>2. QED
    BY <1>1, <2>1
<1>5. Idle \in Request /\ \A c, u, n : Sound(Idle, c, u, n)
  BY IdleSound
<1>6. TypeOK
  <2>1. next \in 1..(MaxIds + 1)
    BY <1>1, <1>2
  <2>2. users \in [Ids -> Profile \cup {NoProfile}] /\ req \in [Workers -> Request]
    BY <1>1, <1>2, <1>3, <1>5
  <2>3. QED
    BY <1>2, <1>3, <1>4, <2>1, <2>2 DEF TypeOK
<1>7. OneProfileEach
  <2>1. ASSUME NEW i \in Ids, NEW j \in Ids, i # j, users[i] # NoProfile
        PROVE  users[i].account # users[j].account /\ users[i].email # users[j].email
    <3>1. users[i] = seed /\ seed \in Profile /\ users[j] = NoProfile
      BY <1>1, <1>2, <2>1
    <3>2. QED
      BY <3>1, ProfilesAssumption DEF NoProfile, Profile
  <2>2. QED
    BY <2>1 DEF OneProfileEach
<1>8. RequestsSound /\ EventsSound
  BY <1>3, <1>5 DEF RequestsSound, EventsSound
<1>9. FreshIds
  <2>1. ASSUME NEW i \in Ids, i >= next
        PROVE  users[i] = NoProfile
    <3>1. CASE seed = NoProfile
      BY <1>1, <3>1
    <3>2. CASE seed # NoProfile
      <4>1. i # 1
        BY <1>1, <1>2, <2>1, <3>2 DEF Ids
      <4>2. QED
        BY <1>1, <4>1
    <3>3. QED
      BY <3>1, <3>2
  <2>2. QED
    BY <2>1 DEF FreshIds
<1>10. Outlives
  <2>1. ASSUME NEW i \in Ids, users[i] # NoProfile
        PROVE  clerk[users[i].account] # Gone
    <3>1. users[i] = seed /\ seed \in Profile
      BY <1>1, <1>2, <2>1
    <3>2. clerk[seed.account] = seed.email /\ seed.email \in Emails
      BY <1>1, <3>1 DEF Profile
    <3>3. QED
      BY <3>1, <3>2, ProfilesAssumption
  <2>2. QED
    BY <2>1 DEF Outlives
<1>11. QED
  BY <1>6, <1>7, <1>8, <1>9, <1>10 DEF IInv

(* Every action keeps it, and so does a step that changes nothing. *)
LEMMA NextIInv == IInv /\ [Next]_vars => IInv'
<1> SUFFICES ASSUME IInv, [Next]_vars PROVE IInv'
  OBVIOUS
<1>1. CASE \E a \in Accounts, e \in Emails : SignUp(a, e) \/ ChangeEmail(a, e)
  BY <1>1, SignUpKeepsIInv, ChangeEmailKeepsIInv
<1>2. CASE \E a \in Accounts : CloseAtClerk(a)
  BY <1>2, CloseAtClerkKeepsIInv
<1>3. CASE \E i \in Ids : Attach(i)
  BY <1>3, AttachKeepsIInv
<1>4. CASE \E w \in Workers :
             \/ \E a \in Accounts, wish \in Wishes : FetchAccount(w, a, wish)
             \/ \E e \in events : Deliver(w, e)
             \/ \E c, i \in Ids : Remove(w, c, i)
  BY <1>4, FetchAccountKeepsIInv, DeliverKeepsIInv, RemoveKeepsIInv
<1>5. CASE \E w \in Workers : Step(w) \/ Stop(w)
  BY <1>5, SyncUserKeepsIInv, SelectEmailKeepsIInv, SelectUserKeepsIInv, InsertKeepsIInv,
     UpdateKeepsIInv, DeleteAuthUserKeepsIInv, SelectDependantsKeepsIInv, DeleteKeepsIInv,
     StopKeepsIInv DEF Step
<1>6. CASE UNCHANGED vars
  BY <1>6 DEF vars, IInv, TypeOK, OneProfileEach, RequestsSound, Sound, EventsSound,
     FreshIds, Outlives, Leaving
<1>7. QED
  BY <1>1, <1>2, <1>3, <1>4, <1>5, <1>6 DEF Next

(* What requests know of the table stays true while others write it. *)
THEOREM Invariant == Spec => []IInv
<1>1. QED
  BY InitIInv, NextIInv, PTL DEF Spec

(* The columns hold what they may. *)
THEOREM TypeCorrect == Spec => []TypeOK
<1>1. IInv => TypeOK
  BY DEF IInv
<1>2. QED
  BY <1>1, Invariant, PTL

(* Accounts and emails name at most one profile, whatever syncs, webhooks  *)
(* and deletions overlap.                                                  *)
THEOREM OneProfileEachHolds == Spec => []OneProfileEach
<1>1. IInv => OneProfileEach
  BY DEF IInv
<1>2. QED
  BY <1>1, Invariant, PTL

(* No profile outlives its account but for the causes it names. *)
THEOREM SurvivorsHaveACause == Spec => []OutlivesWithACause
<1>1. IInv => OutlivesWithACause
  BY DEF IInv, Outlives, OutlivesWithACause, Leaving
<1>2. QED
  BY <1>1, Invariant, PTL

----------------------------------------------------------------------------
(* What a step may do to a profile *)

(* Four actions write the table. *)
LEMMA WhoWrites ==
  ASSUME [Next]_vars, users' # users
  PROVE  \/ \E w \in Workers : Insert(w) \/ Update(w) \/ Delete(w)
         \/ \E i \in Ids : Attach(i)
<1>1. \A w \in Workers : \A q : SelectAccount(w, q) => users' = users
  BY DEF SelectAccount, Reads, Untouched
<1>2. CASE UNCHANGED vars
  BY <1>2 DEF vars
<1>3. CASE \E a \in Accounts, e \in Emails : SignUp(a, e) \/ ChangeEmail(a, e) \/ CloseAtClerk(a)
  BY <1>3 DEF SignUp, ChangeEmail, CloseAtClerk
<1>4. ASSUME NEW w \in Workers, NEW a \in Accounts, NEW wish \in Wishes, FetchAccount(w, a, wish)
      PROVE  FALSE
  BY <1>4 DEF FetchAccount
<1>5. ASSUME NEW w \in Workers, NEW c \in Ids, NEW i \in Ids, Remove(w, c, i)
      PROVE  FALSE
  BY <1>5 DEF Remove
<1>6. ASSUME NEW w \in Workers, (\E e \in events : Deliver(w, e)) \/ SyncUser(w)
      PROVE  FALSE
  BY <1>1, <1>6 DEF Deliver, SyncUser
<1>7. ASSUME NEW w \in Workers,
             SelectEmail(w) \/ SelectUser(w) \/ DeleteAuthUser(w) \/ SelectDependants(w) \/ Stop(w)
      PROVE  FALSE
  BY <1>7 DEF SelectEmail, SelectUser, DeleteAuthUser, SelectDependants, Stop, Untouched, Reads
<1>8. ASSUME NEW a \in Accounts, CloseAtClerk(a)
      PROVE  FALSE
  BY <1>8 DEF CloseAtClerk
<1>9. QED
  BY <1>2, <1>3, <1>4, <1>5, <1>6, <1>7, <1>8 DEF Next, Step

(* An insert writes a row that was not there. *)
LEMMA InsertWrites ==
  ASSUME IInv, NEW w \in Workers, Insert(w), NEW i \in Ids, users[i] # NoProfile
  PROVE  users'[i] = users[i]
<1>1. next >= next
  BY ProfilesAssumption DEF IInv, TypeOK
<1>2. i # next
  BY <1>1 DEF IInv, FreshIds
<1>3. users \in [Ids -> Profile \cup {NoProfile}]
  BY DEF IInv, TypeOK
<1>4. QED
  BY <1>2, <1>3 DEF Insert, Untouched

(* An update writes the row it loaded. *)
LEMMA UpdateWrites ==
  ASSUME IInv, NEW w \in Workers, Update(w), NEW i \in Ids, users[i] # NoProfile,
         users'[i] # users[i]
  PROVE  /\ i = req[w].id /\ req[w].account = users[i].account /\ req'[w] = Idle
         /\ users'[i] = Rewritten(req[w], users[i]) /\ users[i] \in Profile
         /\ req[w].email \in Emails
<1>1. users \in [Ids -> Profile \cup {NoProfile}] /\ req \in [Workers -> Request]
  BY DEF IInv, TypeOK
<1>2. users' = [users EXCEPT ![req[w].id] = Rewritten(req[w], users[req[w].id])] \/ users' = users
  BY DEF Update, Untouched
<1>3. i = req[w].id /\ users'[i] = Rewritten(req[w], users[i]) /\ users[i] \in Profile
  BY <1>1, <1>2
<1>4. Sound(req[w], clerk, users, next)
  BY DEF IInv, RequestsSound
<1>5. req[w].stage = "loaded" /\ req[w].op # "remove" /\ req[w].id # None
  BY DEF Update
<1>6. req[w].account = users[i].account /\ req[w].email \in Emails
  BY <1>3, <1>4, <1>5 DEF Sound
<1>7. req'[w] = Idle
  BY <1>1 DEF Update, Answer, Refuse, Advance
<1>8. QED
  BY <1>3, <1>6, <1>7

(* Roles come from syncs of the same account, never from a webhook. *)
THEOREM RolesHold == Spec => RolesComeFromSync
<1>1. ASSUME IInv, [Next]_vars, NEW i \in Ids, users[i] # NoProfile, users'[i] # NoProfile,
             users'[i].role # users[i].role
      PROVE  \E w \in Workers :
               /\ req[w].op = "sync" /\ req[w].account = users[i].account
               /\ req[w].role = users'[i].role
               /\ req'[w] = Idle
  <2>1. users' # users
    BY <1>1
  <2>2. ASSUME NEW w \in Workers, Insert(w)
        PROVE  FALSE
    BY <1>1, <2>2, InsertWrites
  <2>3. ASSUME NEW w \in Workers, Delete(w)
        PROVE  FALSE
    BY <1>1, <2>3 DEF Delete, IInv, TypeOK
  <2>4. ASSUME NEW j \in Ids, Attach(j)
        PROVE  FALSE
    <3>1. users \in [Ids -> Profile \cup {NoProfile}]
      BY <1>1 DEF IInv, TypeOK
    <3>2. users' = [users EXCEPT ![j].held = ~@]
      BY <2>4 DEF Attach
    <3>3. CASE i = j
      <4>1. users[i] \in Profile
        BY <1>1, <3>1
      <4>2. users'[i] = [users[i] EXCEPT !.held = ~@]
        BY <3>1, <3>2, <3>3
      <4>3. QED
        BY <1>1, <4>1, <4>2 DEF Profile
    <3>4. CASE i # j
      BY <1>1, <3>1, <3>2, <3>4
    <3>5. QED
      BY <3>3, <3>4
  <2>5. ASSUME NEW w \in Workers, Update(w)
        PROVE  /\ req[w].op = "sync" /\ req[w].account = users[i].account
               /\ req[w].role = users'[i].role
               /\ req'[w] = Idle
    <3>1. /\ i = req[w].id /\ req[w].account = users[i].account /\ req'[w] = Idle
          /\ users'[i] = Rewritten(req[w], users[i]) /\ users[i] \in Profile
      BY <1>1, <2>5, UpdateWrites
    <3>2. req[w].role \in ValidRoles /\ req[w].role = users'[i].role
      BY <1>1, <3>1 DEF Rewritten, Profile
    <3>3. req[w].role # None
      BY <3>2, ProfilesAssumption DEF StoredRoles
    <3>4. req[w].op = "sync"
      BY <1>1, <3>3 DEF IInv, RequestsSound, Sound
    <3>5. QED
      BY <3>1, <3>2, <3>4
  <2>6. QED
    BY <1>1, <2>1, <2>2, <2>3, <2>4, <2>5, WhoWrites
<1>2. IInv /\ [Next]_vars =>
        [\A i \in Ids :
           users[i] # NoProfile /\ users'[i] # NoProfile /\ users'[i].role # users[i].role
           => \E w \in Workers :
                /\ req[w].op = "sync" /\ req[w].account = users[i].account
                /\ req[w].role = users'[i].role
                /\ req'[w] = Idle]_vars
  BY <1>1
<1>3. QED
  BY <1>2, Invariant, PTL DEF Spec, RolesComeFromSync

(* No write of another account displaces a profile. *)
THEOREM LeavingIsAsked == Spec => ProfilesLeaveOnRequest
<1>1. ASSUME IInv, [Next]_vars, NEW i \in Ids, users[i] # NoProfile, users'[i] = NoProfile
      PROVE  \/ clerk[users[i].account] = Gone
             \/ \E w \in Workers : req[w].op = "remove" /\ req[w].id = i
  <2>1. users' # users /\ users \in [Ids -> Profile \cup {NoProfile}] /\ NoProfile \notin Profile
    BY <1>1, ProfilesAssumption DEF IInv, TypeOK, NoProfile, Profile
  <2>2. ASSUME NEW w \in Workers, Insert(w)
        PROVE  FALSE
    BY <1>1, <2>2, InsertWrites
  <2>3. ASSUME NEW w \in Workers, Update(w)
        PROVE  FALSE
    <3>1. /\ users'[i] = Rewritten(req[w], users[i]) /\ users[i] \in Profile
          /\ req[w].email \in Emails
      BY <1>1, <2>3, UpdateWrites
    <3>2. req[w] \in Request
      BY <1>1 DEF IInv, TypeOK
    <3>3. QED
      BY <1>1, <2>1, <3>1, <3>2, RewrittenStays
  <2>4. ASSUME NEW j \in Ids, Attach(j)
        PROVE  FALSE
    <3>1. users' = [users EXCEPT ![j].held = ~@] /\ users[j] # NoProfile
      BY <2>4 DEF Attach
    <3>2. users[j] \in Profile
      BY <2>1, <3>1
    <3>3. [users[j] EXCEPT !.held = ~@] \in Profile
      BY <3>2 DEF Profile
    <3>4. QED
      BY <1>1, <2>1, <3>1, <3>3
  <2>5. ASSUME NEW w \in Workers, Delete(w)
        PROVE  \/ clerk[users[i].account] = Gone
               \/ req[w].op = "remove" /\ req[w].id = i
    <3>1. req[w].stage = "bare" /\ i = req[w].id
      BY <1>1, <2>1, <2>5 DEF Delete
    <3>2. QED
      BY <1>1, <3>1, AnsweredKnows
  <2>6. QED
    BY <1>1, <2>1, <2>2, <2>3, <2>4, <2>5, WhoWrites
<1>2. IInv /\ [Next]_vars =>
        [\A i \in Ids :
           users[i] # NoProfile /\ users'[i] = NoProfile
           => \/ clerk[users[i].account] = Gone
              \/ \E w \in Workers : req[w].op = "remove" /\ req[w].id = i]_vars
  BY <1>1
<1>3. QED
  BY <1>2, Invariant, PTL DEF Spec, ProfilesLeaveOnRequest

----------------------------------------------------------------------------
(* What an answered event has done *)

(* An event leaves by an answer, or is lost. *)
LEMMA WhoAnswers ==
  ASSUME [Next]_vars, NEW e \in events, e \notin events', e \notin lost'
  PROVE  \/ ProfilesOf(e.account) = {} /\ e.type \in {"updated", "deleted"} /\ users' = users
         \/ \E w \in Workers :
              /\ SelectEmail(w) \/ SelectUser(w) \/ Insert(w) \/ Update(w)
              /\ Acknowledge(req[w]) /\ e = EventOf(req[w])
<1> DEFINE Missing == ProfilesOf(e.account) = {} /\ e.type \in {"updated", "deleted"} /\ users' = users
<1>1. \A q : Acknowledge(q) => e = EventOf(q)
  BY DEF Acknowledge
<1>2. ASSUME NEW w \in Workers, NEW q, SelectAccount(w, q)
      PROVE  Missing
  <2>1. \/ Reads
        \/ ProfilesOf(q.account) = {} /\ q.op \in {"updated", "deleted"} /\ Acknowledge(q) /\ Untouched
    BY <1>2 DEF SelectAccount, Answer
  <2>2. ~Reads
    BY DEF Reads
  <2>3. e = EventOf(q) /\ users' = users
    BY <1>1, <2>1, <2>2 DEF Untouched
  <2>4. QED
    BY <2>1, <2>2, <2>3 DEF EventOf
<1> HIDE DEF Missing
<1>3. ~UNCHANGED vars
  BY DEF vars
<1>4. ASSUME NEW a \in Accounts, CloseAtClerk(a) \/ \E m \in Emails : SignUp(a, m) \/ ChangeEmail(a, m)
      PROVE  FALSE
  BY <1>4 DEF SignUp, ChangeEmail, CloseAtClerk, Close
<1>5. ASSUME NEW i \in Ids, Attach(i)
      PROVE  FALSE
  BY <1>5 DEF Attach
<1>6. ASSUME NEW w \in Workers, NEW a \in Accounts, NEW wish \in Wishes, FetchAccount(w, a, wish)
      PROVE  FALSE
  BY <1>6 DEF FetchAccount
<1>7. ASSUME NEW w \in Workers, NEW c \in Ids, NEW i \in Ids, Remove(w, c, i)
      PROVE  FALSE
  BY <1>7 DEF Remove
<1>8. ASSUME NEW w \in Workers, (\E f \in events : Deliver(w, f)) \/ SyncUser(w)
      PROVE  Missing
  BY <1>2, <1>8 DEF Deliver, SyncUser
<1>9. ASSUME NEW w \in Workers, DeleteAuthUser(w) \/ SelectDependants(w) \/ Delete(w) \/ Stop(w)
      PROVE  FALSE
  <2>1. CASE DeleteAuthUser(w)
    BY <2>1 DEF DeleteAuthUser, Close
  <2>2. CASE SelectDependants(w) \/ Delete(w)
    BY <2>2 DEF SelectDependants, Delete, Refuse
  <2>3. CASE Stop(w)
    BY <2>3 DEF Stop
  <2>4. QED
    BY <1>9, <2>1, <2>2, <2>3
<1>10. ASSUME NEW w \in Workers, SelectEmail(w) \/ SelectUser(w) \/ Insert(w) \/ Update(w)
       PROVE  Acknowledge(req[w]) /\ e = EventOf(req[w])
  <2>1. Acknowledge(req[w]) \/ events' = events
    BY <1>10 DEF SelectEmail, SelectUser, Insert, Update, Answer, Refuse, Reads
  <2>2. QED
    BY <1>1, <2>1
<1>11. Missing \/ \E w \in Workers :
         SelectEmail(w) \/ SelectUser(w) \/ Insert(w) \/ Update(w)
  BY <1>3, <1>4, <1>5, <1>6, <1>7, <1>8, <1>9 DEF Next, Step
<1>12. QED
  BY <1>10, <1>11 DEF Missing

(* user.created, answered. *)
LEMMA CreatedIsDone ==
  ASSUME IInv, [Next]_vars, NEW a \in Accounts, NEW e \in Emails,
         Created(a, e) \in (events \ events') \ lost'
  PROVE  \E i \in Ids : users'[i].account = a \/ users'[i].email = e
<1>1. PICK w \in Workers :
        /\ SelectEmail(w) \/ SelectUser(w) \/ Insert(w) \/ Update(w)
        /\ Acknowledge(req[w]) /\ Created(a, e) = EventOf(req[w])
  BY WhoAnswers DEF Created
<1>2. req[w].op = "created" /\ req[w].account = a /\ req[w].email = e
  BY <1>1 DEF Created, EventOf
<1>3. users \in [Ids -> Profile \cup {NoProfile}] /\ Sound(req[w], clerk, users, next)
  BY DEF IInv, TypeOK, RequestsSound
<1>4. events' # events
  OBVIOUS
<1>5. CASE SelectEmail(w)
  BY <1>2, <1>4, <1>5 DEF SelectEmail, Reads, Untouched
<1>6. CASE SelectUser(w)
  BY <1>2, <1>3, <1>6 DEF SelectUser, Sound
<1>7. CASE Insert(w)
  <2>1. /\ next \in Ids /\ users'[next].account = req[w].account
    BY <1>3, <1>4, <1>7 DEF Insert, Refuse
  <2>2. QED
    BY <1>2, <2>1
<1>8. CASE Update(w)
  <2>1. /\ users[req[w].id] # NoProfile
        /\ users' = [users EXCEPT ![req[w].id] = Rewritten(req[w], users[req[w].id])]
        /\ req[w].stage = "loaded" /\ req[w].id # None
    BY <1>2, <1>4, <1>8 DEF Update, Refuse
  <2>2. req[w].id \in Ids /\ users[req[w].id].account = a /\ req[w].email \in Emails
    BY <1>2, <1>3, <2>1 DEF Sound
  <2>3. users'[req[w].id].account = a
    <3>1. users[req[w].id] \in Profile /\ req[w] \in Request
      BY <1>3, <2>1, <2>2 DEF IInv, TypeOK
    <3>2. QED
      BY <1>3, <2>1, <2>2, <3>1, RewrittenStays
  <2>4. QED
    BY <2>2, <2>3
<1>9. QED
  BY <1>1, <1>5, <1>6, <1>7, <1>8

(* user.updated, answered. *)
LEMMA UpdatedIsDone ==
  ASSUME IInv, [Next]_vars, NEW a \in Accounts, NEW e \in Emails,
         Updated(a, e) \in (events \ events') \ lost',
         NEW i \in Ids, users'[i].account = a
  PROVE  users'[i].email = e \/ \E w \in Workers : req[w].email_was = e
<1>1. CASE ProfilesOf(a) = {} /\ users' = users
  BY <1>1 DEF ProfilesOf
<1>2. ASSUME NEW w \in Workers,
             SelectEmail(w) \/ SelectUser(w) \/ Insert(w) \/ Update(w),
             Updated(a, e) = EventOf(req[w])
      PROVE  users'[i].email = e \/ req[w].email_was = e
  <2>1. req[w].op = "updated" /\ req[w].account = a /\ req[w].email = e
    BY <1>2 DEF Updated, EventOf
  <2>2. /\ users \in [Ids -> Profile \cup {NoProfile}] /\ Sound(req[w], clerk, users, next)
        /\ req[w] \in Request /\ events' # events
    BY DEF IInv, TypeOK, RequestsSound
  <2>3. Update(w)
    BY <1>2, <2>1, <2>2 DEF SelectEmail, SelectUser, Insert, Sound
  <2>4. req[w].stage = "loaded" /\ req[w].id # None
    BY <2>3 DEF Update
  <2>5. req[w].id \in Ids /\ req[w].email \in Emails
        /\ (users[req[w].id] # NoProfile => users[req[w].id].account = a)
    BY <2>1, <2>2, <2>4 DEF Sound
  <2>6. CASE users[req[w].id] = NoProfile
    BY <2>1, <2>2, <2>3, <2>6 DEF Update, Refuse
  <2>7. CASE users[req[w].id] # NoProfile
    <3>1. users' = [users EXCEPT ![req[w].id] = Rewritten(req[w], users[req[w].id])]
      BY <2>2, <2>3, <2>7 DEF Update, Refuse
    <3>2. users[req[w].id] \in Profile
      BY <2>2, <2>5, <2>7
    <3>3. users[i].account = a
      BY <2>2, <2>5, <2>7, <3>1, <3>2, RewrittenStays
    <3>4. i = req[w].id
      BY <2>5, <2>7, <3>3 DEF IInv, OneProfileEach
    <3>5. users'[i] = Rewritten(req[w], users[i]) /\ users[i] \in Profile
      BY <2>2, <3>1, <3>2, <3>4
    <3>6. req[w].email # req[w].email_was => users'[i].email = e
      BY <2>1, <3>5 DEF Rewritten, Profile
    <3>7. QED
      BY <2>1, <3>6
  <2>8. QED
    BY <2>6, <2>7
<1>3. Updated(a, e).account = a /\ Updated(a, e) \in events /\ Updated(a, e) \notin events'
      /\ Updated(a, e) \notin lost'
  BY DEF Updated
<1> DEFINE f == Updated(a, e)
<1> HIDE DEF f
<1>4. \/ ProfilesOf(f.account) = {} /\ users' = users
      \/ \E w \in Workers :
           /\ SelectEmail(w) \/ SelectUser(w) \/ Insert(w) \/ Update(w)
           /\ f = EventOf(req[w])
  <2>1. f \in events /\ f \notin events' /\ f \notin lost'
    BY <1>3 DEF f
  <2>2. QED
    BY <2>1, WhoAnswers
<1>5. QED
  BY <1>1, <1>2, <1>3, <1>4 DEF f

(* user.deleted, answered. *)
LEMMA DeletedIsDone ==
  ASSUME IInv, [Next]_vars, NEW a \in Accounts,
         Deleted(a) \in (events \ events') \ lost',
         NEW i \in Ids, users'[i].account = a
  PROVE  \E w \in Workers : req'[w].stage = "answered" /\ req'[w].id = i
<1>1. CASE ProfilesOf(a) = {} /\ users' = users
  BY <1>1 DEF ProfilesOf
<1>2. ASSUME NEW w \in Workers,
             SelectEmail(w) \/ SelectUser(w) \/ Insert(w) \/ Update(w),
             Deleted(a) = EventOf(req[w])
      PROVE  req'[w].stage = "answered" /\ req'[w].id = i
  <2>1. req[w].op = "deleted" /\ req[w].account = a
    BY <1>2, EventsName
  <2>2. /\ Sound(req[w], clerk, users, next) /\ events' # events
        /\ req \in [Workers -> Request]
    BY DEF IInv, TypeOK, RequestsSound
  <2>3. SelectUser(w)
    BY <1>2, <2>1, <2>2 DEF SelectEmail, Insert, Update, Sound
  <2>4. /\ users[req[w].id] # NoProfile /\ users' = users
        /\ req' = [req EXCEPT ![w] = [req[w] EXCEPT !.stage = "answered"]]
    BY <2>2, <2>3 DEF SelectUser, Refuse, Untouched, Advance
  <2>5. req[w].id \in Ids /\ users[req[w].id].account = a
    BY <2>1, <2>2, <2>3, <2>4 DEF Sound, SelectUser
  <2>6. i = req[w].id
    BY <2>4, <2>5 DEF IInv, OneProfileEach
  <2>7. req'[w] = [req[w] EXCEPT !.stage = "answered"] /\ req[w] \in Request
    BY <2>2, <2>4
  <2>8. QED
    BY <2>6, <2>7 DEF Request
<1> DEFINE f == Deleted(a)
<1>3. f.account = a /\ f \in events /\ f \notin events' /\ f \notin lost'
  BY DEF Deleted
<1> HIDE DEF f
<1>4. \/ ProfilesOf(f.account) = {} /\ users' = users
      \/ \E w \in Workers :
           /\ SelectEmail(w) \/ SelectUser(w) \/ Insert(w) \/ Update(w)
           /\ f = EventOf(req[w])
  BY <1>3, WhoAnswers
<1>5. QED
  BY <1>1, <1>2, <1>3, <1>4 DEF f

(* An event answered 2xx, and not lost by a failed commit, took effect. *)
THEOREM AnsweredIsDone == Spec => AnswerMeansDone
<1>1. IInv /\ [Next]_vars =>
        [\A a \in Accounts, e \in Emails :
           LET answered == (events \ events') \ lost'
           IN  /\ Created(a, e) \in answered
                    => \E i \in Ids : users'[i].account = a \/ users'[i].email = e
               /\ Updated(a, e) \in answered
                    => \A i \in Ids : users'[i].account = a
                         => users'[i].email = e \/ \E w \in Workers : req[w].email_was = e
               /\ Deleted(a) \in answered
                    => \A i \in Ids : users'[i].account = a
                         => \E w \in Workers : req'[w].stage = "answered" /\ req'[w].id = i]_vars
  BY CreatedIsDone, UpdatedIsDone, DeletedIsDone
<1>2. QED
  BY <1>1, Invariant, PTL DEF Spec, AnswerMeansDone
=============================================================================
