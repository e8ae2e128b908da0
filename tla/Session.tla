------------------------------ MODULE Session ------------------------------
(***************************************************************************)
(* Anonymous accounts and their tokens: Register and Refresh of             *)
(* internal/service/auth.go over the users table (repository/user.go) and   *)
(* the session keys in Redis, the check every authenticated request makes   *)
(* (middleware/auth.go), the deletion of a session by a ban                 *)
(* (service/report.go) and the promotion of a user in the database.         *)
(*                                                                          *)
(* Each statement and each Redis command is one step; requests interleave   *)
(* between them and may fail at any of them, with or without effect: the    *)
(* connection is lost or the client cancels the request's context.  A hash  *)
(* stands for the one token it matches.  Time is in ticks, of which the     *)
(* times in a token keep the whole seconds.                                 *)
(***************************************************************************)
EXTENDS Integers

CONSTANTS
  Users,     \* the ids drawn by Register, one per call
  Names,     \* pseudonyms
  Slots,     \* Refresh calls that may be in flight at once
  TTL,       \* JWT.TTL
  Second,    \* the ticks in a second
  MaxTries,  \* pseudonyms Register tries (8 in the code)
  MaxTime,   \* bound: the last tick of the model
  Faults,    \* whether calls to the stores may fail
  None

VARIABLES
  now,       \* the clock
  users,     \* the users table: a row or None
  session,   \* the key session:<id> in Redis: a token's hash and its expiry
  register,  \* the Register call of a user
  refresh,   \* the Refresh call in a slot
  issued,    \* the tokens returned to clients
  promoted,  \* history: users made administrators
  disturbed  \* history: users with Refresh calls that overlapped or failed

hist == <<promoted, disturbed>>
vars == <<now, users, session, register, refresh, issued, hist>>

Token == [user : Users, name : Names, admin : BOOLEAN, iat : Nat, exp : Nat]
Row == [name : Names, hash : Token, admin : BOOLEAN]
\* A key without a time to live has None in until.
Entry == [hash : Token, until : Nat \cup {None}]

RegisterCall == [pc : {"idle", "create", "check", "store", "done", "failed"},
                 tries : Nat, token : Token \cup {None}, expiresAt : Nat, ttl : Nat]
RefreshCall == [pc : {"idle", "load", "update", "check", "store"},
                old : Token \cup {None}, new : Token \cup {None},
                expiresAt : Nat, ttl : Nat]

ASSUME SessionAssumption ==
  /\ TTL \in Nat \ {0} /\ Second \in Nat \ {0}
  /\ MaxTries \in Nat \ {0} /\ MaxTime \in Nat
  /\ Faults \in BOOLEAN
  /\ None \notin Token \cup Row \cup Entry \cup Nat

\* jwt.NewNumericDate drops what is less than a second.
NumericDate(time) == time - (time % Second)

\* Two tokens with the same claims are the same string.
sign(u, name, admin, expiresAt) ==
  [user |-> u, name |-> name, admin |-> admin,
   iat |-> NumericDate(now), exp |-> NumericDate(expiresAt)]

\* What Redis returns for the key: an entry past its time to live is gone.
Live(u) ==
  /\ session[u] # None
  /\ session[u].until = None \/ now < session[u].until

\* Mutant: the signature and the expiry of the token are all that is checked.
AcceptsSigned(t) == now < t.exp

\* middleware.Auth lets the request through.
Accepts(t) == now < t.exp /\ Live(t.user) /\ session[t.user].hash = t

\* No call of Refresh is in a slot.
Idle == [pc |-> "idle", old |-> None, new |-> None, expiresAt |-> 0, ttl |-> 0]

Init ==
  /\ now = 0
  /\ users = [u \in Users |-> None]
  /\ session = [u \in Users |-> None]
  /\ register = [u \in Users |-> [pc |-> "idle", tries |-> 0, token |-> None, expiresAt |-> 0, ttl |-> 0]]
  /\ refresh = [s \in Slots |-> Idle]
  /\ issued = {}
  /\ promoted = {}
  /\ disturbed = {}

Tick ==
  /\ now < MaxTime
  /\ now' = now + 1
  /\ UNCHANGED <<users, session, register, refresh, issued, hist>>
-----------------------------------------------------------------------------
(* Auth.storeSession: the time to live is looked at, and goes to Redis in a *)
(* later command.                                                           *)

Until(expiresAt) == expiresAt - now

\* Mutant: the time to live is not looked at.
PositiveAny(ttl) == TRUE

Positive(ttl) == ttl > 0

\* Redis keeps a key for good that is set without a positive time to live.
Set(u, t, ttl) ==
  session' = [session EXCEPT ![u] =
    [hash |-> t, until |-> IF ttl > 0 THEN now + ttl ELSE None]]
-----------------------------------------------------------------------------
(* Auth.Register.                                                          *)

\* The first turn of the loop: expiresAt is fixed, a pseudonym is drawn.
RegisterBegin(u) ==
  /\ register[u].pc = "idle"
  /\ \E n \in Names :
       register' = [register EXCEPT ![u] =
         [pc |-> "create", tries |-> 1, token |-> sign(u, n, FALSE, now + TTL),
          expiresAt |-> now + TTL, ttl |-> 0]]
  /\ UNCHANGED <<now, users, session, refresh, issued, hist>>

\* Mutant: no unique index.
TakenNever(n) == FALSE

\* The unique index on pseudonym.
Taken(n) == \E v \in Users : users[v] # None /\ users[v].name = n

Create(u) ==
  LET t == register[u].token
  IN  users' = [users EXCEPT ![u] = [name |-> t.name, hash |-> t, admin |-> FALSE]]

RegisterCreate(u) ==
  /\ register[u].pc = "create"
  /\ ~Taken(register[u].token.name)
  /\ Create(u)
  /\ register' = [register EXCEPT ![u].pc = "check"]
  /\ UNCHANGED <<now, session, refresh, issued, hist>>

\* ErrConflict: the next turn of the loop, or its end.
RegisterConflict(u) ==
  /\ register[u].pc = "create"
  /\ Taken(register[u].token.name)
  /\ \/ /\ register[u].tries < MaxTries
        /\ \E n \in Names :
             register' = [register EXCEPT
               ![u].tries = @ + 1,
               ![u].token = sign(u, n, FALSE, register[u].expiresAt)]
     \/ /\ register[u].tries = MaxTries
        /\ register' = [register EXCEPT ![u].pc = "failed"]
  /\ UNCHANGED <<now, users, session, refresh, issued, hist>>

RegisterCheck(u) ==
  LET ttl == Until(register[u].expiresAt)
  IN  /\ register[u].pc = "check"
      /\ \/ /\ Positive(ttl)
            /\ register' = [register EXCEPT ![u].pc = "store", ![u].ttl = ttl]
         \/ /\ ~Positive(ttl)
            /\ register' = [register EXCEPT ![u].pc = "failed"]
      /\ UNCHANGED <<now, users, session, refresh, issued, hist>>

RegisterStore(u) ==
  LET t == register[u].token
  IN  /\ register[u].pc = "store"
      /\ Set(u, t, register[u].ttl)
      /\ issued' = issued \cup {t}
      /\ register' = [register EXCEPT ![u].pc = "done"]
      /\ UNCHANGED <<now, users, refresh, hist>>

RegisterFail(u) ==
  /\ Faults
  /\ \/ /\ register[u].pc = "create"
        /\ UNCHANGED users \/ (~Taken(register[u].token.name) /\ Create(u))
        /\ UNCHANGED session
     \/ /\ register[u].pc = "store"
        /\ UNCHANGED session \/ Set(u, register[u].token, register[u].ttl)
        /\ UNCHANGED users
  /\ register' = [register EXCEPT ![u].pc = "failed"]
  /\ UNCHANGED <<now, refresh, issued, hist>>
-----------------------------------------------------------------------------
(* Auth.Refresh.                                                           *)

\* A Refresh of u has passed its Redis check and not ended.
Refreshing(u) == \E s \in Slots : refresh[s].pc # "idle" /\ refresh[s].old.user = u

\* parse, Get of the session and comparison of its hash; a call that fails
\* them ends here without effect.
RefreshBegin(s, t) ==
  /\ refresh[s].pc = "idle"
  /\ Accepts(t)
  /\ refresh' = [refresh EXCEPT ![s].pc = "load", ![s].old = t]
  /\ disturbed' = disturbed \cup {u \in {t.user} : Refreshing(u)}
  /\ UNCHANGED <<now, users, session, register, issued, promoted>>

\* users.GetByID, comparison with the row's hash, and the new token.
RefreshLoad(s) ==
  LET t == refresh[s].old
      row == users[t.user]
  IN  /\ refresh[s].pc = "load"
      /\ \/ /\ row # None /\ row.hash = t
            /\ refresh' = [refresh EXCEPT ![s].pc = "update",
                 ![s].new = sign(t.user, row.name, row.admin, now + TTL),
                 ![s].expiresAt = now + TTL]
         \/ /\ row = None \/ row.hash # t
            /\ refresh' = [refresh EXCEPT ![s] = Idle]
      /\ UNCHANGED <<now, users, session, register, issued, hist>>

\* Mutant: the row is written back as the request read it.
UpdateTokenWholeRow(s) ==
  LET t == refresh[s].new
  IN  users' = [users EXCEPT ![t.user] =
        [name |-> t.name, hash |-> t, admin |-> t.admin]]

\* Mutant: the UPDATE matches no row.
UpdateTokenLost(s) == UNCHANGED users

\* users.UpdateToken writes the hash (and expires_at) column only.
UpdateToken(s) ==
  LET t == refresh[s].new
  IN  users' = [users EXCEPT ![t.user].hash = t]

RefreshUpdate(s) ==
  /\ refresh[s].pc = "update"
  /\ UpdateToken(s)
  /\ refresh' = [refresh EXCEPT ![s].pc = "check"]
  /\ UNCHANGED <<now, session, register, issued, hist>>

RefreshCheck(s) ==
  LET ttl == Until(refresh[s].expiresAt)
  IN  /\ refresh[s].pc = "check"
      /\ \/ /\ Positive(ttl)
            /\ refresh' = [refresh EXCEPT ![s].pc = "store", ![s].ttl = ttl]
         \/ /\ ~Positive(ttl)
            /\ refresh' = [refresh EXCEPT ![s] = Idle]
      /\ UNCHANGED <<now, users, session, register, issued, hist>>

RefreshStore(s) ==
  LET t == refresh[s].new
  IN  /\ refresh[s].pc = "store"
      /\ Set(t.user, t, refresh[s].ttl)
      /\ issued' = issued \cup {t}
      /\ refresh' = [refresh EXCEPT ![s] = Idle]
      /\ UNCHANGED <<now, users, register, hist>>

RefreshFail(s) ==
  LET t == refresh[s].new
  IN  /\ Faults
      /\ \/ /\ refresh[s].pc = "load"
            /\ UNCHANGED <<users, session>>
         \/ /\ refresh[s].pc = "update"
            /\ UNCHANGED users \/ UpdateToken(s)
            /\ UNCHANGED session
         \/ /\ refresh[s].pc = "store"
            /\ UNCHANGED session \/ Set(t.user, t, refresh[s].ttl)
            /\ UNCHANGED users
      /\ refresh' = [refresh EXCEPT ![s] = Idle]
      /\ disturbed' = disturbed \cup {refresh[s].old.user}
      /\ UNCHANGED <<now, register, issued, promoted>>
-----------------------------------------------------------------------------
\* Mutant: the key is overwritten instead.
DelBlank(u) == session' = [session EXCEPT ![u] = [hash |-> None, until |-> now + TTL]]

Del(u) == session' = [session EXCEPT ![u] = None]

\* Report.Act with action ban on a post of u: Del of the session key.
Ban(u) ==
  /\ \E t \in issued : t.user = u
  /\ Del(u)
  /\ UNCHANGED <<now, users, register, refresh, issued, promoted, disturbed>>

\* UPDATE users SET is_admin = true (scripts/check_endpoints.sh).
Promote(u) ==
  /\ users[u] # None
  /\ users' = [users EXCEPT ![u].admin = TRUE]
  /\ promoted' = promoted \cup {u}
  /\ UNCHANGED <<now, session, register, refresh, issued, disturbed>>

Next ==
  \/ Tick
  \/ \E u \in Users :
       \/ RegisterBegin(u) \/ RegisterCreate(u) \/ RegisterConflict(u)
       \/ RegisterCheck(u) \/ RegisterStore(u) \/ RegisterFail(u)
       \/ Ban(u) \/ Promote(u)
  \/ \E s \in Slots :
       \/ \E t \in issued : RefreshBegin(s, t)
       \/ RefreshLoad(s) \/ RefreshUpdate(s) \/ RefreshCheck(s)
       \/ RefreshStore(s) \/ RefreshFail(s)

Spec == Init /\ [][Next]_vars
-----------------------------------------------------------------------------
TypeOK ==
  /\ now \in Nat
  /\ users \in [Users -> Row \cup {None}]
  /\ session \in [Users -> Entry \cup {None}]
  /\ register \in [Users -> RegisterCall]
  /\ refresh \in [Slots -> RefreshCall]
  /\ issued \in SUBSET Token
  /\ promoted \in SUBSET Users
  /\ disturbed \in SUBSET Users

(***************************************************************************)
(* The pseudonym a token carries, under which its bearer posts, is the one  *)
(* the users table holds for the bearer and for nobody else, whatever       *)
(* collisions Register met; middleware.Auth trusts the token's copy.        *)
(***************************************************************************)
TokenNamesOwner ==
  \A t \in issued :
    /\ users[t.user] # None
    /\ users[t.user].name = t.name
    /\ \A v \in Users \ {t.user} : users[v] # None => users[v].name # t.name

(***************************************************************************)
(* A session belongs to an account that exists, whichever statement a       *)
(* Register or a Refresh has stopped at; and it ends: within a lifetime,    *)
(* however long a call has stalled before or after it looked at the clock,  *)
(* but, unless it is deleted, not before the token it admits.               *)
(***************************************************************************)
SessionBacked ==
  \A u \in Users : session[u] # None =>
    /\ users[u] # None
    /\ session[u].hash.user = u
    /\ session[u].hash.name = users[u].name
    /\ session[u].until # None
    /\ session[u].hash.exp <= session[u].until
    /\ session[u].until <= now + TTL

(***************************************************************************)
(* Promotion is never undone by a Refresh that read the row before it, and  *)
(* no token claims more than the database says.                             *)
(***************************************************************************)
PromotionSticks ==
  /\ \A u \in promoted : users[u].admin
  /\ \A t \in issued : t.admin => users[t.user].admin

\* A user who has held a token has no session, and no Refresh of theirs is
\* past its Redis check.
Gone(u) ==
  /\ \E t \in issued : t.user = u
  /\ ~Live(u)
  /\ ~Refreshing(u)

(***************************************************************************)
(* A session that has ended, by a ban or by its expiry, does not come back: *)
(* no token, however fresh its own expiry, and no state of the users table  *)
(* lets its bearer in again.  A Refresh that passed the Redis check before  *)
(* the session ended is excluded: it may still store a new session.        *)
(***************************************************************************)
GoneStaysGone == [][\A u \in Users : Gone(u) => Gone(u)']_vars

Rotatable(t) == Accepts(t) /\ ~Refreshing(t.user) => users[t.user].hash = t

(***************************************************************************)
(* A token that authenticates its bearer can also be rotated, once the     *)
(* bearer has no Refresh under way.                                        *)
(***************************************************************************)
CurrentTokenRefreshable == \A t \in issued : Rotatable(t)

(***************************************************************************)
(* That much does hold for a user whose Refresh calls never overlapped and *)
(* never failed between the two stores, whatever happens to other users,   *)
(* to the session (a ban, its expiry) and in the database.                 *)
(***************************************************************************)
UndisturbedRefreshable ==
  \A t \in issued : t.user \notin disturbed => Rotatable(t)

\* What the users table and the tokens say of the accounts.
Roster == {<<u, users[u].name>> : u \in {v \in Users : users[v] # None}}
Moderators == {u \in Users : users[u] # None /\ users[u].admin}
Cards == {[user |-> t.user, name |-> t.name, admin |-> t.admin] : t \in issued}
Inside == {u \in Users : Live(u)}
Renewing == {u \in Users : Refreshing(u)}

Club == INSTANCE Membership WITH
  roster <- Roster, moderators <- Moderators, cards <- Cards,
  inside <- Inside, renewing <- Renewing

(***************************************************************************)
(* The statements of Register and Refresh, over two stores that no         *)
(* transaction spans, keep what module Membership promises, however they   *)
(* interleave, fail or stall, and whatever expires or is banned meanwhile. *)
(***************************************************************************)
ImplementsMembership == Club!Spec
=============================================================================
