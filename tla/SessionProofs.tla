--------------------------- MODULE SessionProofs ---------------------------
(***************************************************************************)
(* Proofs about Session, for every set of users, pseudonyms and slots,      *)
(* every lifetime and every bound, with and without failing stores.         *)
(***************************************************************************)
EXTENDS Session, TLAPS

USE SessionAssumption DEF SessionAssumption

(* The effects of the statements, field by field.                          *)

LEMMA DateType == \A e \in Nat : NumericDate(e) \in Nat /\ NumericDate(e) <= e
<1> SUFFICES ASSUME NEW e \in Nat PROVE NumericDate(e) \in Nat /\ NumericDate(e) <= e
  OBVIOUS
<1>1. Second \in Nat /\ Second > 0
  OBVIOUS
<1>2. (e % Second) \in Nat /\ (e % Second) <= e
  BY <1>1, SMT
<1> QED
  BY <1>2 DEF NumericDate

LEMMA SignType ==
  ASSUME NEW u \in Users, NEW n \in Names, NEW a \in BOOLEAN, NEW e \in Nat, now \in Nat
  PROVE  /\ sign(u, n, a, e) \in Token
         /\ sign(u, n, a, e).user = u /\ sign(u, n, a, e).name = n
         /\ sign(u, n, a, e).admin = a /\ sign(u, n, a, e).exp <= e
BY DateType DEF sign, Token

LEMMA SignPlain ==
  ASSUME NEW u \in Users, NEW n \in Names, NEW e \in Nat, now \in Nat
  PROVE  /\ sign(u, n, FALSE, e) \in Token
         /\ sign(u, n, FALSE, e).user = u
         /\ ~sign(u, n, FALSE, e).admin
         /\ sign(u, n, FALSE, e).exp <= e
BY DateType DEF sign, Token

LEMMA TokenFields ==
  ASSUME NEW t \in Token
  PROVE  /\ t # None
         /\ t.user \in Users /\ t.name \in Names /\ t.admin \in BOOLEAN /\ t.exp \in Nat
BY DEF Token

LEMMA CreateEffect ==
  ASSUME TypeOK, NEW u \in Users, register[u].token \in Token, Create(u)
  PROVE  /\ users' \in [Users -> Row \cup {None}]
         /\ users'[u] # None
         /\ users'[u].name = register[u].token.name
         /\ users'[u].admin = FALSE
         /\ \A v \in Users \ {u} : users'[v] = users[v]
<1> DEFINE row == [name |-> register[u].token.name, hash |-> register[u].token, admin |-> FALSE]
<1>1. row \in Row
  BY TokenFields DEF Row
<1>2. users' = [users EXCEPT ![u] = row]
  BY DEF Create
<1>3. row # None
  BY <1>1
<1> QED
  BY <1>1, <1>2, <1>3 DEF TypeOK

LEMMA UpdateEffect ==
  ASSUME TypeOK, NEW s \in Slots, refresh[s].new \in Token,
         users[refresh[s].new.user] # None, UpdateToken(s)
  PROVE  /\ users' \in [Users -> Row \cup {None}]
         /\ \A v \in Users : users[v] # None =>
              users'[v] # None /\ users'[v].name = users[v].name /\ users'[v].admin = users[v].admin
         /\ \A v \in Users : users[v] = None => users'[v] = None
<1> DEFINE u == refresh[s].new.user
           row == [users[u] EXCEPT !.hash = refresh[s].new]
<1>1. u \in Users /\ users[u] \in Row
  BY TokenFields DEF TypeOK
<1>2. row \in Row /\ row.name = users[u].name /\ row.admin = users[u].admin
  BY <1>1 DEF Row
<1>3. users' = [users EXCEPT ![u] = row]
  BY DEF UpdateToken
<1>4. row # None
  BY <1>2
<1> HIDE DEF row
<1> QED
  BY <1>1, <1>2, <1>3, <1>4 DEF TypeOK

LEMMA PromoteEffect ==
  ASSUME TypeOK, NEW u \in Users, Promote(u)
  PROVE  /\ users' \in [Users -> Row \cup {None}]
         /\ users'[u].admin
         /\ \A v \in Users : users[v] # None =>
              /\ users'[v] # None /\ users'[v].name = users[v].name
              /\ users[v].admin => users'[v].admin
         /\ \A v \in Users : users[v] = None => users'[v] = None
<1> DEFINE row == [users[u] EXCEPT !.admin = TRUE]
<1>1. users[u] \in Row /\ users[u] # None
  BY DEF TypeOK, Promote
<1>2. row \in Row /\ row.name = users[u].name /\ row.admin = TRUE
  BY <1>1 DEF Row
<1>3. users' = [users EXCEPT ![u] = row]
  BY DEF Promote
<1>4. row # None
  BY <1>2
<1> HIDE DEF row
<1> QED
  BY <1>1, <1>2, <1>3, <1>4 DEF TypeOK

LEMMA SetEffect ==
  ASSUME TypeOK, NEW u \in Users, NEW t \in Token, NEW ttl \in Nat, Set(u, t, ttl)
  PROVE  /\ session' \in [Users -> Entry \cup {None}]
         /\ session'[u] # None
         /\ session'[u].hash = t
         /\ session'[u].until = IF ttl > 0 THEN now + ttl ELSE None
         /\ \A v \in Users \ {u} : session'[v] = session[v]
<1> DEFINE e == [hash |-> t, until |-> IF ttl > 0 THEN now + ttl ELSE None]
<1>1. e \in Entry
  BY DEF Entry, TypeOK
<1>2. session' = [session EXCEPT ![u] = e]
  BY DEF Set
<1>3. e # None
  BY <1>1
<1> QED
  BY <1>1, <1>2, <1>3 DEF TypeOK

LEMMA DelEffect ==
  ASSUME TypeOK, NEW u \in Users, Del(u)
  PROVE  /\ session' \in [Users -> Entry \cup {None}]
         /\ session'[u] = None
         /\ \A v \in Users \ {u} : session'[v] = session[v]
BY DEF TypeOK, Del
-----------------------------------------------------------------------------
(* The inductive invariant.                                                *)

\* How far a registration has come, and what it has left in the table.
Accounts ==
  /\ \A u \in Users :
       /\ register[u].pc \in {"create", "check", "store", "done"} =>
            /\ register[u].token \in Token
            /\ register[u].token.user = u
            /\ ~register[u].token.admin
       /\ register[u].pc \in {"idle", "create"} => users[u] = None
       /\ register[u].pc \in {"check", "store", "done"} =>
            users[u] # None /\ users[u].name = register[u].token.name
  /\ \A u, v \in Users :
       u # v /\ users[u] # None /\ users[v] # None => users[u].name # users[v].name

\* The token claims what the table says, or less.
Known(t) ==
  /\ users[t.user] # None
  /\ users[t.user].name = t.name
  /\ t.admin => users[t.user].admin

\* Every token there is, in a client's hands, in a request or in Redis.
Tokens ==
  /\ \A t \in issued : Known(t) /\ register[t.user].pc = "done"
  /\ \A s \in Slots :
       /\ refresh[s].pc # "idle" => refresh[s].old \in issued
       /\ refresh[s].pc \in {"update", "check", "store"} =>
            /\ refresh[s].new \in Token
            /\ Known(refresh[s].new)
            /\ refresh[s].new.user = refresh[s].old.user
  /\ \A u \in Users : session[u] # None =>
       /\ Known(session[u].hash)
       /\ session[u].hash.user = u

Promoted == \A u \in promoted : users[u] # None /\ users[u].admin

IInv == TypeOK /\ Accounts /\ Tokens /\ Promoted

LEMMA InitIInv == Init => IInv
<1> SUFFICES ASSUME Init PROVE IInv
  OBVIOUS
<1>1. TypeOK
  BY DEF Init, TypeOK, RegisterCall, RefreshCall, Idle
<1>2. Accounts
  BY DEF Init, Accounts
<1>3. Tokens
  BY DEF Init, Tokens, Idle
<1> QED
  BY <1>1, <1>2, <1>3 DEF IInv, Init, Promoted
-----------------------------------------------------------------------------
(* What is common to all steps: rows of the users table do not vanish, keep *)
(* their names and do not lose the administrator's mark.                    *)

Grows ==
  \A v \in Users : users[v] # None =>
    /\ users'[v] # None
    /\ users'[v].name = users[v].name
    /\ users[v].admin => users'[v].admin

KnownNext(t) ==
  /\ users'[t.user] # None
  /\ users'[t.user].name = t.name
  /\ t.admin => users'[t.user].admin

LEMMA KnownStays ==
  ASSUME Grows, NEW t \in Token, Known(t)
  PROVE  KnownNext(t)
BY TokenFields DEF Grows, Known, KnownNext

LEMMA TokensFrame ==
  ASSUME IInv, Grows,
         \A u \in Users : register[u].pc = "done" => register'[u].pc = "done",
         issued \subseteq issued',
         \A t \in issued' : t \in issued \/ (KnownNext(t) /\ register'[t.user].pc = "done"),
         \A s \in Slots :
           \/ refresh'[s] = refresh[s]
           \/ refresh'[s].pc = "idle"
           \/ /\ refresh'[s].old \in issued
              /\ refresh'[s].pc = "load"
           \/ /\ refresh'[s].old \in issued
              /\ refresh'[s].new \in Token
              /\ KnownNext(refresh'[s].new)
              /\ refresh'[s].new.user = refresh'[s].old.user,
         \A u \in Users :
           \/ session'[u] = session[u]
           \/ session'[u] = None
           \/ /\ KnownNext(session'[u].hash)
              /\ session'[u].hash.user = u
  PROVE  Tokens'
<1>1. \A t \in issued' : KnownNext(t) /\ register'[t.user].pc = "done"
  <2> SUFFICES ASSUME NEW t \in issued' PROVE KnownNext(t) /\ register'[t.user].pc = "done"
    OBVIOUS
  <2>1. CASE t \in issued
    <3>1. t \in Token /\ Known(t) /\ register[t.user].pc = "done"
      BY <2>1 DEF IInv, TypeOK, Tokens
    <3> QED
      BY <3>1, KnownStays, TokenFields
  <2> QED
    BY <2>1
<1>2. ASSUME NEW s \in Slots
      PROVE  /\ refresh'[s].pc # "idle" => refresh'[s].old \in issued'
             /\ refresh'[s].pc \in {"update", "check", "store"} =>
                  /\ refresh'[s].new \in Token
                  /\ KnownNext(refresh'[s].new)
                  /\ refresh'[s].new.user = refresh'[s].old.user
  <2>1. CASE refresh'[s] = refresh[s]
    <3>1. refresh[s].pc \in {"update", "check", "store"} => KnownNext(refresh[s].new)
      BY KnownStays DEF IInv, Tokens
    <3> QED
      BY <2>1, <3>1 DEF IInv, Tokens
  <2> QED
    BY <2>1
<1>3. ASSUME NEW u \in Users, session'[u] # None
      PROVE  /\ KnownNext(session'[u].hash)
             /\ session'[u].hash.user = u
  <2>1. CASE session'[u] = session[u]
    <3>1. session[u].hash \in Token
      BY <1>3, <2>1 DEF IInv, TypeOK, Entry
    <3> QED
      BY <1>3, <2>1, <3>1, KnownStays DEF IInv, Tokens
  <2> QED
    BY <1>3, <2>1
<1> QED
  BY <1>1, <1>2, <1>3 DEF Tokens, Known, KnownNext

\* The table keeps its rows and their names, one call of Register moves on.
LEMMA AccountsFrame ==
  ASSUME IInv, Grows,
         \A v \in Users : users[v] = None => users'[v] = None,
         \A v \in Users :
           \/ register'[v] = register[v]
           \/ register'[v].pc = "failed"
           \/ /\ register'[v].pc = "create" /\ users[v] = None
              /\ register'[v].token \in Token
              /\ register'[v].token.user = v /\ ~register'[v].token.admin
           \/ /\ register[v].pc \in {"check", "store"}
              /\ register'[v].pc \in {"store", "done"}
              /\ register'[v].token = register[v].token
  PROVE  Accounts'
<1>1. ASSUME NEW v \in Users
      PROVE  /\ register'[v].pc \in {"create", "check", "store", "done"} =>
                  /\ register'[v].token \in Token
                  /\ register'[v].token.user = v
                  /\ ~register'[v].token.admin
             /\ register'[v].pc \in {"idle", "create"} => users'[v] = None
             /\ register'[v].pc \in {"check", "store", "done"} =>
                  users'[v] # None /\ users'[v].name = register'[v].token.name
  BY DEF IInv, Accounts, Grows
<1>2. ASSUME NEW v \in Users, NEW w \in Users, v # w, users'[v] # None, users'[w] # None
      PROVE  users'[v].name # users'[w].name
  BY <1>2 DEF IInv, Accounts, Grows
<1> QED
  BY <1>1, <1>2 DEF Accounts

LEMMA PromotedFrame ==
  ASSUME IInv, Grows, promoted' = promoted
  PROVE  Promoted'
BY DEF IInv, Promoted, Grows, TypeOK

LEMMA SameUsers == ASSUME users' = users PROVE Grows
BY DEF Grows
-----------------------------------------------------------------------------
(* One lemma per action.                                                   *)

LEMMA StepTick ==
  ASSUME IInv, Tick \/ UNCHANGED vars
  PROVE  IInv'
<1>1. now' \in Nat /\ UNCHANGED <<users, session, register, refresh, issued, hist>>
  BY DEF Tick, vars, IInv, TypeOK
<1>2. Grows
  BY <1>1, SameUsers
<1> QED
  BY <1>1, <1>2, TokensFrame, AccountsFrame, PromotedFrame DEF IInv, TypeOK, hist

LEMMA StepBegin ==
  ASSUME IInv, NEW u \in Users, RegisterBegin(u)
  PROVE  IInv'
<1>1. PICK n \in Names : register' = [register EXCEPT ![u] =
          [pc |-> "create", tries |-> 1, token |-> sign(u, n, FALSE, now + TTL),
           expiresAt |-> now + TTL, ttl |-> 0]]
  BY DEF RegisterBegin
<1> DEFINE t == sign(u, n, FALSE, now + TTL)
<1>2. now \in Nat /\ now + TTL \in Nat
  BY DEF IInv, TypeOK
<1>3. t \in Token /\ t.user = u /\ ~t.admin
  BY <1>2, SignPlain
<1> HIDE DEF t
<1>4. /\ register' \in [Users -> RegisterCall]
      /\ register'[u].pc = "create" /\ register'[u].token = t
      /\ \A v \in Users \ {u} : register'[v] = register[v]
  <2>1. [pc |-> "create", tries |-> 1, token |-> t, expiresAt |-> now + TTL, ttl |-> 0]
          \in RegisterCall
    BY <1>2, <1>3 DEF RegisterCall
  <2> QED
    BY <1>1, <1>2, <1>3, <2>1 DEF IInv, TypeOK, t
<1>5. Grows
  BY SameUsers DEF RegisterBegin
<1>6. register[u].pc = "idle" /\ users[u] = None
  BY DEF RegisterBegin, IInv, Accounts
<1>7. UNCHANGED <<now, users, session, refresh, issued, hist>>
  BY DEF RegisterBegin
<1>8. TypeOK'
  BY <1>4, <1>7 DEF IInv, TypeOK, hist
<1> QED
  BY <1>3, <1>4, <1>5, <1>6, <1>7, <1>8, TokensFrame, AccountsFrame, PromotedFrame
     DEF IInv, TypeOK, hist

LEMMA StepConflict ==
  ASSUME IInv, NEW u \in Users, RegisterConflict(u)
  PROVE  IInv'
<1>1. register[u].pc = "create" /\ users[u] = None
  BY DEF RegisterConflict, IInv, Accounts
<1>2. register \in [Users -> RegisterCall] /\ register[u].expiresAt \in Nat /\ now \in Nat
  BY DEF IInv, TypeOK, RegisterCall
<1>3. /\ register' \in [Users -> RegisterCall]
      /\ \/ register'[u].pc = "failed"
         \/ /\ register'[u].pc = "create"
            /\ register'[u].token \in Token
            /\ register'[u].token.user = u /\ ~register'[u].token.admin
      /\ \A v \in Users \ {u} : register'[v] = register[v]
  <2>1. CASE register' = [register EXCEPT ![u].pc = "failed"]
    BY <1>2, <2>1 DEF RegisterCall
  <2>2. ASSUME NEW n \in Names, register' = [register EXCEPT
               ![u].tries = @ + 1, ![u].token = sign(u, n, FALSE, register[u].expiresAt)]
        PROVE  <1>3!:
    <3> DEFINE t == sign(u, n, FALSE, register[u].expiresAt)
    <3>1. t \in Token /\ t.user = u /\ ~t.admin
      BY <1>2, SignPlain
    <3> HIDE DEF t
    <3>2. register' = [register EXCEPT ![u].tries = @ + 1, ![u].token = t]
      BY <2>2 DEF t
    <3>3. [register[u] EXCEPT !.tries = @ + 1, !.token = t] \in RegisterCall
      <4>1. register[u] \in RegisterCall /\ register[u].tries + 1 \in Nat
        BY <1>2 DEF RegisterCall
      <4> DEFINE k == register[u].tries + 1
      <4> HIDE DEF k
      <4>2. [register[u] EXCEPT !.tries = k, !.token = t] \in RegisterCall
        BY <3>1, <4>1 DEF RegisterCall, k
      <4> QED
        BY <4>1, <4>2 DEF k, RegisterCall
    <3>4. register' = [register EXCEPT ![u] = [register[u] EXCEPT !.tries = @ + 1, !.token = t]]
      BY <1>2, <3>2
    <3>5. register' \in [Users -> RegisterCall] /\ \A v \in Users \ {u} : register'[v] = register[v]
      BY <1>2, <3>3, <3>4
    <3>6. register'[u].pc = "create" /\ register'[u].token = t
      BY <1>1, <1>2, <3>4 DEF RegisterCall
    <3> QED
      BY <3>1, <3>5, <3>6
  <2> QED
    BY <2>1, <2>2 DEF RegisterConflict
<1>4. Grows
  BY SameUsers DEF RegisterConflict
<1> QED
  BY <1>1, <1>3, <1>4, TokensFrame, AccountsFrame, PromotedFrame
     DEF RegisterConflict, IInv, TypeOK, hist

\* The row of a new account: its pseudonym was free.
LEMMA CreateAccounts ==
  ASSUME IInv, NEW u \in Users, register[u].pc = "create",
         ~Taken(register[u].token.name), Create(u),
         register' = [register EXCEPT ![u].pc = "check"]
           \/ register' = [register EXCEPT ![u].pc = "failed"]
  PROVE  /\ register' \in [Users -> RegisterCall]
         /\ users' \in [Users -> Row \cup {None}]
         /\ \A v \in Users : register[v].pc = "done" => register'[v].pc = "done"
         /\ Grows
         /\ Accounts'
<1>1. register[u].token \in Token /\ users[u] = None
  BY DEF IInv, Accounts
<1>2. /\ users' \in [Users -> Row \cup {None}]
      /\ users'[u] # None
      /\ users'[u].name = register[u].token.name
      /\ \A v \in Users \ {u} : users'[v] = users[v]
  BY <1>1, CreateEffect DEF IInv
<1>3. /\ register' \in [Users -> RegisterCall]
      /\ register'[u].pc \in {"check", "failed"}
      /\ register'[u].token = register[u].token
      /\ \A v \in Users \ {u} : register'[v] = register[v]
  <2>1. register \in [Users -> RegisterCall] /\ register[u] \in RegisterCall
    BY DEF IInv, TypeOK
  <2>2. CASE register' = [register EXCEPT ![u].pc = "check"]
    BY <2>1, <2>2 DEF RegisterCall
  <2>3. CASE register' = [register EXCEPT ![u].pc = "failed"]
    BY <2>1, <2>3 DEF RegisterCall
  <2> QED
    BY <2>2, <2>3
<1>4. \A v \in Users \ {u} : users[v] # None => users[v].name # register[u].token.name
  BY DEF Taken
<1>5. Grows
  BY <1>1, <1>2 DEF Grows
<1>6. Accounts'
  <2>1. ASSUME NEW v \in Users
        PROVE  /\ register'[v].pc \in {"create", "check", "store", "done"} =>
                    /\ register'[v].token \in Token
                    /\ register'[v].token.user = v
                    /\ ~register'[v].token.admin
               /\ register'[v].pc \in {"idle", "create"} => users'[v] = None
               /\ register'[v].pc \in {"check", "store", "done"} =>
                    users'[v] # None /\ users'[v].name = register'[v].token.name
    <3>1. CASE v = u
      BY <3>1, <1>2, <1>3 DEF IInv, Accounts
    <3>2. CASE v # u
      BY <3>2, <1>2, <1>3 DEF IInv, Accounts
    <3> QED
      BY <3>1, <3>2
  <2>2. ASSUME NEW v \in Users, NEW w \in Users, v # w, users'[v] # None, users'[w] # None
        PROVE  users'[v].name # users'[w].name
    BY <2>2, <1>2, <1>4 DEF IInv, Accounts
  <2> QED
    BY <2>1, <2>2 DEF Accounts
<1> QED
  BY <1>2, <1>3, <1>5, <1>6

LEMMA StepCreate ==
  ASSUME IInv, NEW u \in Users, RegisterCreate(u)
  PROVE  IInv'
<1>1. /\ register' \in [Users -> RegisterCall]
      /\ users' \in [Users -> Row \cup {None}]
      /\ \A v \in Users : register[v].pc = "done" => register'[v].pc = "done"
      /\ Grows
      /\ Accounts'
  BY CreateAccounts DEF RegisterCreate
<1> QED
  BY <1>1, TokensFrame, PromotedFrame DEF RegisterCreate, IInv, TypeOK, hist

LEMMA StepRegisterCheck ==
  ASSUME IInv, NEW u \in Users, RegisterCheck(u)
  PROVE  IInv'
<1> DEFINE ttl == Until(register[u].expiresAt)
<1>1. register \in [Users -> RegisterCall] /\ register[u] \in RegisterCall /\ now \in Nat
  BY DEF IInv, TypeOK
<1>2. register[u].pc = "check" /\ UNCHANGED <<now, users, session, refresh, issued, hist>>
  BY DEF RegisterCheck
<1>3. /\ register' \in [Users -> RegisterCall]
      /\ register'[u].pc \in {"store", "failed"}
      /\ register'[u].token = register[u].token
      /\ \A v \in Users \ {u} : register'[v] = register[v]
  <2>1. ASSUME Positive(ttl), register' = [register EXCEPT ![u].pc = "store", ![u].ttl = ttl]
        PROVE  <1>3!:
    <3>1. ttl \in Nat
      BY <1>1, <2>1 DEF Positive, Until, RegisterCall
    <3> HIDE DEF ttl
    <3> QED
      BY <1>1, <2>1, <3>1 DEF RegisterCall
  <2>2. CASE register' = [register EXCEPT ![u].pc = "failed"]
    BY <1>1, <2>2 DEF RegisterCall
  <2> QED
    BY <2>1, <2>2 DEF RegisterCheck
<1>4. Grows
  BY <1>2, SameUsers
<1> QED
  BY <1>2, <1>3, <1>4, TokensFrame, AccountsFrame, PromotedFrame DEF IInv, TypeOK, hist

\* The call of Register in state "store" moves on, and may store its session.
LEMMA StepStored ==
  ASSUME IInv, NEW u \in Users, register[u].pc = "store",
         UNCHANGED <<now, users, refresh, hist>>,
         \/ register' = [register EXCEPT ![u].pc = "done"]
         \/ register' = [register EXCEPT ![u].pc = "failed"],
         UNCHANGED session \/ Set(u, register[u].token, register[u].ttl),
         \/ UNCHANGED issued
         \/ /\ issued' = issued \cup {register[u].token}
            /\ register' = [register EXCEPT ![u].pc = "done"]
  PROVE  IInv'
<1> DEFINE t == register[u].token
<1>1. t \in Token /\ t.user = u /\ Known(t)
  BY DEF IInv, Accounts, Known
<1>2. Grows
  BY SameUsers
<1>3. KnownNext(t)
  BY <1>1, <1>2, KnownStays
<1>4. /\ register' \in [Users -> RegisterCall]
      /\ register'[u].pc \in {"done", "failed"}
      /\ register'[u].token = t
      /\ issued' # issued => register'[u].pc = "done"
      /\ \A v \in Users \ {u} : register'[v] = register[v]
  BY DEF IInv, TypeOK, RegisterCall
<1>5. /\ session' \in [Users -> Entry \cup {None}]
      /\ \A v \in Users : session'[v] = session[v] \/
           (v = u /\ session'[u].hash = t)
  <2>1. register[u].ttl \in Nat
    BY DEF IInv, TypeOK, RegisterCall
  <2> QED
    BY <1>1, <2>1, SetEffect DEF IInv, TypeOK
<1>6. issued' \in SUBSET Token /\ issued \subseteq issued' /\ issued' \subseteq issued \cup {t}
  BY <1>1 DEF IInv, TypeOK
<1> HIDE DEF t
<1>7. Accounts'
  BY <1>2, <1>4, AccountsFrame DEF t
<1>8. Tokens'
  BY <1>1, <1>2, <1>3, <1>4, <1>5, <1>6, TokensFrame
<1> QED
  BY <1>2, <1>4, <1>5, <1>6, <1>7, <1>8, PromotedFrame DEF IInv, TypeOK, hist

LEMMA StepStore ==
  ASSUME IInv, NEW u \in Users, RegisterStore(u)
  PROVE  IInv'
BY StepStored DEF RegisterStore

LEMMA StepRegisterFail ==
  ASSUME IInv, NEW u \in Users, RegisterFail(u)
  PROVE  IInv'
<1>1. CASE register[u].pc = "store"
  BY <1>1, StepStored DEF RegisterFail
<1>2. CASE register[u].pc = "create" /\ UNCHANGED users
  <2>1. /\ register' \in [Users -> RegisterCall]
        /\ register'[u].pc = "failed"
        /\ \A v \in Users \ {u} : register'[v] = register[v]
    BY DEF RegisterFail, IInv, TypeOK, RegisterCall
  <2>2. Grows
    BY <1>2, SameUsers
  <2>3. UNCHANGED <<now, users, session, refresh, issued, hist>>
    BY <1>2 DEF RegisterFail
  <2> QED
    BY <1>2, <2>1, <2>2, <2>3, TokensFrame, AccountsFrame, PromotedFrame
       DEF IInv, TypeOK, hist
<1>3. CASE register[u].pc = "create" /\ ~Taken(register[u].token.name) /\ Create(u)
  <2>1. register' = [register EXCEPT ![u].pc = "failed"]
        /\ UNCHANGED <<now, session, refresh, issued, hist>>
    BY <1>3 DEF RegisterFail
  <2>2. /\ register' \in [Users -> RegisterCall]
        /\ users' \in [Users -> Row \cup {None}]
        /\ \A v \in Users : register[v].pc = "done" => register'[v].pc = "done"
        /\ Grows
        /\ Accounts'
    BY <1>3, <2>1, CreateAccounts
  <2> QED
    BY <2>1, <2>2, TokensFrame, PromotedFrame DEF IInv, TypeOK, hist
<1> QED
  BY <1>1, <1>2, <1>3 DEF RegisterFail

LEMMA IdleType == Idle \in RefreshCall /\ Idle.pc = "idle"
BY DEF Idle, RefreshCall

LEMMA StepRefreshBegin ==
  ASSUME IInv, NEW s \in Slots, NEW t \in issued, RefreshBegin(s, t)
  PROVE  IInv'
<1>1. /\ refresh' \in [Slots -> RefreshCall]
      /\ refresh'[s].pc = "load" /\ refresh'[s].old = t
      /\ \A r \in Slots \ {s} : refresh'[r] = refresh[r]
  BY DEF RefreshBegin, IInv, TypeOK, RefreshCall
<1>2. disturbed' \in SUBSET Users
  <2>1. t.user \in Users
    BY TokenFields DEF IInv, TypeOK
  <2> QED
    BY <2>1 DEF RefreshBegin, IInv, TypeOK
<1>3. Grows
  BY SameUsers DEF RefreshBegin
<1>4. UNCHANGED <<now, users, session, register, issued, promoted>>
  BY DEF RefreshBegin
<1> QED
  BY <1>1, <1>2, <1>3, <1>4, TokensFrame, AccountsFrame, PromotedFrame
     DEF IInv, TypeOK

LEMMA StepLoad ==
  ASSUME IInv, NEW s \in Slots, RefreshLoad(s)
  PROVE  IInv'
<1> DEFINE t == refresh[s].old
           u == t.user
           n == sign(u, users[u].name, users[u].admin, now + TTL)
<1>1. t \in issued /\ t \in Token /\ u \in Users
  BY TokenFields DEF RefreshLoad, IInv, Tokens, TypeOK
<1>2. Grows
  BY SameUsers DEF RefreshLoad
<1>3. /\ refresh' \in [Slots -> RefreshCall]
      /\ \A r \in Slots \ {s} : refresh'[r] = refresh[r]
      /\ \/ refresh'[s].pc = "idle"
         \/ /\ refresh'[s].old = t
            /\ refresh'[s].new \in Token
            /\ KnownNext(refresh'[s].new)
            /\ refresh'[s].new.user = t.user
  <2>1. CASE refresh' = [refresh EXCEPT ![s] = Idle]
    BY <2>1, IdleType DEF IInv, TypeOK
  <2>2. CASE /\ users[u] # None
             /\ refresh' = [refresh EXCEPT ![s].pc = "update", ![s].new = n,
                  ![s].expiresAt = now + TTL]
    <3>1. users[u] \in Row /\ users[u].name \in Names /\ users[u].admin \in BOOLEAN
      BY <1>1, <2>2 DEF IInv, TypeOK, Row
    <3>2. now \in Nat /\ now + TTL \in Nat
      BY DEF IInv, TypeOK
    <3>3. n \in Token /\ n.user = u /\ n.name = users[u].name /\ n.admin = users[u].admin
      BY <1>1, <3>1, <3>2, SignType
    <3>4. users' = users
      BY DEF RefreshLoad
    <3>5. KnownNext(n)
      BY <2>2, <3>3, <3>4 DEF KnownNext
    <3> HIDE DEF n
    <3>6. /\ refresh' \in [Slots -> RefreshCall]
          /\ refresh'[s].old = t /\ refresh'[s].new = n
          /\ \A r \in Slots \ {s} : refresh'[r] = refresh[r]
      <4>1. refresh \in [Slots -> RefreshCall]
        BY DEF IInv, TypeOK
      <4>2. [refresh[s] EXCEPT !.pc = "update", !.new = n, !.expiresAt = now + TTL]
              \in RefreshCall
        BY <3>2, <3>3, <4>1 DEF RefreshCall
      <4>3. refresh' = [refresh EXCEPT ![s] =
              [refresh[s] EXCEPT !.pc = "update", !.new = n, !.expiresAt = now + TTL]]
        BY <2>2, <4>1
      <4>4. refresh' \in [Slots -> RefreshCall] /\ \A r \in Slots \ {s} : refresh'[r] = refresh[r]
        BY <4>1, <4>2, <4>3
      <4> QED
        BY <4>1, <4>2, <4>3, <4>4 DEF RefreshCall
    <3> QED
      BY <3>3, <3>5, <3>6
  <2> QED
    BY <2>1, <2>2 DEF RefreshLoad
<1>4. UNCHANGED <<now, users, session, register, issued, hist>>
  BY DEF RefreshLoad
<1> QED
  BY <1>1, <1>2, <1>3, <1>4, TokensFrame, AccountsFrame, PromotedFrame
     DEF IInv, TypeOK, hist

\* The UPDATE of a Refresh, whatever the call does next.
LEMMA StepUpdated ==
  ASSUME IInv, NEW s \in Slots, refresh[s].pc = "update", UpdateToken(s),
         UNCHANGED <<now, session, register, issued, promoted>>,
         disturbed' \in SUBSET Users,
         \/ refresh' = [refresh EXCEPT ![s].pc = "check"]
         \/ refresh' = [refresh EXCEPT ![s] = Idle]
  PROVE  IInv'
<1>1. /\ refresh[s].old \in issued
      /\ refresh[s].new \in Token
      /\ Known(refresh[s].new)
      /\ refresh[s].new.user = refresh[s].old.user
  BY DEF IInv, Tokens
<1>2. /\ users' \in [Users -> Row \cup {None}]
      /\ Grows
      /\ \A v \in Users : users[v] = None => users'[v] = None
  BY <1>1, UpdateEffect DEF IInv, Known, Grows
<1>3. KnownNext(refresh[s].new)
  BY <1>1, <1>2, KnownStays
<1>4. /\ refresh' \in [Slots -> RefreshCall]
      /\ \A r \in Slots \ {s} : refresh'[r] = refresh[r]
      /\ \/ refresh'[s].pc = "idle"
         \/ refresh'[s].old = refresh[s].old /\ refresh'[s].new = refresh[s].new
  BY IdleType DEF IInv, TypeOK, RefreshCall
<1> QED
  BY <1>1, <1>2, <1>3, <1>4, TokensFrame, AccountsFrame, PromotedFrame
     DEF IInv, TypeOK

LEMMA StepUpdate ==
  ASSUME IInv, NEW s \in Slots, RefreshUpdate(s)
  PROVE  IInv'
BY StepUpdated DEF RefreshUpdate, hist, IInv, TypeOK

\* The end of a Refresh, with or without a new session and an answer.
LEMMA StepEnded ==
  ASSUME IInv, NEW s \in Slots,
         refresh' = [refresh EXCEPT ![s] = Idle],
         UNCHANGED <<now, users, register, promoted>>,
         disturbed' \in SUBSET Users,
         \/ UNCHANGED session
         \/ /\ refresh[s].pc = "store"
            /\ Set(refresh[s].new.user, refresh[s].new, refresh[s].ttl),
         \/ UNCHANGED issued
         \/ /\ refresh[s].pc = "store"
            /\ issued' = issued \cup {refresh[s].new}
  PROVE  IInv'
<1> DEFINE t == refresh[s].new
<1>1. refresh[s].pc = "store" =>
        t \in Token /\ t.user \in Users /\ Known(t) /\ register[t.user].pc = "done"
  BY TokenFields DEF IInv, Tokens
<1>2. Grows
  BY SameUsers
<1>3. refresh[s].pc = "store" => KnownNext(t)
  BY <1>1, <1>2, KnownStays
<1>4. /\ refresh' \in [Slots -> RefreshCall] /\ refresh'[s].pc = "idle"
      /\ \A r \in Slots \ {s} : refresh'[r] = refresh[r]
  BY IdleType DEF IInv, TypeOK
<1>5. /\ session' \in [Users -> Entry \cup {None}]
      /\ \A v \in Users : session'[v] = session[v] \/
           (refresh[s].pc = "store" /\ v = t.user /\ session'[v].hash = t)
  <2>1. refresh[s].ttl \in Nat
    BY DEF IInv, TypeOK, RefreshCall
  <2> QED
    BY <1>1, <2>1, SetEffect DEF IInv, TypeOK
<1>6. /\ issued' \in SUBSET Token /\ issued \subseteq issued'
      /\ \A x \in issued' : x \in issued \/ (refresh[s].pc = "store" /\ x = t)
  BY <1>1 DEF IInv, TypeOK
<1> HIDE DEF t
<1>7. Accounts'
  BY <1>2, AccountsFrame
<1>8. Tokens'
  BY <1>1, <1>2, <1>3, <1>4, <1>5, <1>6, TokensFrame
<1> QED
  BY <1>2, <1>4, <1>5, <1>6, <1>7, <1>8, PromotedFrame DEF IInv, TypeOK

LEMMA StepRefreshCheck ==
  ASSUME IInv, NEW s \in Slots, RefreshCheck(s)
  PROVE  IInv'
<1> DEFINE ttl == Until(refresh[s].expiresAt)
<1>1. /\ refresh[s].pc = "check"
      /\ UNCHANGED <<now, users, session, register, issued, hist>>
  BY DEF RefreshCheck
<1>2. CASE refresh' = [refresh EXCEPT ![s] = Idle]
  BY <1>1, <1>2, StepEnded DEF hist, IInv, TypeOK
<1>3. CASE Positive(ttl) /\ refresh' = [refresh EXCEPT ![s].pc = "store", ![s].ttl = ttl]
  <2>1. refresh \in [Slots -> RefreshCall] /\ refresh[s] \in RefreshCall /\ now \in Nat
    BY DEF IInv, TypeOK
  <2>2. ttl \in Nat
    BY <1>3, <2>1 DEF Positive, Until, RefreshCall
  <2> HIDE DEF ttl
  <2>3. /\ refresh' \in [Slots -> RefreshCall]
        /\ refresh'[s].old = refresh[s].old /\ refresh'[s].new = refresh[s].new
        /\ \A r \in Slots \ {s} : refresh'[r] = refresh[r]
    BY <1>3, <2>1, <2>2 DEF RefreshCall
  <2>4. Grows
    BY <1>1, SameUsers
  <2>5. /\ refresh[s].old \in issued
        /\ refresh[s].new \in Token
        /\ Known(refresh[s].new)
        /\ refresh[s].new.user = refresh[s].old.user
    BY <1>1 DEF IInv, Tokens
  <2>6. KnownNext(refresh[s].new)
    BY <2>4, <2>5, KnownStays
  <2> QED
    BY <1>1, <2>3, <2>4, <2>5, <2>6, TokensFrame, AccountsFrame, PromotedFrame
       DEF IInv, TypeOK, hist
<1> QED
  BY <1>2, <1>3 DEF RefreshCheck

LEMMA StepRefreshStore ==
  ASSUME IInv, NEW s \in Slots, RefreshStore(s)
  PROVE  IInv'
BY StepEnded DEF RefreshStore, hist, IInv, TypeOK

LEMMA StepRefreshFail ==
  ASSUME IInv, NEW s \in Slots, RefreshFail(s)
  PROVE  IInv'
<1>1. disturbed' \in SUBSET Users
  <2>1. refresh[s].old \in Token
    BY DEF RefreshFail, IInv, Tokens, TypeOK
  <2> QED
    BY <2>1, TokenFields DEF RefreshFail, IInv, TypeOK
<1>2. CASE refresh[s].pc = "update" /\ UpdateToken(s)
  BY <1>1, <1>2, StepUpdated DEF RefreshFail
<1>3. CASE UNCHANGED users
  BY <1>1, <1>3, StepEnded DEF RefreshFail
<1> QED
  BY <1>2, <1>3 DEF RefreshFail

LEMMA StepBan ==
  ASSUME IInv, NEW u \in Users, Ban(u)
  PROVE  IInv'
<1>1. /\ session' \in [Users -> Entry \cup {None}]
      /\ session'[u] = None
      /\ \A v \in Users \ {u} : session'[v] = session[v]
  BY DelEffect DEF Ban, IInv
<1>2. UNCHANGED <<now, users, register, refresh, issued, promoted, disturbed>>
      BY DEF Ban
<1>3. Grows
  BY <1>2, SameUsers
<1> QED
  BY <1>1, <1>2, <1>3, TokensFrame, AccountsFrame, PromotedFrame DEF IInv, TypeOK

LEMMA StepPromote ==
  ASSUME IInv, NEW u \in Users, Promote(u)
  PROVE  IInv'
<1>1. /\ users' \in [Users -> Row \cup {None}]
      /\ users'[u].admin /\ users'[u] # None
      /\ Grows
      /\ \A v \in Users : users[v] = None => users'[v] = None
  BY PromoteEffect DEF Promote, IInv, Grows
<1>2. UNCHANGED <<now, session, register, refresh, issued, disturbed>>
      /\ promoted' = promoted \cup {u}
  BY DEF Promote
<1>3. Promoted'
  BY <1>1, <1>2 DEF IInv, Promoted, Grows, TypeOK
<1> QED
  BY <1>1, <1>2, <1>3, TokensFrame, AccountsFrame DEF IInv, TypeOK

LEMMA NextIInv == IInv /\ [Next]_vars => IInv'
<1> SUFFICES ASSUME IInv, [Next]_vars PROVE IInv'
  OBVIOUS
<1> QED
  BY StepTick, StepBegin, StepConflict, StepCreate, StepRegisterCheck, StepStore,
     StepRegisterFail, StepRefreshBegin, StepLoad, StepUpdate, StepRefreshCheck,
     StepRefreshStore, StepRefreshFail, StepBan, StepPromote
     DEF Next
-----------------------------------------------------------------------------
(***************************************************************************)
(* Registrations, tokens and sessions fit together in every reachable      *)
(* state: the inductive invariant of Register and Refresh.                 *)
(***************************************************************************)
THEOREM SessionInv == Spec => []IInv
BY InitIInv, NextIInv, PTL DEF Spec

\* Every variable keeps its type.
THEOREM SessionTypeOK == Spec => []TypeOK
<1>1. IInv => TypeOK
  BY DEF IInv
<1> QED
  BY <1>1, SessionInv, PTL

\* The pseudonym in a token is its bearer's in the users table, and only theirs.
THEOREM SessionTokenNamesOwner == Spec => []TokenNamesOwner
<1>1. IInv => TokenNamesOwner
  BY TokenFields DEF IInv, TypeOK, Accounts, Tokens, Known, TokenNamesOwner
<1> QED
  BY <1>1, SessionInv, PTL

\* No Refresh undoes a promotion, and no token claims one that did not happen.
THEOREM SessionPromotionSticks == Spec => []PromotionSticks
<1>1. IInv => PromotionSticks
  BY DEF IInv, Tokens, Known, Promoted, PromotionSticks
<1> QED
  BY <1>1, SessionInv, PTL
-----------------------------------------------------------------------------
(* A session that has ended does not come back.                            *)

\* Who writes the key of a user: their Register, their Refresh, or a ban.
LEMMA GoneSession ==
  ASSUME IInv, Next, NEW u \in Users, register[u].pc = "done", ~Refreshing(u)
  PROVE  session'[u] \in {session[u], None}
<1>1. ASSUME NEW v \in Users, v # u, NEW t \in Token, NEW ttl \in Nat, Set(v, t, ttl)
      PROVE  session'[u] = session[u]
  BY <1>1, SetEffect DEF IInv
<1>2. ASSUME NEW v \in Users, RegisterStore(v) \/ RegisterFail(v)
      PROVE  session'[u] = session[u]
  <2>1. \/ UNCHANGED session
        \/ register[v].pc = "store" /\ Set(v, register[v].token, register[v].ttl)
    BY <1>2 DEF RegisterStore, RegisterFail
  <2>2. register[v].pc = "store" =>
          v # u /\ register[v].token \in Token /\ register[v].ttl \in Nat
    BY DEF IInv, Accounts, TypeOK, RegisterCall
  <2> QED
    BY <2>1, <2>2, <1>1
<1>3. ASSUME NEW s \in Slots, RefreshStore(s) \/ RefreshFail(s)
      PROVE  session'[u] = session[u]
  <2>1. \/ UNCHANGED session
        \/ /\ refresh[s].pc = "store"
           /\ Set(refresh[s].new.user, refresh[s].new, refresh[s].ttl)
    BY <1>3 DEF RefreshStore, RefreshFail
  <2>2. refresh[s].pc = "store" =>
          /\ refresh[s].new \in Token /\ refresh[s].new.user # u
          /\ refresh[s].ttl \in Nat
    BY DEF IInv, Tokens, Refreshing, TypeOK, RefreshCall
  <2> QED
    BY <2>1, <2>2, <1>1, TokenFields
<1>4. ASSUME NEW v \in Users, Ban(v)
      PROVE  session'[u] \in {session[u], None}
  BY <1>4, DelEffect DEF Ban, IInv
<1> QED
  BY <1>2, <1>3, <1>4
     DEF Next, Tick, RegisterBegin, RegisterCreate, RegisterConflict, RegisterCheck,
         RefreshBegin, RefreshLoad, RefreshUpdate, RefreshCheck, Promote

LEMMA GoneRefresh ==
  ASSUME IInv, Next, NEW u \in Users, ~Live(u), ~Refreshing(u)
  PROVE  ~Refreshing(u)'
<1>1. ASSUME NEW s \in Slots, NEW t \in issued, RefreshBegin(s, t)
      PROVE  ~Refreshing(u)'
  BY <1>1 DEF RefreshBegin, Accepts, Refreshing, IInv, TypeOK
<1>2. ASSUME NEW s \in Slots,
             \/ RefreshLoad(s) \/ RefreshUpdate(s) \/ RefreshCheck(s)
             \/ RefreshStore(s) \/ RefreshFail(s)
      PROVE  ~Refreshing(u)'
  <2>1. \A r \in Slots : r # s => refresh'[r] = refresh[r]
    BY <1>2 DEF RefreshLoad, RefreshUpdate, RefreshCheck, RefreshStore, RefreshFail,
       IInv, TypeOK
  <2>2. refresh'[s].pc = "idle" \/ (refresh[s].pc # "idle" /\ refresh'[s].old = refresh[s].old)
    BY <1>2, IdleType
       DEF RefreshLoad, RefreshUpdate, RefreshCheck, RefreshStore, RefreshFail,
           IInv, TypeOK, RefreshCall
  <2> QED
    BY <2>1, <2>2 DEF Refreshing
<1>3. CASE UNCHANGED refresh
  BY <1>3 DEF Refreshing
<1> QED
  BY <1>1, <1>2, <1>3
     DEF Next, Tick, RegisterBegin, RegisterCreate, RegisterConflict, RegisterCheck,
         RegisterStore, RegisterFail, Ban, Promote

LEMMA IssuedGrows ==
  ASSUME Next
  PROVE  issued \subseteq issued'
<1>1. \/ issued' = issued
      \/ \E v \in Users : RegisterStore(v)
      \/ \E s \in Slots : RefreshStore(s)
  BY DEF Next, Tick, RegisterBegin, RegisterCreate, RegisterConflict, RegisterCheck,
     RegisterFail, RefreshBegin, RefreshLoad, RefreshUpdate, RefreshCheck, RefreshFail,
     Ban, Promote
<1> QED
  BY <1>1 DEF RegisterStore, RefreshStore

LEMMA GoneNext ==
  ASSUME IInv, Next, NEW u \in Users, Gone(u)
  PROVE  Gone(u)'
<1>1. register[u].pc = "done" /\ ~Live(u) /\ ~Refreshing(u)
  BY DEF Gone, IInv, Tokens
<1>2. now \in Nat /\ now' \in Nat /\ now' >= now /\ issued \subseteq issued'
  <2>1. now \in Nat /\ (now' = now \/ now' = now + 1)
    BY DEF Next, Tick, RegisterBegin, RegisterCreate, RegisterConflict, RegisterCheck,
       RegisterStore, RegisterFail, RefreshBegin, RefreshLoad, RefreshUpdate,
       RefreshCheck, RefreshStore, RefreshFail, Ban, Promote, IInv, TypeOK
  <2> QED
    BY <2>1, IssuedGrows
<1>3. session[u] # None => session[u].until \in Nat \cup {None}
  BY DEF IInv, TypeOK, Entry
<1>4. ~Live(u)'
  BY <1>1, <1>2, <1>3, GoneSession DEF Live
<1> QED
  BY <1>1, <1>2, <1>4, GoneRefresh DEF Gone

(***************************************************************************)
(* A session that has ended by a ban or by its expiry, with no Refresh past *)
(* its Redis check, stays ended for good.                                   *)
(***************************************************************************)
THEOREM SessionGoneStaysGone == Spec => GoneStaysGone
<1>1. IInv /\ [Next]_vars => [\A u \in Users : Gone(u) => Gone(u)']_vars
  BY GoneNext
<1> QED
  BY <1>1, SessionInv, PTL DEF Spec, GoneStaysGone
-----------------------------------------------------------------------------
(* How long calls and sessions last.                                        *)

\* A call that has yet to look at the clock, and one that has.
Unchecked(call, exp, time) == exp <= call.expiresAt /\ call.expiresAt <= time + TTL
Checked(call, exp, time) == call.ttl > 0 /\ call.ttl <= TTL /\ exp <= time + call.ttl

\* An entry ends, within a lifetime and not before its token.
Kept(entry, time) ==
  /\ entry.until # None
  /\ entry.hash.exp <= entry.until
  /\ entry.until <= time + TTL

Ages ==
  /\ \A u \in Users :
       /\ register[u].pc \in {"create", "check"} =>
            Unchecked(register[u], register[u].token.exp, now)
       /\ register[u].pc = "store" => Checked(register[u], register[u].token.exp, now)
  /\ \A s \in Slots :
       /\ refresh[s].pc \in {"update", "check"} =>
            Unchecked(refresh[s], refresh[s].new.exp, now)
       /\ refresh[s].pc = "store" => Checked(refresh[s], refresh[s].new.exp, now)
  /\ \A u \in Users : session[u] # None => Kept(session[u], now)

\* Until its session is stored the row holds the token of a Register.
Written ==
  \A u \in Users : register[u].pc \in {"check", "store"} => users[u].hash = register[u].token

\* The call in slot s is a Refresh of u.
Mine(s, u) == refresh[s].pc # "idle" /\ refresh[s].old.user = u

\* Redis would let the bearer of the session's token in.
Honoured(u) == Live(u) /\ now < session[u].hash.exp

\* The stores agree about u except between the two writes of its one Refresh;
\* the token a Refresh of u has found does not outlive the one it makes.
Orderly(u) ==
  /\ \A r, s \in Slots : Mine(r, u) /\ Mine(s, u) => r = s
  /\ (\A s \in Slots : Mine(s, u) => refresh[s].pc \notin {"check", "store"})
       => (Honoured(u) => users[u].hash = session[u].hash)
  /\ \A s \in Slots : Mine(s, u) /\ refresh[s].pc \in {"update", "check"} =>
       (session[u] # None => session[u].hash.exp <= refresh[s].expiresAt)
  /\ \A s \in Slots : Mine(s, u) /\ refresh[s].pc \in {"check", "store"} =>
       users[u].hash = refresh[s].new

RotationInv ==
  /\ IInv
  /\ Ages
  /\ Written
  /\ \A u \in Users : u \notin disturbed => Orderly(u)

LEMMA RotationInit == Init => RotationInv
<1> SUFFICES ASSUME Init PROVE RotationInv
  OBVIOUS
<1>1. IInv
  BY InitIInv
<1>2. Ages /\ Written
  BY DEF Init, Ages, Written, Idle
<1>3. \A u \in Users : Orderly(u)
  BY DEF Init, Orderly, Mine, Honoured, Live, Idle
<1> QED
  BY <1>1, <1>2, <1>3 DEF RotationInv

\* The parts of the invariant as the steps below use them.
LEMMA RotationTypes ==
  ASSUME RotationInv
  PROVE  /\ now \in Nat
         /\ register \in [Users -> RegisterCall]
         /\ refresh \in [Slots -> RefreshCall]
         /\ \A u \in Users : session[u] # None =>
              /\ session[u].hash \in Token /\ session[u].hash.exp \in Nat
              /\ session[u].until \in Nat \cup {None}
         /\ \A u \in Users : register[u].pc \in {"create", "check", "store"} =>
              /\ register[u].token \in Token /\ register[u].token.user = u
              /\ register[u].token.exp \in Nat
         /\ \A u \in Users : register[u].expiresAt \in Nat /\ register[u].ttl \in Nat
         /\ \A s \in Slots : refresh[s].pc # "idle" =>
              /\ refresh[s].old \in Token /\ refresh[s].old.user \in Users
              /\ register[refresh[s].old.user].pc = "done"
         /\ \A s \in Slots : refresh[s].pc \in {"update", "check", "store"} =>
              /\ refresh[s].new \in Token /\ refresh[s].new.exp \in Nat
              /\ refresh[s].new.user = refresh[s].old.user
         /\ \A s \in Slots : refresh[s].expiresAt \in Nat /\ refresh[s].ttl \in Nat
BY TokenFields DEF RotationInv, IInv, TypeOK, Entry, Accounts, Tokens, RegisterCall, RefreshCall

\* A step of Next that leaves u's Refresh, session and row as they are, but
\* for time and a deletion of the session.
LEMMA OrderlyAway ==
  ASSUME RotationInv, NEW u \in Users, u \notin disturbed,
         now' \in Nat, now <= now',
         users'[u].hash = users[u].hash,
         session'[u] \in {session[u], None},
         \A s \in Slots : \/ Mine(s, u) /\ refresh'[s] = refresh[s]
                          \/ ~Mine(s, u) /\ ~Mine(s, u)'
  PROVE  Orderly(u)'
<1>1. Orderly(u)
  BY DEF RotationInv
<1>2. /\ \A s \in Slots : Mine(s, u)' <=> Mine(s, u)
      /\ \A s \in Slots : Mine(s, u) => refresh'[s] = refresh[s]
  BY DEF Mine
<1>3. Honoured(u)' => Honoured(u) /\ session'[u] = session[u]
  <2>1. session[u] # None => session[u].until \in Nat \cup {None} /\ session[u].hash.exp \in Nat
    BY RotationTypes
  <2> QED
    BY <2>1, RotationTypes DEF Honoured, Live
<1> QED
  BY <1>1, <1>2, <1>3 DEF Orderly

\* No step turns the clock back.
LEMMA ClockGrows ==
  ASSUME RotationInv, [Next]_vars
  PROVE  now' \in Nat /\ now <= now'
<1>1. now' = now \/ now' = now + 1
  BY DEF Next, Tick, RegisterBegin, RegisterCreate, RegisterConflict, RegisterCheck,
     RegisterStore, RegisterFail, RefreshBegin, RefreshLoad, RefreshUpdate,
     RefreshCheck, RefreshStore, RefreshFail, Ban, Promote, vars
<1> QED
  BY <1>1, RotationTypes

LEMMA RegisterOrderly ==
  ASSUME RotationInv, Next, NEW u \in Users, u \notin disturbed, NEW v \in Users,
         \/ RegisterBegin(v) \/ RegisterCreate(v) \/ RegisterConflict(v)
         \/ RegisterCheck(v) \/ RegisterStore(v) \/ RegisterFail(v)
  PROVE  Orderly(u)'
<1> USE DEF RegisterBegin, RegisterCreate, RegisterConflict, RegisterCheck,
            RegisterStore, RegisterFail
<1>1. now' = now /\ refresh' = refresh
  OBVIOUS
<1>2. \A s \in Slots : Mine(s, u)' <=> Mine(s, u)
  BY <1>1 DEF Mine
<1>3. register[u].pc # "done" => \A s \in Slots : ~Mine(s, u)
  BY RotationTypes DEF Mine
<1>4. CASE users'[u].hash = users[u].hash /\ session'[u] = session[u]
  <2>1. \A s \in Slots : \/ Mine(s, u) /\ refresh'[s] = refresh[s]
                         \/ ~Mine(s, u) /\ ~Mine(s, u)'
    BY <1>1, <1>2
  <2> QED
    BY <1>4, <2>1, ClockGrows, OrderlyAway
<1>5. CASE register[u].pc = "create" /\ session' = session
  <2>1. session[u] = None
    BY <1>5 DEF RotationInv, IInv, Accounts, Tokens, Known
  <2> QED
    BY <1>2, <1>3, <1>5, <2>1 DEF Orderly, Honoured, Live
<1>6. CASE /\ register[u].pc = "store" /\ users' = users
           /\ Set(u, register[u].token, register[u].ttl)
  <2>1. session'[u].hash = register[u].token
    BY <1>6, RotationTypes, SetEffect DEF RotationInv, IInv
  <2>2. users[u].hash = register[u].token
    BY <1>6 DEF RotationInv, Written
  <2> QED
    BY <1>2, <1>3, <1>6, <2>1, <2>2 DEF Orderly
<1>7. ASSUME users' # users PROVE register[v].pc = "create" /\ Create(v) /\ session' = session
  BY <1>7
<1>8. ASSUME session' # session
      PROVE  /\ register[v].pc = "store" /\ users' = users
             /\ Set(v, register[v].token, register[v].ttl)
  BY <1>8
<1>9. CASE v # u
  <2>1. ASSUME users' # users PROVE users'[u] = users[u]
    <3>1. register[v].token \in Token /\ Create(v) /\ TypeOK
      BY <1>7, <2>1, RotationTypes DEF RotationInv, IInv
    <3> QED
      BY <1>9, <3>1 DEF Create, TypeOK
  <2>2. session' # session => session'[u] = session[u]
    BY <1>8, <1>9, SetEffect, RotationTypes DEF RotationInv, IInv
  <2> QED
    BY <1>4, <2>1, <2>2
<1> QED
  BY <1>4, <1>5, <1>6, <1>7, <1>8, <1>9

\* A step of the Refresh in slot s, from its first statement on.
Rotates(s) ==
  \/ RefreshLoad(s) \/ RefreshUpdate(s) \/ RefreshCheck(s)
  \/ RefreshStore(s) \/ RefreshFail(s)

\* The steps of one Refresh touch no other.
LEMMA RefreshSlots ==
  ASSUME RotationInv, NEW s \in Slots, Rotates(s)
  PROVE  /\ now' = now
         /\ refresh[s].pc # "idle"
         /\ \A r \in Slots : r # s => refresh'[r] = refresh[r]
         /\ refresh'[s].pc = "idle" \/ refresh'[s].old = refresh[s].old
<1>1. refresh[s] \in RefreshCall /\ refresh \in [Slots -> RefreshCall]
  BY RotationTypes
<1> QED
  BY <1>1, IdleType
     DEF Rotates, RefreshLoad, RefreshUpdate, RefreshCheck, RefreshStore, RefreshFail,
         RefreshCall

\* What a step of a Refresh writes in the two stores.
LEMMA RefreshWrites ==
  ASSUME RotationInv, NEW s \in Slots, Rotates(s)
  PROVE  /\ users' = users \/ (refresh[s].pc = "update" /\ UpdateToken(s))
         /\ \/ session' = session
            \/ /\ refresh[s].pc = "store"
               /\ Set(refresh[s].new.user, refresh[s].new, refresh[s].ttl)
BY DEF Rotates, RefreshLoad, RefreshUpdate, RefreshCheck, RefreshStore, RefreshFail

LEMMA RefreshOrderlyOther ==
  ASSUME RotationInv, Next, NEW u \in Users, u \notin disturbed, NEW s \in Slots,
         Rotates(s), refresh[s].old.user # u
  PROVE  Orderly(u)'
<1> DEFINE t == refresh[s].new
<1>1. \A r \in Slots : \/ Mine(r, u) /\ refresh'[r] = refresh[r]
                       \/ ~Mine(r, u) /\ ~Mine(r, u)'
  BY RefreshSlots DEF Mine
<1>2. refresh[s].pc \in {"update", "store"} => t \in Token /\ t.user # u
  BY RotationTypes
<1>3. users'[u] = users[u]
  <2>1. users' = users \/ (refresh[s].pc = "update" /\ UpdateToken(s))
    BY RefreshWrites
  <2> QED
    BY <1>2, <2>1 DEF UpdateToken, RotationInv, IInv, TypeOK
<1>4. session'[u] = session[u]
  BY <1>2, RefreshWrites, SetEffect, TokenFields, RotationTypes DEF RotationInv, IInv
<1> QED
  BY <1>1, <1>3, <1>4, ClockGrows, OrderlyAway

LEMMA BeginOrderly ==
  ASSUME RotationInv, Next, NEW u \in Users, u \notin disturbed',
         NEW s \in Slots, NEW t \in issued, RefreshBegin(s, t)
  PROVE  Orderly(u)'
<1>1. /\ users' = users /\ session' = session /\ now' = now
      /\ refresh[s].pc = "idle"
      /\ refresh' = [refresh EXCEPT ![s].pc = "load", ![s].old = t]
      /\ u \notin disturbed
      /\ t.user = u => ~Refreshing(u)
  BY DEF RefreshBegin
<1>2. /\ refresh'[s].pc = "load" /\ refresh'[s].old = t
      /\ \A r \in Slots : r # s => refresh'[r] = refresh[r]
  BY <1>1, RotationTypes DEF RefreshCall
<1>3. CASE t.user # u
  <2>1. \A r \in Slots : \/ Mine(r, u) /\ refresh'[r] = refresh[r]
                         \/ ~Mine(r, u) /\ ~Mine(r, u)'
    BY <1>1, <1>2, <1>3 DEF Mine
  <2> QED
    BY <1>1, <2>1, ClockGrows, OrderlyAway
<1>4. CASE t.user = u
  <2>1. \A r \in Slots : ~Mine(r, u) /\ (Mine(r, u)' => r = s)
    BY <1>1, <1>2, <1>4 DEF Mine, Refreshing
  <2>2. Honoured(u) => users[u].hash = session[u].hash
    BY <1>1, <2>1 DEF RotationInv, Orderly
  <2>3. Honoured(u)' => Honoured(u)
    BY <1>1 DEF Honoured, Live
  <2> QED
    BY <1>1, <1>2, <2>1, <2>2, <2>3 DEF Orderly
<1> QED
  BY <1>3, <1>4

LEMMA LoadOrderly ==
  ASSUME RotationInv, Next, NEW u \in Users, u \notin disturbed, NEW s \in Slots,
         RefreshLoad(s), refresh[s].old.user = u
  PROVE  Orderly(u)'
<1> DEFINE n == sign(u, users[u].name, users[u].admin, now + TTL)
<1>1. /\ Orderly(u) /\ Mine(s, u) /\ refresh[s].pc = "load"
      /\ users' = users /\ session' = session /\ now' = now
      /\ \A r \in Slots : r # s => refresh'[r] = refresh[r]
  BY RefreshSlots DEF RefreshLoad, RotationInv, Mine, Rotates
<1>2. \A r \in Slots : (Mine(r, u) => r = s) /\ (Mine(r, u)' => r = s)
  BY <1>1 DEF Orderly, Mine
<1>3. Honoured(u)' => users[u].hash = session[u].hash
  BY <1>1, <1>2 DEF Orderly, Honoured, Live
<1>4. CASE refresh' = [refresh EXCEPT ![s] = Idle]
  <2>1. refresh'[s].pc = "idle"
    BY <1>4, RotationTypes, IdleType
  <2>2. \A r \in Slots : ~Mine(r, u)'
    BY <1>2, <2>1 DEF Mine
  <2> QED
    BY <1>1, <1>3, <2>2 DEF Orderly
<1>5. CASE refresh' = [refresh EXCEPT ![s].pc = "update", ![s].new = n,
                                      ![s].expiresAt = now + TTL]
  <2> HIDE DEF n
  <2>1. refresh'[s].pc = "update" /\ refresh'[s].expiresAt = now + TTL
    BY <1>5, RotationTypes DEF RefreshCall
  <2>2. session[u] # None => session[u].hash.exp <= now + TTL
    <3>1. session[u] # None => Kept(session[u], now)
      BY DEF RotationInv, Ages
    <3> QED
      BY <3>1, RotationTypes DEF Kept
  <2> QED
    BY <1>1, <1>2, <1>3, <2>1, <2>2 DEF Orderly
<1> QED
  BY <1>4, <1>5 DEF RefreshLoad

LEMMA UpdateOrderly ==
  ASSUME RotationInv, Next, NEW u \in Users, u \notin disturbed, NEW s \in Slots,
         RefreshUpdate(s), refresh[s].old.user = u
  PROVE  Orderly(u)'
<1>1. /\ Orderly(u) /\ Mine(s, u) /\ refresh[s].pc = "update"
      /\ UpdateToken(s) /\ session' = session /\ now' = now
      /\ \A r \in Slots : r # s => refresh'[r] = refresh[r]
  BY RefreshSlots DEF RefreshUpdate, RotationInv, Mine, Rotates
<1>2. /\ refresh'[s].pc = "check" /\ refresh'[s].old = refresh[s].old
      /\ refresh'[s].new = refresh[s].new /\ refresh'[s].expiresAt = refresh[s].expiresAt
  BY RotationTypes DEF RefreshUpdate, RefreshCall
<1>3. \A r \in Slots : (Mine(r, u) => r = s) /\ (Mine(r, u)' <=> r = s)
  BY <1>1, <1>2 DEF Orderly, Mine
<1>4. users'[u].hash = refresh[s].new
  <2>1. refresh[s].new.user = u
    BY <1>1, RotationTypes
  <2>2. users[u] \in Row
    BY <1>1, <2>1 DEF RotationInv, IInv, TypeOK, Tokens, Known
  <2> QED
    BY <1>1, <2>1, <2>2 DEF UpdateToken, RotationInv, IInv, TypeOK, Row
<1> QED
  BY <1>1, <1>2, <1>3, <1>4 DEF Orderly

\* A Refresh that finds its token expired leaves a session whose own token
\* has expired before it.
LEMMA CheckOrderly ==
  ASSUME RotationInv, Next, NEW u \in Users, u \notin disturbed, NEW s \in Slots,
         RefreshCheck(s), refresh[s].old.user = u
  PROVE  Orderly(u)'
<1>1. /\ Orderly(u) /\ Mine(s, u) /\ refresh[s].pc = "check"
      /\ users' = users /\ session' = session /\ now' = now
      /\ \A r \in Slots : r # s => refresh'[r] = refresh[r]
  BY RefreshSlots DEF RefreshCheck, RotationInv, Mine, Rotates
<1>2. CASE refresh' = [refresh EXCEPT ![s].pc = "store", ![s].ttl = Until(refresh[s].expiresAt)]
  <2>1. /\ refresh'[s].pc = "store" /\ refresh'[s].old = refresh[s].old
        /\ refresh'[s].new = refresh[s].new
    BY <1>2, RotationTypes DEF RefreshCall
  <2>2. \A r \in Slots : (Mine(r, u) => r = s) /\ (Mine(r, u)' <=> r = s)
    BY <1>1, <2>1 DEF Orderly, Mine
  <2> QED
    BY <1>1, <2>1, <2>2 DEF Orderly
<1>3. CASE ~Positive(Until(refresh[s].expiresAt)) /\ refresh' = [refresh EXCEPT ![s] = Idle]
  <2>1. refresh'[s].pc = "idle"
    BY <1>3, RotationTypes, IdleType
  <2>2. \A r \in Slots : ~Mine(r, u)'
    BY <1>1, <2>1 DEF Orderly, Mine
  <2>3. refresh[s].expiresAt <= now
    BY <1>3, RotationTypes DEF Positive, Until
  <2>4. session[u] # None => session[u].hash.exp <= refresh[s].expiresAt
    BY <1>1 DEF Orderly
  <2>5. ~Honoured(u)'
    BY <1>1, <2>3, <2>4, RotationTypes DEF Honoured, Live
  <2> QED
    BY <2>2, <2>5 DEF Orderly
<1> QED
  BY <1>2, <1>3 DEF RefreshCheck

LEMMA StoreOrderly ==
  ASSUME RotationInv, Next, NEW u \in Users, u \notin disturbed, NEW s \in Slots,
         RefreshStore(s), refresh[s].old.user = u
  PROVE  Orderly(u)'
<1> DEFINE t == refresh[s].new
<1>1. /\ Orderly(u) /\ Mine(s, u) /\ refresh[s].pc = "store"
      /\ users' = users /\ now' = now
      /\ \A r \in Slots : r # s => refresh'[r] = refresh[r]
      /\ refresh' = [refresh EXCEPT ![s] = Idle]
      /\ Set(t.user, t, refresh[s].ttl)
  BY RefreshSlots DEF RefreshStore, RotationInv, Mine, Rotates
<1>2. refresh'[s].pc = "idle"
  BY <1>1, RotationTypes, IdleType
<1>3. \A r \in Slots : ~Mine(r, u)'
  BY <1>1, <1>2 DEF Orderly, Mine
<1>4. users[u].hash = t /\ t \in Token /\ t.user = u /\ refresh[s].ttl \in Nat
  BY <1>1, RotationTypes DEF Orderly
<1>5. session'[u].hash = t
  BY <1>1, <1>4, SetEffect DEF RotationInv, IInv
<1> QED
  BY <1>1, <1>3, <1>4, <1>5 DEF Orderly

LEMMA OrderlyStep ==
  ASSUME RotationInv, [Next]_vars, NEW u \in Users, u \notin disturbed'
  PROVE  Orderly(u)'
<1>1. u \notin disturbed
  BY DEF Next, Tick, RegisterBegin, RegisterCreate, RegisterConflict, RegisterCheck,
     RegisterStore, RegisterFail, RefreshBegin, RefreshLoad, RefreshUpdate,
     RefreshCheck, RefreshStore, RefreshFail, Ban, Promote, vars, hist
<1>2. CASE refresh' = refresh /\ users'[u].hash = users[u].hash
             /\ session'[u] \in {session[u], None} /\ now' \in Nat /\ now <= now'
  <2>1. \A s \in Slots : \/ Mine(s, u) /\ refresh'[s] = refresh[s]
                         \/ ~Mine(s, u) /\ ~Mine(s, u)'
    BY <1>2 DEF Mine
  <2> QED
    BY <1>1, <1>2, <2>1, OrderlyAway
<1>3. CASE Tick \/ UNCHANGED vars
  BY <1>2, <1>3, RotationTypes DEF Tick, vars
<1>4. ASSUME Next, NEW v \in Users, Ban(v) PROVE Orderly(u)'
  <2>1. session'[u] \in {session[u], None}
    BY <1>4, DelEffect DEF Ban, RotationInv, IInv
  <2> QED
    BY <1>2, <1>4, <2>1, RotationTypes DEF Ban
<1>5. ASSUME Next, NEW v \in Users, Promote(v) PROVE Orderly(u)'
  <2>1. users[v] \in Row
    BY <1>5 DEF Promote, RotationInv, IInv, TypeOK
  <2>2. users'[u].hash = users[u].hash
    BY <1>5, <2>1 DEF Promote, RotationInv, IInv, TypeOK, Row
  <2> QED
    BY <1>2, <1>5, <2>2, RotationTypes DEF Promote
<1>6. ASSUME Next, NEW s \in Slots, Rotates(s)
      PROVE  Orderly(u)'
  <2>1. CASE refresh[s].old.user # u
    BY <1>1, <1>6, <2>1, RefreshOrderlyOther
  <2>2. CASE refresh[s].old.user = u
    <3>1. ~RefreshFail(s)
      BY <2>2 DEF RefreshFail
    <3> QED
      BY <1>1, <1>6, <2>2, <3>1, LoadOrderly, UpdateOrderly, CheckOrderly, StoreOrderly
         DEF Rotates
  <2> QED
    BY <2>1, <2>2
<1> QED
  BY <1>1, <1>3, <1>4, <1>5, <1>6, RegisterOrderly, BeginOrderly DEF Next, Rotates

\* What a step of Register leaves in the call.
LEMMA RegisterMoves ==
  ASSUME RotationInv, NEW u \in Users,
         \/ RegisterBegin(u) \/ RegisterCreate(u) \/ RegisterConflict(u)
         \/ RegisterCheck(u) \/ RegisterStore(u) \/ RegisterFail(u)
  PROVE  /\ now' = now
         /\ \A v \in Users : v # u => register'[v] = register[v]
         /\ register'[u].pc \in {"create", "check"} =>
              Unchecked(register'[u], register'[u].token.exp, now)
         /\ register'[u].pc = "store" =>
              Checked(register'[u], register'[u].token.exp, now)
         /\ register'[u].pc \in {"check", "store"} =>
              /\ register'[u].token = register[u].token
              /\ \/ register[u].pc = "create" /\ Create(u)
                 \/ register[u].pc = "check" /\ users' = users
<1> USE RotationTypes
<1>1. register[u] \in RegisterCall /\ register \in [Users -> RegisterCall] /\ now \in Nat
  OBVIOUS
<1>2. /\ now' = now
      /\ \A v \in Users : v # u => register'[v] = register[v]
  BY <1>1 DEF RegisterBegin, RegisterCreate, RegisterConflict, RegisterCheck,
     RegisterStore, RegisterFail
<1>3. register[u].pc \in {"create", "check"} =>
        Unchecked(register[u], register[u].token.exp, now)
  BY DEF RotationInv, Ages
<1>4. ASSUME NEW n \in Names, RegisterBegin(u),
             register' = [register EXCEPT ![u] =
               [pc |-> "create", tries |-> 1, token |-> sign(u, n, FALSE, now + TTL),
                expiresAt |-> now + TTL, ttl |-> 0]]
      PROVE  /\ register'[u].pc = "create"
             /\ Unchecked(register'[u], register'[u].token.exp, now)
  <2> DEFINE t == sign(u, n, FALSE, now + TTL)
  <2>1. t.exp <= now + TTL
    <3>1. now + TTL \in Nat
      BY <1>1
    <3> QED
      BY <1>1, <3>1, SignPlain
  <2> HIDE DEF t
  <2>2. /\ register'[u].pc = "create" /\ register'[u].token = t
        /\ register'[u].expiresAt = now + TTL
    BY <1>1, <1>4 DEF t
  <2> QED
    BY <1>1, <2>1, <2>2 DEF Unchecked
<1>5. CASE RegisterCreate(u)
  <2>1. /\ register[u].pc = "create" /\ register'[u].pc = "check"
        /\ register'[u].token = register[u].token
        /\ register'[u].expiresAt = register[u].expiresAt
        /\ Create(u)
    BY <1>1, <1>5 DEF RegisterCreate, RegisterCall
  <2> QED
    BY <1>2, <1>3, <2>1 DEF Unchecked
<1>6. CASE RegisterConflict(u)
  <2>1. CASE register' = [register EXCEPT ![u].pc = "failed"]
    BY <1>1, <1>2, <2>1 DEF RegisterCall
  <2>2. ASSUME NEW n \in Names, register' = [register EXCEPT
               ![u].tries = @ + 1, ![u].token = sign(u, n, FALSE, register[u].expiresAt)]
        PROVE  /\ register'[u].pc = "create"
               /\ Unchecked(register'[u], register'[u].token.exp, now)
    <3> DEFINE t == sign(u, n, FALSE, register[u].expiresAt)
    <3>1. t.exp <= register[u].expiresAt
      <4>1. register[u].expiresAt \in Nat
        OBVIOUS
      <4> QED
        BY <1>1, <4>1, SignPlain
    <3> HIDE DEF t
    <3>2. register[u].pc = "create"
      BY <1>6 DEF RegisterConflict
    <3>3. /\ register'[u].pc = "create" /\ register'[u].token = t
          /\ register'[u].expiresAt = register[u].expiresAt
      BY <1>1, <2>2, <3>2 DEF t, RegisterCall
    <3> QED
      BY <1>3, <3>1, <3>2, <3>3 DEF Unchecked
  <2> QED
    BY <1>2, <1>6, <2>1, <2>2 DEF RegisterConflict
<1>7. CASE RegisterCheck(u)
  <2> DEFINE ttl == Until(register[u].expiresAt)
  <2>1. register[u].pc = "check" /\ users' = users
    BY <1>7 DEF RegisterCheck
  <2>2. CASE register' = [register EXCEPT ![u].pc = "failed"]
    BY <1>1, <1>2, <2>2 DEF RegisterCall
  <2>3. CASE Positive(ttl) /\ register' = [register EXCEPT ![u].pc = "store", ![u].ttl = ttl]
    <3>1. ttl > 0 /\ ttl <= TTL /\ register[u].token.exp <= now + ttl
      <4>1. /\ register[u].token.exp <= register[u].expiresAt
            /\ register[u].expiresAt <= now + TTL
        BY <1>3, <2>1 DEF Unchecked
      <4>2. register[u].token.exp \in Nat /\ register[u].expiresAt \in Nat
        BY <2>1
      <4> QED
        BY <1>1, <2>3, <4>1, <4>2 DEF Positive, Until
    <3> HIDE DEF ttl
    <3>2. /\ register'[u].pc = "store" /\ register'[u].token = register[u].token
          /\ register'[u].ttl = ttl
      BY <1>1, <2>3 DEF RegisterCall
    <3> QED
      BY <1>2, <2>1, <3>1, <3>2 DEF Checked
  <2> QED
    BY <1>7, <2>2, <2>3 DEF RegisterCheck
<1>8. CASE RegisterStore(u) \/ RegisterFail(u)
  BY <1>1, <1>2, <1>8 DEF RegisterStore, RegisterFail, RegisterCall
<1>9. CASE RegisterBegin(u)
  BY <1>2, <1>4, <1>9 DEF RegisterBegin
<1> QED
  BY <1>5, <1>6, <1>7, <1>8, <1>9

\* A session stored with the time to live of a call that has looked at it.
LEMMA SetKept ==
  ASSUME RotationInv, NEW u \in Users, NEW t \in Token, NEW call, call.ttl \in Nat,
         Checked(call, t.exp, now), Set(u, t, call.ttl)
  PROVE  Kept(session'[u], now)
<1>1. now \in Nat /\ t.exp \in Nat
  BY RotationTypes, TokenFields
<1>2. session'[u].hash = t /\ session'[u].until = now + call.ttl
  BY SetEffect DEF RotationInv, IInv, Checked
<1>3. now + call.ttl # None
  BY <1>1
<1> QED
  BY <1>1, <1>2, <1>3 DEF Kept, Checked

\* Who writes which row, and which session.
LEMMA StoresMove ==
  ASSUME RotationInv, [Next]_vars, NEW v \in Users
  PROVE  /\ register[v].pc \in {"check", "store"} => users'[v].hash = users[v].hash
         /\ \/ session'[v] \in {session[v], None}
            \/ Kept(session'[v], now)
<1>1. CASE users' = users /\ session' = session
  BY <1>1
<1>2. ASSUME NEW u \in Users,
             \/ RegisterBegin(u) \/ RegisterCreate(u) \/ RegisterConflict(u)
             \/ RegisterCheck(u) \/ RegisterStore(u) \/ RegisterFail(u)
      PROVE  /\ register[v].pc \in {"check", "store"} => users'[v].hash = users[v].hash
             /\ session'[v] = session[v] \/ Kept(session'[v], now)
  <2> USE DEF RegisterBegin, RegisterCreate, RegisterConflict, RegisterCheck,
              RegisterStore, RegisterFail
  <2>1. users' = users \/ (register[u].pc = "create" /\ Create(u))
    BY <1>2
  <2>2. \/ session' = session
        \/ register[u].pc = "store" /\ Set(u, register[u].token, register[u].ttl)
    BY <1>2
  <2>3. register[v].pc \in {"check", "store"} => users'[v] = users[v]
    BY <2>1 DEF Create, RotationInv, IInv, TypeOK
  <2>4. session'[v] = session[v] \/ Kept(session'[v], now)
    <3>1. CASE register[u].pc = "store" /\ Set(u, register[u].token, register[u].ttl)
      <4>1. register[u].token \in Token /\ register[u].ttl \in Nat /\ TypeOK
        BY <3>1, RotationTypes DEF RotationInv, IInv
      <4>2. Checked(register[u], register[u].token.exp, now)
        BY <3>1 DEF RotationInv, Ages
      <4>3. Kept(session'[u], now)
        BY <3>1, <4>1, <4>2, SetKept
      <4>4. v # u => session'[v] = session[v]
        BY <3>1, <4>1, SetEffect
      <4> QED
        BY <4>3, <4>4
    <3> QED
      BY <2>2, <3>1
  <2> QED
    BY <2>3, <2>4
<1>3. ASSUME NEW s \in Slots, Rotates(s)
      PROVE  /\ register[v].pc \in {"check", "store"} => users'[v].hash = users[v].hash
             /\ session'[v] = session[v] \/ Kept(session'[v], now)
  <2> DEFINE t == refresh[s].new
  <2>1. refresh[s].pc \in {"update", "store"} =>
          t \in Token /\ t.user \in Users /\ register[t.user].pc = "done"
    BY RotationTypes
  <2>2. register[v].pc \in {"check", "store"} => users'[v] = users[v]
    <3>1. users' = users \/ (refresh[s].pc = "update" /\ UpdateToken(s))
      BY <1>3, RefreshWrites
    <3> QED
      BY <2>1, <3>1 DEF UpdateToken, RotationInv, IInv, TypeOK
  <2>3. CASE refresh[s].pc = "store" /\ Set(t.user, t, refresh[s].ttl)
    <3>1. refresh[s].ttl \in Nat /\ TypeOK
      BY RotationTypes DEF RotationInv, IInv
    <3>2. Checked(refresh[s], t.exp, now)
      BY <2>3 DEF RotationInv, Ages
    <3>3. Kept(session'[t.user], now)
      BY <2>1, <2>3, <3>1, <3>2, SetKept
    <3>4. v # t.user => session'[v] = session[v]
      BY <2>1, <2>3, <3>1, SetEffect
    <3> QED
      BY <2>2, <3>3, <3>4
  <2> QED
    BY <1>3, <2>2, <2>3, RefreshWrites
<1>4. ASSUME NEW u \in Users, Ban(u)
      PROVE  users' = users /\ session'[v] \in {session[v], None}
  BY <1>4, DelEffect DEF Ban, RotationInv, IInv
<1>5. ASSUME NEW u \in Users, Promote(u)
      PROVE  users'[v].hash = users[v].hash /\ session' = session
  <2>1. users[u] \in Row
    BY <1>5 DEF Promote, RotationInv, IInv, TypeOK
  <2> QED
    BY <1>5, <2>1 DEF Promote, RotationInv, IInv, TypeOK, Row
<1> QED
  BY <1>1, <1>2, <1>3, <1>4, <1>5 DEF Next, Tick, RefreshBegin, Rotates, vars

\* What any step leaves in a Register call, and in a Refresh call.
LEMMA RegisterNext ==
  ASSUME RotationInv, [Next]_vars, NEW v \in Users
  PROVE  \/ register'[v] = register[v]
         \/ /\ now' = now
            /\ register'[v].pc \in {"create", "check"} =>
                 Unchecked(register'[v], register'[v].token.exp, now)
            /\ register'[v].pc = "store" =>
                 Checked(register'[v], register'[v].token.exp, now)
            /\ register'[v].pc \in {"check", "store"} =>
                 /\ register'[v].token = register[v].token
                 /\ \/ register[v].pc = "create" /\ Create(v)
                    \/ register[v].pc = "check" /\ users' = users
BY RegisterMoves
   DEF Next, Tick, RefreshBegin, RefreshLoad, RefreshUpdate, RefreshCheck,
       RefreshStore, RefreshFail, Ban, Promote, vars

LEMMA RefreshNext ==
  ASSUME RotationInv, [Next]_vars, NEW s \in Slots
  PROVE  \/ refresh'[s] = refresh[s]
         \/ /\ now' = now
            /\ refresh'[s].pc \in {"update", "check"} =>
                 Unchecked(refresh'[s], refresh'[s].new.exp, now)
            /\ refresh'[s].pc = "store" =>
                 Checked(refresh'[s], refresh'[s].new.exp, now)
<1>1. refresh[s] \in RefreshCall /\ refresh \in [Slots -> RefreshCall] /\ now \in Nat
  BY RotationTypes
<1>2. CASE refresh' = refresh
  BY <1>2
<1>3. ASSUME NEW r \in Slots, NEW t \in issued, RefreshBegin(r, t)
      PROVE  now' = now /\ (refresh'[s] = refresh[s] \/ refresh'[s].pc = "load")
  BY <1>1, <1>3 DEF RefreshBegin, RefreshCall
<1>4. ASSUME NEW r \in Slots, r # s, Rotates(r)
      PROVE  refresh'[s] = refresh[s]
  BY <1>4, RefreshSlots
<1>5. ASSUME RefreshLoad(s)
      PROVE  \/ refresh'[s].pc = "idle"
             \/ refresh'[s].pc = "update" /\ Unchecked(refresh'[s], refresh'[s].new.exp, now)
  <2> DEFINE u == refresh[s].old.user
             n == sign(u, users[u].name, users[u].admin, now + TTL)
  <2>1. CASE refresh' = [refresh EXCEPT ![s] = Idle]
    BY <1>1, <2>1, IdleType
  <2>2. CASE /\ users[u] # None
             /\ refresh' = [refresh EXCEPT ![s].pc = "update", ![s].new = n,
                                           ![s].expiresAt = now + TTL]
    <3>1. u \in Users
      BY <1>5, RotationTypes DEF RefreshLoad
    <3>2. users[u].name \in Names /\ users[u].admin \in BOOLEAN
      BY <2>2, <3>1 DEF RotationInv, IInv, TypeOK, Row
    <3>3. n.exp <= now + TTL
      BY <1>1, <3>1, <3>2, SignType
    <3> HIDE DEF n
    <3>4. /\ refresh'[s].pc = "update" /\ refresh'[s].new = n
          /\ refresh'[s].expiresAt = now + TTL
      BY <1>1, <2>2 DEF RefreshCall
    <3> QED
      BY <1>1, <3>3, <3>4 DEF Unchecked
  <2> QED
    BY <1>5, <2>1, <2>2 DEF RefreshLoad
<1>6. ASSUME RefreshUpdate(s)
      PROVE  refresh'[s].pc = "check" /\ Unchecked(refresh'[s], refresh'[s].new.exp, now)
  <2>1. /\ refresh'[s].pc = "check" /\ refresh'[s].new = refresh[s].new
        /\ refresh'[s].expiresAt = refresh[s].expiresAt
    BY <1>1, <1>6 DEF RefreshUpdate, RefreshCall
  <2>2. Unchecked(refresh[s], refresh[s].new.exp, now)
    BY <1>6 DEF RefreshUpdate, RotationInv, Ages
  <2> QED
    BY <2>1, <2>2 DEF Unchecked
<1>7. ASSUME RefreshCheck(s)
      PROVE  \/ refresh'[s].pc = "idle"
             \/ refresh'[s].pc = "store" /\ Checked(refresh'[s], refresh'[s].new.exp, now)
  <2> DEFINE ttl == Until(refresh[s].expiresAt)
  <2>1. CASE refresh' = [refresh EXCEPT ![s] = Idle]
    BY <1>1, <2>1, IdleType
  <2>2. CASE Positive(ttl) /\ refresh' = [refresh EXCEPT ![s].pc = "store", ![s].ttl = ttl]
    <3>1. ttl > 0 /\ ttl <= TTL /\ refresh[s].new.exp <= now + ttl
      <4>1. refresh[s].new.exp <= refresh[s].expiresAt /\ refresh[s].expiresAt <= now + TTL
        BY <1>7 DEF RefreshCheck, RotationInv, Ages, Unchecked
      <4>2. refresh[s].new.exp \in Nat /\ refresh[s].expiresAt \in Nat
        BY <1>7, RotationTypes DEF RefreshCheck
      <4> QED
        BY <1>1, <2>2, <4>1, <4>2 DEF Positive, Until
    <3> HIDE DEF ttl
    <3>2. /\ refresh'[s].pc = "store" /\ refresh'[s].new = refresh[s].new
          /\ refresh'[s].ttl = ttl
      BY <1>1, <2>2 DEF RefreshCall
    <3> QED
      BY <3>1, <3>2 DEF Checked
  <2> QED
    BY <1>7, <2>1, <2>2 DEF RefreshCheck
<1>8. ASSUME RefreshStore(s) \/ RefreshFail(s)
      PROVE  refresh'[s].pc = "idle"
  BY <1>1, <1>8, IdleType DEF RefreshStore, RefreshFail
<1>9. \A r \in Slots : Rotates(r) => now' = now
  BY RefreshSlots
<1> QED
  BY <1>2, <1>3, <1>4, <1>5, <1>6, <1>7, <1>8, <1>9
     DEF Next, Rotates, Tick, RegisterBegin, RegisterCreate, RegisterConflict,
         RegisterCheck, RegisterStore, RegisterFail, Ban, Promote, vars

\* What holds of a call, or of an entry, goes on holding as time passes.
LEMMA AgesGrow ==
  ASSUME NEW m \in Nat, NEW n \in Nat, m <= n, NEW e, NEW exp
  PROVE  /\ e.expiresAt \in Nat /\ exp \in Nat /\ Unchecked(e, exp, m) => Unchecked(e, exp, n)
         /\ e.ttl \in Nat /\ exp \in Nat /\ Checked(e, exp, m) => Checked(e, exp, n)
         /\ e.until \in Nat \cup {None} /\ Kept(e, m) => Kept(e, n)
<1>1. e.expiresAt \in Nat /\ exp \in Nat /\ Unchecked(e, exp, m) => Unchecked(e, exp, n)
  BY DEF Unchecked
<1>2. e.ttl \in Nat /\ exp \in Nat /\ Checked(e, exp, m) => Checked(e, exp, n)
  BY DEF Checked
<1>3. e.until \in Nat \cup {None} /\ Kept(e, m) => Kept(e, n)
  <2> SUFFICES ASSUME e.until \in Nat, e.until <= m + TTL PROVE e.until <= n + TTL
    BY DEF Kept
  <2> QED
    OBVIOUS
<1> QED
  BY <1>1, <1>2, <1>3

LEMMA AgesStep ==
  ASSUME RotationInv, [Next]_vars
  PROVE  Ages'
<1>1. now \in Nat /\ now' \in Nat /\ now <= now'
  BY ClockGrows, RotationTypes
<1>2. Ages
  BY DEF RotationInv
<1>3. ASSUME NEW u \in Users
      PROVE  /\ register'[u].pc \in {"create", "check"} =>
                  Unchecked(register'[u], register'[u].token.exp, now')
             /\ register'[u].pc = "store" =>
                  Checked(register'[u], register'[u].token.exp, now')
  <2>1. CASE register'[u] = register[u]
    BY <1>1, <1>2, <2>1, AgesGrow, RotationTypes DEF Ages
  <2> QED
    BY <2>1, RegisterNext
<1>4. ASSUME NEW s \in Slots
      PROVE  /\ refresh'[s].pc \in {"update", "check"} =>
                  Unchecked(refresh'[s], refresh'[s].new.exp, now')
             /\ refresh'[s].pc = "store" =>
                  Checked(refresh'[s], refresh'[s].new.exp, now')
  <2>1. CASE refresh'[s] = refresh[s]
    BY <1>1, <1>2, <2>1, AgesGrow, RotationTypes DEF Ages
  <2> QED
    BY <2>1, RefreshNext
<1>5. ASSUME NEW u \in Users, session'[u] # None
      PROVE  Kept(session'[u], now')
  <2>1. session'[u].until \in Nat \cup {None}
    <3>1. TypeOK'
      BY NextIInv DEF RotationInv, IInv
    <3> QED
      BY <1>5, <3>1 DEF TypeOK, Entry
  <2>2. Kept(session'[u], now)
    BY <1>2, <1>5, StoresMove DEF Ages
  <2> QED
    BY <1>1, <2>1, <2>2, AgesGrow
<1> QED
  BY <1>3, <1>4, <1>5 DEF Ages

LEMMA WrittenStep ==
  ASSUME RotationInv, [Next]_vars
  PROVE  Written'
<1> SUFFICES ASSUME NEW u \in Users, register'[u].pc \in {"check", "store"}
             PROVE  users'[u].hash = register'[u].token
  BY DEF Written
<1>1. CASE register'[u] = register[u]
  BY <1>1, StoresMove DEF RotationInv, Written
<1>2. CASE register'[u].token = register[u].token /\ Create(u)
  BY <1>2 DEF Create, RotationInv, IInv, TypeOK
<1>3. CASE /\ register'[u].token = register[u].token
           /\ register[u].pc = "check" /\ users' = users
  BY <1>3 DEF RotationInv, Written
<1> QED
  BY <1>1, <1>2, <1>3, RegisterNext

LEMMA RotationStep == RotationInv /\ [Next]_vars => RotationInv'
<1> SUFFICES ASSUME RotationInv, [Next]_vars PROVE RotationInv'
  OBVIOUS
<1>1. IInv'
  BY NextIInv DEF RotationInv
<1> QED
  BY <1>1, AgesStep, WrittenStep, OrderlyStep DEF RotationInv

(***************************************************************************)
(* A session belongs to an account and always ends: within a lifetime of    *)
(* any moment, however late the command that stores it, and not before the  *)
(* token it admits.                                                         *)
(***************************************************************************)
THEOREM SessionIsBacked == Spec => []SessionBacked
<1>1. RotationInv => SessionBacked
  BY DEF RotationInv, IInv, Ages, Kept, Tokens, Known, SessionBacked
<1> QED
  BY <1>1, RotationInit, RotationStep, PTL DEF Spec

(***************************************************************************)
(* Whoever's Refresh calls never overlapped and never failed holds a token  *)
(* that can be rotated, if it is accepted at all: the wedge of SessionWedge *)
(* needs an overlap or a failure, for every number of users and calls.      *)
(***************************************************************************)
THEOREM SessionUndisturbedRefreshable == Spec => []UndisturbedRefreshable
<1>1. RotationInv => UndisturbedRefreshable
  <2> SUFFICES ASSUME RotationInv, NEW t \in issued, t.user \notin disturbed,
                      Accepts(t), ~Refreshing(t.user)
               PROVE  users[t.user].hash = t
    BY DEF UndisturbedRefreshable, Rotatable
  <2>1. t.user \in Users
    BY TokenFields DEF RotationInv, IInv, TypeOK
  <2>2. \A s \in Slots : ~Mine(s, t.user)
    BY DEF Refreshing, Mine
  <2> QED
    BY <2>1, <2>2 DEF RotationInv, Orderly, Accepts, Honoured
<1> QED
  BY <1>1, RotationInit, RotationStep, PTL DEF Spec
-----------------------------------------------------------------------------
(* Session implements Membership.                                           *)

LEMMA InitClub == Init => Club!Init
BY DEF Init, Club!Init, Roster, Moderators, Cards, Inside, Renewing, Live, Refreshing, Idle

LEMMA RosterElem ==
  \A u, n : <<u, n>> \in Roster <=> u \in Users /\ users[u] # None /\ users[u].name = n
BY DEF Roster

\* What a row says of names and moderators is all that the roster takes from it.
LEMMA SameRows ==
  ASSUME \A v \in Users :
           \/ users[v] = None /\ users'[v] = None
           \/ /\ users[v] # None /\ users'[v] # None
              /\ users'[v].name = users[v].name /\ users'[v].admin = users[v].admin
  PROVE  Roster' = Roster /\ Moderators' = Moderators
<1>1. Moderators' = Moderators
  BY DEF Moderators
<1>2. {v \in Users : users'[v] # None} = {v \in Users : users[v] # None}
  OBVIOUS
<1>3. Roster' = Roster
  BY <1>2 DEF Roster
<1> QED
  BY <1>1, <1>3

\* A Register call inserts its row.
LEMMA CreateJoins ==
  ASSUME IInv, NEW u \in Users, register[u].pc = "create",
         ~Taken(register[u].token.name), Create(u),
         UNCHANGED <<now, session, refresh, issued>>
  PROVE  \E n \in Names : Club!Join(u, n)
<1> DEFINE n == register[u].token.name
<1>1. register[u].token \in Token /\ n \in Names /\ users[u] = None /\ TypeOK
  BY TokenFields DEF IInv, Accounts
<1>2. /\ users'[u] # None /\ users'[u].name = n /\ users'[u].admin = FALSE
      /\ \A v \in Users \ {u} : users'[v] = users[v]
  BY <1>1, CreateEffect
<1>3. \A m \in Roster : m[1] # u /\ m[2] # n
  BY <1>1 DEF Roster, Taken
<1>4. Roster' = Roster \cup {<<u, n>>}
  <2>1. {v \in Users : users'[v] # None} = {v \in Users : users[v] # None} \cup {u}
    BY <1>2
  <2>2. \A v \in Users : users[v] # None => v # u /\ users'[v] = users[v]
    BY <1>1, <1>2
  <2> QED
    BY <1>2, <2>1, <2>2 DEF Roster
<1>5. Moderators' = Moderators
  BY <1>1, <1>2 DEF Moderators
<1>6. Cards' = Cards /\ Inside' = Inside /\ Renewing' = Renewing
  BY DEF Cards, Inside, Live, Renewing, Refreshing
<1>7. Club!Join(u, n)
  BY <1>3, <1>4, <1>5, <1>6 DEF Club!Join
<1> QED
  BY <1>1, <1>7

\* A session is stored, and its token may reach the client.
LEMMA StoreOpens ==
  ASSUME IInv, NEW u \in Users, NEW t \in Token, t.user = u, Known(t),
         NEW ttl \in Nat, Set(u, t, ttl), UNCHANGED <<now, users>>,
         issued' \in {issued, issued \cup {t}}
  PROVE  Club!Open(u)
<1>1. /\ session'[u] # None /\ session'[u].until = IF ttl > 0 THEN now + ttl ELSE None
      /\ \A v \in Users \ {u} : session'[v] = session[v]
  BY SetEffect DEF IInv
<1>2. now < now + ttl \/ session'[u].until = None
  BY <1>1 DEF IInv, TypeOK
<1>3. Live(u)'
  BY <1>1, <1>2 DEF Live
<1>4. Inside' = Inside \cup {u}
  BY <1>1, <1>3 DEF Inside, Live
<1> DEFINE c == [user |-> u, name |-> t.name, admin |-> t.admin]
<1>5. Cards' \in {Cards, Cards \cup {c}}
  <2>1. CASE issued' = issued
    BY <2>1 DEF Cards
  <2>2. CASE issued' = issued \cup {t}
    BY <2>2 DEF Cards
  <2> QED
    BY <2>1, <2>2
<1>6. /\ t.name \in Names /\ t.admin \in BOOLEAN
      /\ <<u, t.name>> \in Roster /\ (t.admin => u \in Moderators)
  BY TokenFields, RosterElem DEF Known, Moderators
<1> QED
  BY <1>4, <1>5, <1>6 DEF Club!Open

\* A Refresh call ends: others of the same user may be under way.
LEMMA EndsRenewal ==
  ASSUME IInv, NEW s \in Slots, refresh[s].pc # "idle", refresh' = [refresh EXCEPT ![s] = Idle]
  PROVE  LET u == refresh[s].old.user
         IN  u \in Users /\ u \in Renewing /\ Renewing' \in {Renewing, Renewing \ {u}}
<1> DEFINE u == refresh[s].old.user
<1>1. refresh[s].old \in Token /\ u \in Users
  BY TokenFields DEF IInv, Tokens, TypeOK
<1>2. u \in Renewing
  BY <1>1 DEF Renewing, Refreshing
<1>3. refresh'[s].pc = "idle" /\ \A r \in Slots \ {s} : refresh'[r] = refresh[r]
  BY DEF IInv, TypeOK, Idle
<1>4. \A v \in Users : Refreshing(v)' => Refreshing(v)
  BY <1>3 DEF Refreshing
<1>5. \A v \in Users \ {u} : Refreshing(v) => Refreshing(v)'
  BY <1>3 DEF Refreshing
<1> QED
  BY <1>1, <1>2, <1>4, <1>5 DEF Renewing

\* A Refresh call moves on.
LEMMA KeepsRenewal ==
  ASSUME IInv, NEW s \in Slots, refresh[s].pc # "idle", refresh'[s].pc # "idle",
         refresh'[s].old = refresh[s].old, \A r \in Slots \ {s} : refresh'[r] = refresh[r]
  PROVE  Renewing' = Renewing
BY DEF Renewing, Refreshing

\* The table, the sessions, the requests and the tokens are all there is to it.
LEMMA ClubRests ==
  ASSUME UNCHANGED <<now, users, session, refresh, issued>>
  PROVE  UNCHANGED Club!vars
BY DEF Club!vars, Roster, Moderators, Cards, Inside, Live, Renewing, Refreshing

\* A Register call stores its session: until then its user has no token.
LEMMA StoreEnters ==
  ASSUME IInv, NEW u \in Users, register[u].pc = "store",
         Set(u, register[u].token, register[u].ttl),
         UNCHANGED <<now, users, refresh>>,
         issued' \in {issued, issued \cup {register[u].token}}
  PROVE  Club!Enter(u)
<1> DEFINE t == register[u].token
<1>1. t \in Token /\ t.user = u /\ Known(t)
  BY DEF IInv, Accounts, Known
<1>2. Club!Open(u)
  <2>1. register[u].ttl \in Nat
    BY DEF IInv, TypeOK, RegisterCall
  <2> QED
    BY <1>1, <2>1, StoreOpens
<1>3. \A c \in Cards : c.user # u
  BY DEF Cards, IInv, Tokens
<1>4. Roster' = Roster /\ Moderators' = Moderators /\ Renewing' = Renewing
  BY DEF Roster, Moderators, Renewing, Refreshing
<1> QED
  BY <1>2, <1>3, <1>4 DEF Club!Enter

LEMMA ClubRegister ==
  ASSUME IInv, NEW u \in Users,
         \/ RegisterBegin(u) \/ RegisterCreate(u) \/ RegisterConflict(u)
         \/ RegisterCheck(u) \/ RegisterStore(u) \/ RegisterFail(u)
  PROVE  \/ UNCHANGED Club!vars
         \/ Club!Enter(u)
         \/ \E n \in Names : Club!Join(u, n)
<1>1. CASE RegisterBegin(u) \/ RegisterConflict(u) \/ RegisterCheck(u)
  BY <1>1, ClubRests DEF RegisterBegin, RegisterConflict, RegisterCheck, hist
<1>2. CASE RegisterCreate(u)
  BY <1>2, CreateJoins DEF RegisterCreate, hist
<1>3. CASE RegisterStore(u)
  BY <1>3, StoreEnters DEF RegisterStore, hist
<1>4. CASE RegisterFail(u)
  <2>1. UNCHANGED <<now, refresh, issued>>
    BY <1>4 DEF RegisterFail
  <2>2. \/ UNCHANGED <<users, session>>
        \/ /\ register[u].pc = "create" /\ ~Taken(register[u].token.name)
           /\ Create(u) /\ UNCHANGED session
        \/ /\ register[u].pc = "store" /\ UNCHANGED users
           /\ Set(u, register[u].token, register[u].ttl)
    BY <1>4 DEF RegisterFail
  <2> QED
    BY <2>1, <2>2, ClubRests, CreateJoins, StoreEnters
<1> QED
  BY <1>1, <1>2, <1>3, <1>4

LEMMA ClubBegin ==
  ASSUME IInv, NEW s \in Slots, NEW t \in issued, RefreshBegin(s, t)
  PROVE  t.user \in Users /\ Club!Renew(t.user)
<1>1. t \in Token /\ t.user \in Users
  BY TokenFields DEF IInv, TypeOK
<1>2. t.user \in Inside
  BY <1>1 DEF RefreshBegin, Accepts, Inside
<1>3. \E c \in Cards : c.user = t.user
  <2> DEFINE card == [user |-> t.user, name |-> t.name, admin |-> t.admin]
  <2>1. card \in Cards /\ card.user = t.user
    BY DEF Cards
  <2> QED
    BY <2>1
<1>4. Renewing' = Renewing \cup {t.user}
  <2>1. /\ refresh[s].pc = "idle"
        /\ refresh'[s].pc = "load" /\ refresh'[s].old = t
        /\ \A r \in Slots \ {s} : refresh'[r] = refresh[r]
    BY DEF RefreshBegin, IInv, TypeOK
  <2>2. \A v \in Users : Refreshing(v)' <=> Refreshing(v) \/ v = t.user
    BY <2>1 DEF Refreshing
  <2> QED
    BY <1>1, <2>2 DEF Renewing
<1>5. Roster' = Roster /\ Moderators' = Moderators /\ Cards' = Cards /\ Inside' = Inside
  BY DEF RefreshBegin, Roster, Moderators, Cards, Inside, Live
<1> QED
  BY <1>1, <1>2, <1>3, <1>4, <1>5 DEF Club!Renew

\* The UPDATE of a Refresh call leaves its row as it was, but for the hash.
LEMMA UpdateRows ==
  ASSUME IInv, NEW s \in Slots, refresh[s].pc = "update", UpdateToken(s)
  PROVE  Roster' = Roster /\ Moderators' = Moderators
<1>1. refresh[s].new \in Token /\ users[refresh[s].new.user] # None /\ TypeOK
  BY DEF IInv, Tokens, Known
<1> QED
  BY <1>1, UpdateEffect, SameRows

LEMMA ClubRefresh ==
  ASSUME IInv, NEW s \in Slots,
         Rotates(s)
  PROVE  \/ UNCHANGED Club!vars
         \/ \E u \in Users : Club!Renewed(u)
<1> DEFINE u == refresh[s].old.user
           t == refresh[s].new
\* A call that ends without a session.
<1>1. ASSUME refresh[s].pc # "idle", refresh' = [refresh EXCEPT ![s] = Idle],
             Roster' = Roster, Moderators' = Moderators, UNCHANGED <<now, session, issued>>
      PROVE  u \in Users /\ Club!Renewed(u)
  <2>1. Cards' = Cards /\ Inside' = Inside
    BY <1>1 DEF Cards, Inside, Live
  <2> QED
    BY <1>1, <2>1, EndsRenewal DEF Club!Renewed
\* A call that ends with one.
<1>2. ASSUME refresh[s].pc = "store", refresh' = [refresh EXCEPT ![s] = Idle],
             Set(t.user, t, refresh[s].ttl), UNCHANGED <<now, users>>,
             issued' \in {issued, issued \cup {t}}
      PROVE  u \in Users /\ Club!Renewed(u)
  <2>1. t \in Token /\ t.user = u /\ Known(t)
    BY <1>2 DEF IInv, Tokens
  <2>2. u \in Users /\ u \in Renewing /\ Renewing' \in {Renewing, Renewing \ {u}}
    BY <1>2, EndsRenewal
  <2>3. Club!Open(u)
    <3>1. refresh[s].ttl \in Nat
      BY DEF IInv, TypeOK, RefreshCall
    <3> QED
      BY <1>2, <2>1, <2>2, <3>1, StoreOpens
  <2>4. Roster' = Roster /\ Moderators' = Moderators
    BY <1>2 DEF Roster, Moderators
  <2> QED
    BY <2>2, <2>3, <2>4 DEF Club!Renewed
<1>3. ASSUME users' = users PROVE Roster' = Roster /\ Moderators' = Moderators
  BY <1>3 DEF Roster, Moderators
<1>4. CASE RefreshLoad(s)
  <2>1. CASE refresh' = [refresh EXCEPT ![s] = Idle]
    BY <1>1, <1>3, <1>4, <2>1 DEF RefreshLoad
  <2>2. CASE refresh' = [refresh EXCEPT ![s].pc = "update",
                ![s].new = sign(refresh[s].old.user, users[refresh[s].old.user].name,
                                users[refresh[s].old.user].admin, now + TTL),
                ![s].expiresAt = now + TTL]
    <3>1. refresh \in [Slots -> RefreshCall] /\ refresh[s] \in RefreshCall
      BY DEF IInv, TypeOK
    <3>2. refresh'[s].pc # "idle" /\ refresh'[s].old = refresh[s].old
      BY <2>2, <3>1 DEF RefreshCall
    <3>3. \A r \in Slots \ {s} : refresh'[r] = refresh[r]
      BY <2>2, <3>1
    <3>4. Renewing' = Renewing
      BY <1>4, <3>2, <3>3, KeepsRenewal DEF RefreshLoad
    <3>5. Cards' = Cards /\ Inside' = Inside
      BY <1>4 DEF RefreshLoad, Cards, Inside, Live
    <3> QED
      BY <1>3, <1>4, <3>4, <3>5 DEF RefreshLoad, Club!vars
  <2> QED
    BY <1>4, <2>1, <2>2 DEF RefreshLoad
<1>5. CASE RefreshUpdate(s)
  <2>1. refresh \in [Slots -> RefreshCall] /\ refresh[s] \in RefreshCall
    BY DEF IInv, TypeOK
  <2>2. /\ refresh[s].pc # "idle" /\ refresh'[s].pc # "idle"
        /\ refresh'[s].old = refresh[s].old
        /\ \A r \in Slots \ {s} : refresh'[r] = refresh[r]
    BY <1>5, <2>1 DEF RefreshUpdate, RefreshCall
  <2>3. Renewing' = Renewing
    BY <2>2, KeepsRenewal
  <2>4. Cards' = Cards /\ Inside' = Inside
    BY <1>5 DEF RefreshUpdate, Cards, Inside, Live
  <2> QED
    BY <1>5, <2>3, <2>4, UpdateRows DEF RefreshUpdate, Club!vars
<1>6. CASE RefreshCheck(s)
  <2>1. CASE refresh' = [refresh EXCEPT ![s] = Idle]
    BY <1>1, <1>3, <1>6, <2>1 DEF RefreshCheck, hist
  <2>2. CASE refresh' = [refresh EXCEPT ![s].pc = "store",
                                        ![s].ttl = Until(refresh[s].expiresAt)]
    <3>1. refresh \in [Slots -> RefreshCall] /\ refresh[s] \in RefreshCall
      BY DEF IInv, TypeOK
    <3>2. /\ refresh[s].pc # "idle" /\ refresh'[s].pc # "idle"
          /\ refresh'[s].old = refresh[s].old
          /\ \A r \in Slots \ {s} : refresh'[r] = refresh[r]
      BY <1>6, <2>2, <3>1 DEF RefreshCheck, RefreshCall
    <3>3. Renewing' = Renewing
      BY <3>2, KeepsRenewal
    <3>4. Cards' = Cards /\ Inside' = Inside
      BY <1>6 DEF RefreshCheck, Cards, Inside, Live
    <3> QED
      BY <1>3, <1>6, <3>3, <3>4 DEF RefreshCheck, Club!vars
  <2> QED
    BY <1>6, <2>1, <2>2 DEF RefreshCheck
<1>7. CASE RefreshStore(s)
  BY <1>1, <1>2, <1>3, <1>7 DEF RefreshStore, hist
<1>8. CASE RefreshFail(s)
  <2>1. /\ refresh' = [refresh EXCEPT ![s] = Idle]
        /\ UNCHANGED <<now, issued>>
        /\ \/ refresh[s].pc = "load" /\ UNCHANGED <<users, session>>
           \/ /\ refresh[s].pc = "update" /\ UNCHANGED session
              /\ UNCHANGED users \/ UpdateToken(s)
           \/ refresh[s].pc = "store" /\ UNCHANGED <<users, session>>
           \/ /\ refresh[s].pc = "store" /\ UNCHANGED users
              /\ Set(t.user, t, refresh[s].ttl)
    BY <1>8 DEF RefreshFail
  <2> QED
    BY <1>1, <1>2, <1>3, <2>1, UpdateRows
<1> QED
  BY <1>4, <1>5, <1>6, <1>7, <1>8 DEF Rotates

\* Sessions end: all that the clock has passed, or one that is banned.
LEMMA ClubEnds ==
  ASSUME Inside' \subseteq Inside, UNCHANGED <<users, refresh, issued>>
  PROVE  \E S \in SUBSET Users : Club!Leave(S)
<1> DEFINE S == Inside \ Inside'
<1>1. S \in SUBSET Users /\ Inside' = Inside \ S
  BY DEF Inside
<1>2. Roster' = Roster /\ Moderators' = Moderators /\ Cards' = Cards /\ Renewing' = Renewing
  BY DEF Roster, Moderators, Cards, Renewing, Refreshing
<1>3. Club!Leave(S)
  BY <1>1, <1>2 DEF Club!Leave
<1> QED
  BY <1>1, <1>3

LEMMA ClubTick ==
  ASSUME IInv, Tick
  PROVE  \E S \in SUBSET Users : Club!Leave(S)
<1>1. ASSUME NEW u \in Users, session[u] # None, session[u].until # None,
             now + 1 < session[u].until
      PROVE  now < session[u].until
  BY <1>1 DEF IInv, TypeOK, Entry
<1>2. Inside' \subseteq Inside
  BY <1>1 DEF Tick, Inside, Live
<1> QED
  BY <1>2, ClubEnds DEF Tick

LEMMA ClubBan ==
  ASSUME IInv, NEW u \in Users, Ban(u)
  PROVE  \E S \in SUBSET Users : Club!Leave(S)
<1>1. session'[u] = None /\ \A v \in Users \ {u} : session'[v] = session[v]
  BY DelEffect DEF Ban, IInv
<1>2. Inside' \subseteq Inside
  BY <1>1 DEF Ban, Inside, Live
<1> QED
  BY <1>2, ClubEnds DEF Ban

LEMMA ClubPromote ==
  ASSUME IInv, NEW u \in Users, Promote(u)
  PROVE  Club!Appoint(u)
<1>1. users[u] \in Row /\ users[u] # None /\ TypeOK
  BY DEF Promote, IInv, TypeOK
<1>2. \A v \in Users \ {u} : users'[v] = users[v]
  BY <1>1 DEF Promote, TypeOK
<1>3. users'[u] # None /\ users'[u].name = users[u].name /\ users'[u].admin
  BY <1>1, PromoteEffect
<1>4. {v \in Users : users'[v] # None} = {v \in Users : users[v] # None}
  BY <1>1, <1>2, <1>3
<1>5. Roster' = Roster
  BY <1>2, <1>3, <1>4 DEF Roster
<1>6. Moderators' = Moderators \cup {u}
  BY <1>2, <1>3 DEF Moderators
<1>7. users[u].name \in Names /\ <<u, users[u].name>> \in Roster
  BY <1>1, RosterElem DEF Row
<1>8. Cards' = Cards /\ Inside' = Inside /\ Renewing' = Renewing
  BY DEF Promote, Cards, Inside, Live, Renewing, Refreshing
<1> QED
  BY <1>5, <1>6, <1>7, <1>8 DEF Club!Appoint

LEMMA ClubNext == IInv /\ [Next]_vars => [Club!Next]_(Club!vars)
<1> SUFFICES ASSUME IInv, [Next]_vars PROVE Club!Next \/ UNCHANGED Club!vars
  OBVIOUS
<1>1. CASE Tick
  BY <1>1, ClubTick DEF Club!Next
<1>2. ASSUME NEW u \in Users,
             \/ RegisterBegin(u) \/ RegisterCreate(u) \/ RegisterConflict(u)
             \/ RegisterCheck(u) \/ RegisterStore(u) \/ RegisterFail(u)
      PROVE  Club!Next \/ UNCHANGED Club!vars
  BY <1>2, ClubRegister DEF Club!Next
<1>3. ASSUME NEW u \in Users, Ban(u) PROVE Club!Next
  BY <1>3, ClubBan DEF Club!Next
<1>4. ASSUME NEW u \in Users, Promote(u) PROVE Club!Next
  BY <1>4, ClubPromote DEF Club!Next
<1>5. ASSUME NEW s \in Slots, NEW t \in issued, RefreshBegin(s, t) PROVE Club!Next
  BY <1>5, ClubBegin DEF Club!Next
<1>6. ASSUME NEW s \in Slots, Rotates(s)
      PROVE  Club!Next \/ UNCHANGED Club!vars
  BY <1>6, ClubRefresh DEF Club!Next
<1>7. CASE UNCHANGED vars
  BY <1>7, ClubRests DEF vars
<1> QED
  BY <1>1, <1>2, <1>3, <1>4, <1>5, <1>6, <1>7 DEF Next, Rotates

(***************************************************************************)
(* The statements of Register and Refresh, which no transaction holds       *)
(* together, are steps of Membership for every number of users and calls:   *)
(* names are taken once, a token says no more than the table, and only a    *)
(* Refresh begun while the session was open can open it again.              *)
(***************************************************************************)
THEOREM SessionImplementsMembership == Spec => ImplementsMembership
BY SessionInv, InitClub, ClubNext, PTL DEF Spec, ImplementsMembership, Club!Spec
=============================================================================
