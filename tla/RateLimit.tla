----------------------------- MODULE RateLimit -----------------------------
(***************************************************************************)
(* The sliding windows of internal/middleware/ratelimit.go: a sorted set in *)
(* Redis per scope and subject, into which every check of a request puts    *)
(* the clock it has read.  A check reads the clock twice (milliseconds for  *)
(* the score, nanoseconds for the member) and then executes one transaction *)
(* of Redis.  Checks of concurrent requests interleave between the three,   *)
(* so a transaction may carry a clock older than one executed before it.    *)
(*                                                                          *)
(* Times are milliseconds; two readings of the nanosecond clock differ if   *)
(* they fall in different parts of a millisecond.                           *)
(***************************************************************************)
EXTENDS Integers, FiniteSets

CONSTANTS
  Checks,    \* executions of a limiter's handler
  Subjects,  \* values of subjectKey: the hash of a bearer token, or anonymous
  Requests,  \* SERVER_RATE_LIMIT_REQUESTS
  Window,    \* SERVER_RATE_LIMIT_WINDOW, once NewRateLimit has seen it
  Grace,     \* how much longer a key lives (5 seconds, as EXPIRE truncates them)
  Parts,     \* the parts of a millisecond
  MaxTime,   \* bound: the last millisecond of the model
  Faults,    \* whether a transaction may fail
  None

VARIABLES
  now,       \* the clock
  zset,      \* the sorted set of a key
  expire,    \* when the key expires
  check      \* the state of a check

vars == <<now, zset, expire, check>>

ASSUME RateLimitAssumption ==
  /\ IsFiniteSet(Checks)
  /\ Requests \in Int
  /\ Window \in Nat \ {0} /\ Grace \in Nat
  /\ MaxTime \in Nat /\ Faults \in BOOLEAN

Scopes == {"general", "posts"}
Keys == [scope : Scopes, subject : Subjects]
Member == [milli : Nat, part : Parts]
Entry == [member : Member, score : Nat]

ASSUME NoneAssumption == None \notin Keys \cup Member

\* NewRateLimit's default, and the sixth of the limit that main.go gives to
\* the creation of posts.
GeneralLimit == IF Requests <= 0 THEN 60 ELSE Requests
PostCreateLimit == IF Requests < 6 THEN 1 ELSE Requests \div 6
Limit(k) == IF k.scope = "general" THEN GeneralLimit ELSE PostCreateLimit

Check == [pc : {"idle", "member", "exec", "admitted", "refused", "error"},
          key : Keys \cup {None}, milli : Nat, member : Member \cup {None},
          hit : BOOLEAN, at : Nat]

Init ==
  /\ now = 0
  /\ zset = [k \in Keys |-> {}]
  /\ expire = [k \in Keys |-> 0]
  /\ check = [x \in Checks |-> [pc |-> "idle", key |-> None, milli |-> 0,
                                member |-> None, hit |-> FALSE, at |-> 0]]

Tick ==
  /\ now < MaxTime
  /\ now' = now + 1
  /\ UNCHANGED <<zset, expire, check>>
-----------------------------------------------------------------------------
\* nowMillis, and the key.
Begin(x, k) ==
  /\ check[x].pc = "idle"
  /\ check' = [check EXCEPT ![x].pc = "member", ![x].key = k, ![x].milli = now]
  /\ UNCHANGED <<now, zset, expire>>

\* UnixNano.
ReadMember(x) ==
  /\ check[x].pc = "member"
  /\ \E p \in Parts :
       check' = [check EXCEPT ![x].pc = "exec",
                              ![x].member = [milli |-> now, part |-> p]]
  /\ UNCHANGED <<now, zset, expire>>

\* What Redis holds under a key.
Live(k) == IF now < expire[k] THEN zset[k] ELSE {}

\* Mutant: the bound is exclusive.
TrimExclusive(z, start) == {e \in z : e.score >= start}

\* ZRemRangeByScore -inf start.
Trim(z, start) == {e \in z : e.score > start}

\* Mutant: the members are the milliseconds.
AddMilli(z, m, s) ==
  LET n == [m EXCEPT !.part = CHOOSE p \in Parts : TRUE]
  IN  {e \in z : e.member # n} \cup {[member |-> n, score |-> s]}

\* ZAdd: a member that is there already gets the new score.
Add(z, m, s) == {e \in z : e.member # m} \cup {[member |-> m, score |-> s]}

\* Mutants: the key lives as long as the window; the time to live is not set
\* off from the clock.
ExpiryShort == now + Window
ExpiryPast == now - Window - Grace

\* Expire.
Expiry == now + Window + Grace

\* The set after the transaction of check x.
After(x) ==
  LET c == check[x]
  IN  Add(Trim(Live(c.key), c.milli - Window), c.member, c.milli)

\* The transaction takes effect.
Store(x) ==
  /\ zset' = [zset EXCEPT ![check[x].key] = After(x)]
  /\ expire' = [expire EXCEPT ![check[x].key] = Expiry]

Exec(x) ==
  /\ check[x].pc = "exec"
  /\ Store(x)
  /\ check' = [check EXCEPT ![x].hit = TRUE, ![x].at = now,
       ![x].pc = IF Cardinality(After(x)) > Limit(check[x].key)
                 THEN "refused" ELSE "admitted"]
  /\ UNCHANGED now

\* The transaction fails, with or without effect: status 500.
ExecError(x) ==
  /\ Faults
  /\ check[x].pc = "exec"
  /\ \/ /\ Store(x)
        /\ check' = [check EXCEPT ![x].pc = "error", ![x].hit = TRUE, ![x].at = now]
     \/ /\ check' = [check EXCEPT ![x].pc = "error"]
        /\ UNCHANGED <<zset, expire>>
  /\ UNCHANGED now

Next ==
  \/ Tick
  \/ \E x \in Checks :
       \/ \E k \in Keys : Begin(x, k)
       \/ ReadMember(x) \/ Exec(x) \/ ExecError(x)

Spec == Init /\ [][Next]_vars
-----------------------------------------------------------------------------
TypeOK ==
  /\ now \in Nat
  /\ zset \in [Keys -> SUBSET Entry]
  /\ expire \in [Keys -> Nat]
  /\ check \in [Checks -> Check]

\* The checks that have changed the set of a key.
Hits(k) == {x \in Checks : check[x].hit /\ check[x].key = k}

\* Those in the window that ends at the newest clock the key has seen.
Current(k) ==
  {x \in Hits(k) : \A y \in Hits(k) : check[x].milli > check[y].milli - Window}

\* No other check has read the same nanosecond.
Lone(x) == \A y \in Hits(check[x].key) : check[y].member = check[x].member => y = x

\* The transaction followed the clock it carries within the grace of the key.
Prompt(x) == check[x].at <= check[x].milli + Grace

(***************************************************************************)
(* However checks overtake each other between reading the clock and their   *)
(* transaction, fail or are refused, no more than the limit are admitted in *)
(* the window that ends at the newest clock, as long as their nanoseconds   *)
(* differ and they reach Redis within the grace the key is given.           *)
(***************************************************************************)
WindowBound ==
  \A k \in Keys :
    Cardinality({x \in Current(k) : check[x].pc = "admitted" /\ Lone(x) /\ Prompt(x)})
      <= Limit(k)

\* The checks admitted no more than d after the clock they carry, which is in
\* the stretch of Window - d that ends at e.
Within(k, d, e) ==
  {x \in Hits(k) : /\ check[x].pc = "admitted" /\ Lone(x)
                   /\ check[x].at <= check[x].milli + d
                   /\ e - Window + d < check[x].milli /\ check[x].milli <= e}

(***************************************************************************)
(* Wherever a window is laid, not only at the newest clock, no more than   *)
(* the limit are admitted in it among checks that reach Redis at once; and *)
(* checks that take up to d to reach it shorten the window by d, no more.  *)
(* A set that was trimmed for a later clock has not forgotten any of them. *)
(***************************************************************************)
EveryWindowBound ==
  \A k \in Keys : \A d \in 0..Window, e \in 0..now : Cardinality(Within(k, d, e)) <= Limit(k)

(***************************************************************************)
(* Nobody is refused for requests that are out of the window: a check that  *)
(* is refused had more than the limit, itself among them, whose clocks are  *)
(* less than a window behind its own.                                       *)
(***************************************************************************)
RefusedOnlyWhenBusy ==
  \A x \in Checks : check[x].pc = "refused" =>
    Cardinality({y \in Hits(check[x].key) :
                   /\ check[y].at <= check[x].at
                   /\ check[y].milli > check[x].milli - Window}) > Limit(check[x].key)
=============================================================================
