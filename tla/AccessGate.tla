----------------------------- MODULE AccessGate -----------------------------
(***************************************************************************)
(* The shared password in front of the API: the signed cookie and the      *)
(* attempt limiter of api/services/access.py, the three endpoints of       *)
(* routers/auth.py, AccessGateMiddleware, and what AccessGate.tsx shows.   *)
(* One browser per address.  The password may change when the process is   *)
(* restarted; the limiter then starts empty and the cookies go on.         *)
(*                                                                         *)
(* Times are ticks left or ticks gone by, so the clock needs no bound.     *)
(***************************************************************************)
EXTENDS Naturals, Sequences, FiniteSets

CONSTANTS Addresses, Passwords,
          MaxFailures, Lockout,   \* AttemptLimiter's
          SessionLife             \* access_session_hours, in ticks

NoPassword == "no password"    \* access_enabled is False

ASSUME GateAssumption == {MaxFailures, Lockout, SessionLife} \subseteq Nat \ {0}

VARIABLES
    password, used,   \* the configured one; those ever configured (one is not taken up again)
    failures,         \* _failures: the count and the ticks until it is void
    cookie,           \* the browser's: the key it is signed with, the ticks it is good for
    shown,            \* what the browser's page shows
    answering,        \* the answer on its way to the page's status query
    since,            \* history: ticks since the sign-in that counts, at most SessionLife
    guesses           \* history: ages of the wrong guesses heard, since a restart or a success

gateVars == <<password, used, failures, cookie, shown, answering, since, guesses>>

Nobody == "nobody"

NoCookie == [key |-> Nobody, left |-> 0]

Clean == [count |-> 0, left |-> 0]

Enabled == password # NoPassword

\* Mutated: the signature does not depend on the password.
SignedByAnyKey(a) == cookie[a].key # Nobody /\ cookie[a].left > 0

TokenIsValid(a) == cookie[a].key = password /\ cookie[a].left > 0

IsLocked(a) == failures[a].left > 0 /\ failures[a].count >= MaxFailures

\* Mutated: the window is that of the first failure.
FixedWindow(a) ==
    IF failures[a].left = 0 THEN [count |-> 1, left |-> Lockout]
    ELSE [failures[a] EXCEPT !.count = @ + 1]

AfterFailure(a) ==
    [count |-> (IF failures[a].left = 0 THEN 0 ELSE failures[a].count) + 1, left |-> Lockout]

GateStatus(a) == IF ~ Enabled THEN "open" ELSE IF TokenIsValid(a) THEN "in" ELSE "out"

\* The middleware, of a request for anything but health, metrics and the gate itself.
Admitted(a) == ~ Enabled \/ TokenIsValid(a)

GateInit ==
    /\ password \in Passwords \cup {NoPassword} /\ used = {password}
    /\ failures = [a \in Addresses |-> Clean]
    /\ cookie = [a \in Addresses |-> NoCookie]
    /\ shown = [a \in Addresses |-> "nothing"]
    /\ answering = [a \in Addresses |-> "none"]
    /\ since = [a \in Addresses |-> SessionLife]
    /\ guesses = [a \in Addresses |-> <<>>]

\* POST /auth/session.  A success refetches everything, the status first of all.
SignIn(a, candidate) ==
    /\ shown[a] = "form"
    /\ UNCHANGED <<password, used>>
    /\ \/ /\ ~ Enabled
          /\ answering' = [answering EXCEPT ![a] = "asked"]
          /\ UNCHANGED <<failures, cookie, since, guesses, shown>>
       \/ /\ Enabled /\ IsLocked(a)
          /\ UNCHANGED <<failures, cookie, since, guesses, shown, answering>>
       \/ /\ Enabled /\ ~ IsLocked(a) /\ candidate # password
          /\ failures' = [failures EXCEPT ![a] = AfterFailure(a)]
          /\ guesses' = [guesses EXCEPT ![a] = Append(@, 0)]
          /\ UNCHANGED <<cookie, since, shown, answering>>
       \/ /\ Enabled /\ ~ IsLocked(a) /\ candidate = password
          /\ failures' = [failures EXCEPT ![a] = Clean]
          /\ guesses' = [guesses EXCEPT ![a] = <<>>]
          /\ cookie' = [cookie EXCEPT ![a] = [key |-> password, left |-> SessionLife]]
          /\ since' = [since EXCEPT ![a] = 0]
          /\ answering' = [answering EXCEPT ![a] = "asked"]
          /\ UNCHANGED shown

\* DELETE /auth/session.
SignOut(a) ==
    /\ cookie' = [cookie EXCEPT ![a] = NoCookie]
    /\ since' = [since EXCEPT ![a] = SessionLife]
    /\ UNCHANGED <<password, used, failures, shown, answering, guesses>>

\* The page is loaded, or asks again.
AskStatus(a) ==
    /\ answering[a] = "none" /\ shown[a] \in {"nothing", "app"}
    /\ answering' = [answering EXCEPT ![a] = "asked"]
    /\ UNCHANGED <<password, used, failures, cookie, shown, since, guesses>>

SessionStatus(a) ==
    /\ answering[a] = "asked"
    /\ answering' = [answering EXCEPT ![a] = GateStatus(a)]
    /\ UNCHANGED <<password, used, failures, cookie, shown, since, guesses>>

\* An unreachable API is not a locked one: the app explains it better.
Show(a) ==
    /\ \/ /\ answering[a] \in {"open", "in", "out"}
          /\ shown' = [shown EXCEPT ![a] = IF answering[a] = "out" THEN "form" ELSE "app"]
       \/ /\ answering[a] = "asked"
          /\ shown' = [shown EXCEPT ![a] = "app"]
    /\ answering' = [answering EXCEPT ![a] = "none"]
    /\ UNCHANGED <<password, used, failures, cookie, since, guesses>>

RestartWith(new) ==
    /\ new = password \/ new \notin used
    /\ password' = new /\ used' = used \cup {new}
    /\ failures' = [a \in Addresses |-> Clean]
    /\ guesses' = [a \in Addresses |-> <<>>]
    /\ since' = IF new = password THEN since ELSE [a \in Addresses |-> SessionLife]
    /\ UNCHANGED <<cookie, shown, answering>>

\* The ages a second later, without those that reach the lockout (oldest first).
Older(ages) ==
    LET old == Cardinality({i \in DOMAIN ages : ages[i] + 1 >= Lockout})
    IN  [i \in 1..(Len(ages) - old) |-> ages[i + old] + 1]

LessOne(n) == IF n = 0 THEN 0 ELSE n - 1

Passes ==
    /\ failures' = [a \in Addresses |-> [failures[a] EXCEPT !.left = LessOne(@)]]
    /\ cookie' = [a \in Addresses |-> [cookie[a] EXCEPT !.left = LessOne(@)]]
    /\ since' = [a \in Addresses |-> IF since[a] = SessionLife THEN SessionLife ELSE since[a] + 1]
    /\ guesses' = [a \in Addresses |-> Older(guesses[a])]
    /\ UNCHANGED <<password, used, shown, answering>>

GateNext ==
    \/ Passes
    \/ \E new \in Passwords \cup {NoPassword} : RestartWith(new)
    \/ \E a \in Addresses :
          \/ SignOut(a) \/ AskStatus(a) \/ SessionStatus(a) \/ Show(a)
          \/ \E candidate \in Passwords : SignIn(a, candidate)

GateSpec == GateInit /\ [][GateNext]_gateVars

-----------------------------------------------------------------------------
\* "Refuses an address that keeps guessing": in no stretch as long as the lockout are
\* more wrong passwords compared than the limiter allows, however they are spread over
\* the windows it opens and closes (a success or a restart starts afresh).
GuessesAreBounded == \A a \in Addresses : Len(guesses[a]) <= MaxFailures

\* "A restart mid-draft does not log everybody out; it expires; and changing the
\* password invalidates every existing session": a protected instance admits a browser
\* exactly while a sign-in of the last SessionLife ticks was neither undone by a
\* sign-out nor by another password.
TheCookieIsTheSession ==
    \A a \in Addresses : Enabled => (Admitted(a) <=> since[a] < SessionLife)
=============================================================================
