---------------------------- MODULE ProviderCalls ----------------------------
(***************************************************************************)
(* Calls of a public provider: fhe.data.providers.base.with_retries around *)
(* one request, and the RateLimiter every SleeperProvider of the process   *)
(* shares.  The body of acquire has no await under its lock, so it is one  *)
(* step; the sleeps, the back-off and the request are where callers meet.  *)
(*                                                                         *)
(* Tokens are counted in units: a tick adds Rate of them, Unit is a token. *)
(* Times are kept as ages and waits left, so the clock needs no bound.     *)
(***************************************************************************)
EXTENDS Integers, Sequences, FiniteSetsExt

CONSTANTS Callers,       \* tasks that use the provider: pollers, lookups
          Rate, Unit, Burst,
          MaxAttempts,   \* RetryPolicy.max_attempts
          MaxDelay,      \* RetryPolicy.max_delay_seconds, in ticks
          MaxCalls,      \* bound: calls a caller makes
          Window         \* bound: how far back sent requests are remembered

ASSUME LimiterAssumption ==
    /\ {Rate, Unit, Burst, MaxAttempts} \subseteq Nat \ {0}
    /\ MaxDelay \in Nat /\ MaxCalls \in Nat /\ Window \in Nat

VARIABLES
    tokens, idle,    \* units in the bucket, ticks since they were counted
    call,            \* per caller: where it is, its attempt, the ticks it still waits
    made,            \* calls begun
    sent             \* ages of the requests sent within the window, youngest last

limiter == <<tokens, idle>>
callVars == <<limiter, call, made, sent>>

Capacity == Burst * Unit

\* Mutated: an idle limiter saves up more than its capacity.
Uncapped == tokens + idle * Rate

Refilled == Min({Capacity, tokens + idle * Rate})

\* Rounded up: asyncio.sleep never returns early.
TicksFor(units) == (units + Rate - 1) \div Rate

\* Twice the delay for each attempt after the first retry, up to the maximum.
BackoffCap(attempt) == Min({MaxDelay, 2^(attempt - 2)})

\* 404 is an answer where the lookup allows it; a body that is not JSON and a
\* connection that fails have no status and are never retried.
Outcomes == {"ok", "missing", "transient", "refused", "garbled"}

Answers(allowMissing) == IF allowMissing THEN {"ok", "missing"} ELSE {"ok"}

Retryable == {"transient"}

CallsInit ==
    /\ tokens = Capacity /\ idle = 0 /\ sent = <<>>
    /\ call = [c \in Callers |-> [pc |-> "idle", attempt |-> 0, wait |-> 0, lax |-> FALSE]]
    /\ made = [c \in Callers |-> 0]

Begin(c) ==
    /\ call[c].pc \in {"idle", "done", "failed"} /\ made[c] < MaxCalls
    /\ \E allowMissing \in BOOLEAN :
          call' = [call EXCEPT ![c] = [pc |-> "acquire", attempt |-> 1, wait |-> 0,
                                       lax |-> allowMissing]]
    /\ made' = [made EXCEPT ![c] = @ + 1]
    /\ UNCHANGED <<limiter, sent>>

\* Mutated: a caller that gets no token forgets the time it has measured.
Unrefilled == tokens

Kept == Refilled

\* A token, or the sleep until the deficit is made up and then the loop again.
Acquire(c) ==
    /\ call[c].pc = "acquire"
    /\ idle' = 0
    /\ \/ /\ Refilled >= Unit
          /\ tokens' = Refilled - Unit
          /\ call' = [call EXCEPT ![c].pc = "sent"]
          /\ sent' = Append(sent, 0)
       \/ /\ Refilled < Unit
          /\ tokens' = Kept
          /\ call' = [call EXCEPT ![c].pc = "asleep", ![c].wait = TicksFor(Unit - Refilled)]
          /\ UNCHANGED sent
    /\ UNCHANGED made

\* The end of a sleep in acquire or of a back-off: the loop goes round.
Awake(c) ==
    /\ call[c].pc \in {"asleep", "backoff"} /\ call[c].wait = 0
    /\ call' = [call EXCEPT ![c].pc = "acquire"]
    /\ UNCHANGED <<limiter, made, sent>>

Answer(c, outcome) ==
    /\ call[c].pc = "sent"
    /\ \/ /\ outcome \in Answers(call[c].lax)
          /\ call' = [call EXCEPT ![c].pc = "done"]
       \/ /\ outcome \notin Answers(call[c].lax)
          /\ outcome \notin Retryable \/ call[c].attempt = MaxAttempts
          /\ call' = [call EXCEPT ![c].pc = "failed"]
       \/ /\ outcome \notin Answers(call[c].lax)
          /\ outcome \in Retryable /\ call[c].attempt < MaxAttempts
          /\ \E delay \in 0..BackoffCap(call[c].attempt + 1) :
                call' = [call EXCEPT ![c].pc = "backoff", ![c].attempt = @ + 1, ![c].wait = delay]
    /\ UNCHANGED <<limiter, made, sent>>

\* The ages a second later, without those beyond the window (oldest first).
Remembered(ages) ==
    LET old == Cardinality({i \in DOMAIN ages : ages[i] >= Window})
    IN  [i \in 1..(Len(ages) - old) |-> ages[i + old] + 1]

\* A second passes: what is older than the window is forgotten, and time beyond
\* what fills the bucket is not told apart.
Tick ==
    /\ idle' = Min({idle + 1, TicksFor(Capacity)})
    /\ call' = [c \in Callers |-> [call[c] EXCEPT !.wait = Max({@ - 1, 0})]]
    /\ sent' = Remembered(sent)
    /\ UNCHANGED <<tokens, made>>

CallStep(c) == Acquire(c) \/ Awake(c) \/ \E o \in Outcomes : Answer(c, o)

CallsNext == (\E c \in Callers : Begin(c) \/ CallStep(c)) \/ Tick

CallsSpec == CallsInit /\ [][CallsNext]_callVars

-----------------------------------------------------------------------------
\* "A limiter that counts what the provider counts": however many callers share
\* it, wait, retry or arrive at once after a pause, no stretch of time holds more
\* requests than the burst and what the rate allows for it.
NeverAboveTheRate ==
    \A i \in DOMAIN sent :
        (Len(sent) - i + 1) * Unit <= Capacity + (sent[i] - sent[Len(sent)]) * Rate

\* No caller sleeps for ever for a token that others keep the limiter from counting.
CallsEnd == \A c \in Callers : call[c].pc = "acquire" ~> call[c].pc \in {"done", "failed"}
=============================================================================
