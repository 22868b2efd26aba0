----------------------------- MODULE MCNetwork -----------------------------
(***************************************************************************)
(* What the program does over a network that fails: the calls of a public  *)
(* provider, the gate in front of its own API, the stream to a browser.    *)
(* They share nothing, so each behaviour is of one of them.                *)
(***************************************************************************)
EXTENDS ProviderCalls, AccessGate, EventStream

VARIABLE which

vars == <<which, callVars, gateVars, streamVars>>

Init ==
    /\ CallsInit /\ GateInit /\ StreamInit
    /\ which \in {"calls", "gate", "stream"}
    /\ which # "gate" => password = NoPassword
    /\ which # "stream" => mode = "live" /\ version = 0 /\ sequence = 0

KeepOthers(own) ==
    /\ own # "calls" => UNCHANGED callVars
    /\ own # "gate" => UNCHANGED gateVars
    /\ own # "stream" => UNCHANGED streamVars

Next ==
    /\ UNCHANGED which /\ KeepOthers(which)
    /\ \/ which = "calls" /\ CallsNext
       \/ which = "gate" /\ GateNext
       \/ which = "stream" /\ StreamNext

\* Time passes, sleepers are woken, and the HTTP client times out.
CallsFairness ==
    /\ WF_callVars(which = "calls" /\ Tick)
    /\ \A c \in Callers : WF_callVars(which = "calls" /\ CallStep(c))

\* Requests are served and timers fire.  The room owes no pick, and the network
\* may fail at any time and leave a socket silent for ever.
StreamFairness ==
    /\ WF_streamVars(which = "stream" /\ Subscribes)
    /\ WF_streamVars(which = "stream" /\ Browser)
    /\ WF_streamVars(which = "stream" /\ (BoardAnswers \/ Arrives))

Spec == Init /\ [][Next]_vars /\ CallsFairness /\ StreamFairness
=============================================================================
