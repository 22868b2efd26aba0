---------------------------- MODULE PollerOverlap ----------------------------
(***************************************************************************)
(* PollerManager with a history: whether a connect ever overlapped the end *)
(* of an earlier poller of its draft.                                      *)
(***************************************************************************)
EXTENDS PollerManager

VARIABLE overlapped

history == <<vars, overlapped>>

\* An earlier poller of d is being stopped, winding down, or awaits its callback.
Ending(d) ==
    \/ \E t \in DOMAIN draftOf :
          draftOf[t] = d /\ (task[t] \in Done \cup {"cancelled"} \/ (t \in asked /\ task[t] = "polling"))
    \/ \E c \in Callers : caller[c] # "idle" /\ draftOf[waitsFor[c]] = d

HistoryInit == Init /\ overlapped = FALSE

\* A connect is answered with a new poller or with the one that runs.
Connect(d) ==
    /\ phase = "open"
    /\ Start(d) \/ (TrackedAlive(d) /\ UNCHANGED vars)
    /\ overlapped' = (overlapped \/ Ending(d))

Others == \/ \E t \in Tasks : Finish(t) \/ Callback(t)
          \/ \E c \in Handlers, d \in Drafts : Disconnect(c, d)
          \/ \E c \in Callers : StopEnds(c)
          \/ ShutDown \/ StopNext \/ AllStopped

HistoryNext ==
    \/ \E d \in Drafts : Connect(d)
    \/ Others /\ UNCHANGED overlapped

HistorySpec == HistoryInit /\ [][HistoryNext]_history

FairHistorySpec == HistorySpec /\ Fairness

Polling == {t \in Tasks : task[t] = "polling"}

\* Unless a connect overlapped the end of an earlier poller, a draft has at most
\* one poller and the manager tracks every one of them, whatever order tasks,
\* callbacks and timeouts run in.
OnePollerUnlessOverlapped ==
    ~overlapped => \A t, u \in Polling : draftOf[t] = draftOf[u] => t = u

EveryPollerTrackedUnlessOverlapped ==
    ~overlapped => \A t \in Polling : draftOf[t] \in DOMAIN running /\ running[draftOf[t]] = t

\* "A hard ceiling on concurrent live drafts in one process."
PollersWithinLimitUnlessOverlapped == ~overlapped => Cardinality(Polling) <= MaxPollers
=============================================================================
