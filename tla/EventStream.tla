----------------------------- MODULE EventStream -----------------------------
(***************************************************************************)
(* The board in a browser: fhe.api.events.InProcessEventBus and the        *)
(* sequence counter on one side, useDraftStream and the board query of the *)
(* war room on the other.  One draft, one browser.                         *)
(*                                                                         *)
(* Events carry no board: the browser answers them by reading the board,   *)
(* over another connection.  A frame is numbered; neither bus replays one. *)
(* The queue of the subscription stands for the socket's buffers as well:  *)
(* both are in order and both are lost with the connection.                *)
(***************************************************************************)
EXTENDS Integers, Sequences

CONSTANTS QueueSize,    \* SUBSCRIBER_QUEUE_SIZE
          MaxVersion,   \* bound: changes of the draft
          MaxSequence,  \* bound: events published
          MaxBreaks     \* bound: connections lost, API restarts among them

ASSUME QueueAssumption == QueueSize \in Nat \ {0}
ASSUME BoundAssumption == MaxVersion \in Nat /\ MaxSequence \in Nat /\ MaxBreaks \in Nat

\* No board on screen; no read of it in flight, and one not answered yet.
NotLoaded == -1
NoRead == -2
Asked == -1

VARIABLES
    mode,         \* "live" or "mock"
    version,      \* changes made to the draft so far
    announced,    \* version the last BOARD_UPDATED told of
    pending,      \* picks are applied and not told yet (the recorder is awaited)
    sequence,     \* last number given to an event of this draft
    socket,       \* the browser's connection
    subscription, \* events waiting in its subscription
    seenNo,       \* sequenceRef
    shownStatus,  \* socketState
    onScreen,     \* version of the board on screen
    fetch,        \* the read of the board in flight: Asked, or the version it carries
    failed,       \* the last read failed: an error is shown instead of a board
    breaks,
    blind         \* history: see Blinding

room == <<mode, version, announced, pending>>
client == <<seenNo, shownStatus>>
query == <<onScreen, fetch, failed>>
streamVars == <<room, sequence, socket, subscription, client, query, breaks, blind>>

\* The war room mounts: the board is asked for and the stream is opened.
StreamInit ==
        /\ mode \in {"live", "mock"}
        /\ version \in {0, 1} /\ announced = version /\ pending = FALSE
        /\ sequence \in {0, 2}
        /\ socket = "opening" /\ subscription = <<>>
        /\ seenNo = 0 /\ shownStatus = "DISCONNECTED"
        /\ onScreen = NotLoaded /\ fetch = Asked /\ failed = FALSE
        /\ breaks = 0 /\ blind = FALSE

-----------------------------------------------------------------------------
(* The server *)

Subscribed == socket \in {"subscribed", "open", "silent"}

\* put_nowait of each in turn; the RESYNC_REQUIRED offered to a full queue finds it
\* full too.
Offered(q, events) ==
    LET all == q \o events
    IN  IF Len(all) <= QueueSize THEN all ELSE SubSeq(all, 1, QueueSize)

\* Events of the given types are numbered and published in one go: neither lock
\* is ever held across a suspension.
Published(types) ==
    /\ sequence + Len(types) <= MaxSequence
    /\ sequence' = sequence + Len(types)
    /\ LET events == [i \in 1..Len(types) |-> [type |-> types[i], no |-> sequence + i]]
       IN  subscription' = IF Subscribed THEN Offered(subscription, events) ELSE <<>>

VersionGrows == version < MaxVersion /\ version' = version + 1

\* The poller applies picks, and tells the room once they are recorded.
LivePicks == /\ mode = "live" /\ ~pending
             /\ VersionGrows /\ pending' = TRUE
             /\ UNCHANGED <<mode, announced, sequence, socket, subscription, client, query, breaks, blind>>

LiveTells == /\ pending /\ pending' = FALSE
             /\ announced' = version
             /\ Published(<<"pick_made", "board_updated">>)
             /\ UNCHANGED <<mode, version, socket, client, query, breaks, blind>>

\* A reconnect merges the provider's picks into the session and tells nobody.
Merge == /\ mode = "live"
         /\ VersionGrows
         /\ UNCHANGED <<mode, announced, pending, sequence, socket, subscription, client, query,
                        breaks, blind>>

\* advance and make_user_pick tell of their picks, reset of the board only.
MockChanges == /\ mode = "mock"
               /\ VersionGrows /\ announced' = version'
               /\ \/ Published(<<"pick_made", "board_updated">>)
                  \/ Published(<<"board_updated">>)
               /\ UNCHANGED <<mode, pending, socket, client, query, breaks, blind>>

\* draft_complete, or the connection_status of a poller that fails or recovers.
Remarks == /\ Published(<<"remark">>)
           /\ UNCHANGED <<room, socket, client, query, breaks, blind>>

\* stream_events registers the queue before the response starts.
Subscribes == /\ socket = "opening" /\ socket' = "subscribed"
              /\ UNCHANGED <<room, sequence, subscription, client, query, breaks, blind>>

-----------------------------------------------------------------------------
(* The browser *)

\* Mutated: the board is asked for once, and the read in flight answers for later.
KeepsReadInFlight == IF fetch = NoRead THEN Asked ELSE fetch

\* invalidateQueries: a read in flight is abandoned for a new one, except while
\* nothing was ever loaded.
AskedAgain == IF onScreen = NotLoaded /\ fetch # NoRead THEN fetch ELSE Asked

\* The very first read was answered by the server before it is asked for again.
FirstReadIsOld == onScreen = NotLoaded /\ fetch >= 0

ReadsBoard == fetch' = AskedAgain /\ failed' = FALSE /\ UNCHANGED onScreen

\* Mutated: the number the stream opens at is taken as it is.
NeverGap(n) == FALSE

\* event.sequence > expected && sequenceRef.current > 0
IsGap(n) == n > seenNo + 1 /\ seenNo > 0

Advanced(n) == IF n > seenNo THEN n ELSE seenNo

\* Where the number a stream opens at cannot show what was missed: the browser
\* has none to compare it with, or only a reset was missed and it is the next one.
Blinding(n) == \/ seenNo = 0 /\ n > 0
               \/ mode = "mock" /\ n = seenNo + 1

\* connection_status, sent with the counter's current number; no onEvent re-read.
FirstFrame ==
    /\ socket = "subscribed" /\ socket' = "open"
    /\ shownStatus' = "LIVE" /\ seenNo' = Advanced(sequence)
    /\ IF IsGap(sequence)
       THEN ReadsBoard /\ blind' = (blind \/ FirstReadIsOld)
       ELSE UNCHANGED query /\ blind' = (blind \/ Blinding(sequence))
    /\ UNCHANGED <<room, sequence, subscription, breaks>>

Rereads(e) == e.type \in {"pick_made", "board_updated"} \/ IsGap(e.no)

Deliver ==
    /\ socket = "open" /\ subscription # <<>>
    /\ subscription' = Tail(subscription)
    /\ shownStatus' = "LIVE" /\ seenNo' = Advanced(Head(subscription).no)
    /\ IF Rereads(Head(subscription)) THEN ReadsBoard /\ blind' = (blind \/ FirstReadIsOld)
                               ELSE UNCHANGED <<query, blind>>
    /\ UNCHANGED <<room, sequence, socket, breaks>>

\* Fifteen seconds without an event.
Heartbeat ==
    /\ socket = "open" /\ subscription = <<>>
    /\ shownStatus' = "LIVE" /\ seenNo' = Advanced(sequence)
    /\ IF sequence > seenNo THEN ReadsBoard /\ blind' = (blind \/ FirstReadIsOld)
                          ELSE UNCHANGED <<query, blind>>
    /\ UNCHANGED <<room, sequence, socket, subscription, breaks>>

\* Open and dead looks like open and quiet, until the stale timer fires.
FallsSilent == /\ socket = "open" /\ breaks < MaxBreaks
               /\ socket' = "silent" /\ breaks' = breaks + 1
               /\ UNCHANGED <<room, sequence, subscription, client, query, blind>>

\* Mutated: a timer that expects the state it is about to set.
OnceStale == shownStatus = "STALE"

SaysLive == shownStatus = "LIVE"

StaleTimer == /\ socket = "silent" /\ SaysLive
              /\ shownStatus' = "STALE"
              /\ UNCHANGED <<room, sequence, socket, subscription, seenNo, query, breaks, blind>>

ComesBack == /\ socket = "silent" /\ socket' = "open"
             /\ UNCHANGED <<room, sequence, subscription, client, query, breaks, blind>>

\* onerror, whatever the connection was at: close, back off.
SocketClosed == /\ socket' = "closed" /\ subscription' = <<>>
          /\ shownStatus' = "RECONNECTING"

SocketBreaks == /\ socket # "closed" /\ breaks < MaxBreaks
          /\ SocketClosed /\ breaks' = breaks + 1
          /\ UNCHANGED <<room, sequence, seenNo, query, blind>>

\* The process is replaced: numbering starts over and what was not told is not.
ApiRestarts == /\ breaks < MaxBreaks /\ breaks' = breaks + 1
            /\ sequence' = 0 /\ pending' = FALSE /\ blind' = TRUE
            /\ SocketClosed
            /\ UNCHANGED <<mode, version, announced, seenNo, query>>

\* The backoff ends: the board is read, and the stream opened.
Reconnects ==
    /\ socket = "closed" /\ socket' = "opening"
    /\ ReadsBoard /\ blind' = (blind \/ FirstReadIsOld)
    /\ UNCHANGED <<room, sequence, subscription, client, breaks>>

\* get_board evaluates the draft as it is; the answer arrives, or the read and
\* its one retry fail.
BoardAnswers == /\ fetch = Asked /\ fetch' = version
           /\ UNCHANGED <<room, sequence, socket, subscription, client, onScreen, failed, breaks, blind>>

Arrives == /\ fetch >= 0
           /\ onScreen' = fetch /\ fetch' = NoRead /\ failed' = FALSE
           /\ UNCHANGED <<room, sequence, socket, subscription, client, breaks, blind>>

ReadFails == /\ fetch # NoRead
             /\ fetch' = NoRead /\ failed' = TRUE
             /\ UNCHANGED <<room, sequence, socket, subscription, client, onScreen, breaks, blind>>

-----------------------------------------------------------------------------
Server == LivePicks \/ LiveTells \/ Merge \/ MockChanges \/ Remarks \/ Subscribes
Browser == FirstFrame \/ Deliver \/ Heartbeat \/ StaleTimer \/ Reconnects
Network == FallsSilent \/ ComesBack \/ SocketBreaks \/ ApiRestarts
Reading == BoardAnswers \/ Arrives \/ ReadFails

StreamNext == Server \/ Browser \/ Network \/ Reading

StreamSpec == StreamInit /\ [][StreamNext]_streamVars

-----------------------------------------------------------------------------
StreamTypeOK ==
    /\ mode \in {"live", "mock"} /\ pending \in BOOLEAN
    /\ version \in 0..MaxVersion /\ announced \in 0..version
    /\ sequence \in 0..MaxSequence /\ seenNo \in 0..MaxSequence
    /\ socket \in {"opening", "subscribed", "open", "silent", "closed"}
    /\ subscription \in Seq([type : {"pick_made", "board_updated", "remark"},
                      no : 1..MaxSequence])
    /\ Len(subscription) <= QueueSize
    /\ shownStatus \in {"DISCONNECTED", "LIVE", "STALE", "RECONNECTING"}
    /\ onScreen \in {NotLoaded} \cup 0..version
    /\ fetch \in {NoRead, Asked} \cup 0..version
    /\ failed \in BOOLEAN /\ breaks \in 0..MaxBreaks /\ blind \in BOOLEAN

\* Nothing is on its way to the browser that could still change its board, the
\* heartbeat that restates the number included.
Quiet == /\ socket = "open" /\ subscription = <<>> /\ seenNo >= sequence
         /\ fetch = NoRead /\ ~failed

\* "Gaps are detected, not assumed away": a browser with a quiet, live stream
\* shows every change that was announced, whatever connections, queues and
\* reads did before.
QuietBoardIsCurrent == Quiet => onScreen >= announced

\* The same unless a stream was opened at a number that could show nothing.
QuietBoardIsCurrentUnlessBlind == ~blind /\ Quiet => onScreen >= announced

\* Every announced change reaches the screen, whether its events arrive, overflow
\* the queue or die with the connection: the board shown contains it, or the
\* screen shows an error or says STALE.
AnnouncedIsShown ==
    \A v \in 1..MaxVersion :
        announced >= v ~> onScreen >= v \/ failed \/ blind \/ shownStatus = "STALE"

\* "Silence is not health": a socket gone silent does not stay LIVE on screen.
SilenceIsReported == socket = "silent" ~> (socket # "silent" \/ shownStatus # "LIVE")
=============================================================================
