------------------------------ MODULE Identity ------------------------------
(***************************************************************************)
(* Which internal player a provider's player is (src/fhe/data/identity.py, *)
(* and the claims of src/fhe/data/ingest/sleeper_players.py).  Everything  *)
(* here is a function of its arguments: a payload entry, the crosswalk and *)
(* the nflverse index.  A name is the sequence of its words; an identifier *)
(* is a number, or one of the tokens that mean "no value".                 *)
(***************************************************************************)
EXTENDS Naturals, Sequences, FiniteSets, TLC

CONSTANTS
    None,        \* Python's None
    NullTokens,  \* what a feed writes for a missing value, None among them
    Suffixes     \* the generational suffixes ("jr", "iii")

ASSUME NoneIsNull == None \in NullTokens

NoIds == <<>>    \* the empty dictionary of external ids

(* "NA", "" and their like never become data. *)
CleanToken(x) == IF x \in NullTokens THEN None ELSE x

CleanIds(ids) ==
    [s \in {t \in DOMAIN ids : CleanToken(ids[t]) # None} |-> ids[s]]

(* The comparable key of a name: its trailing suffixes dropped, its first   *)
(* word kept whatever it is.                                                *)
NormalizeName(name) ==
    IF name = None THEN <<>>
    ELSE LET Kept == {n \in DOMAIN name :
                         n = 1 \/ \E m \in n..Len(name) : name[m] \notin Suffixes}
         IN  SubSeq(name, 1, Cardinality(Kept))

(* The durable key: the nflverse id when there is one, else the Sleeper id. *)
MakePlayerUuid(gsis, sleeper) ==
    IF gsis # None THEN <<"gsis", gsis>> ELSE <<"sleeper", sleeper>>

(* The crosswalk file, keyed by Sleeper id; the last row of an id wins and  *)
(* a row without one is skipped.                                            *)
Crosswalk(rows) ==
    LET Keyed == {i \in DOMAIN rows : CleanToken(rows[i].sleeper) # None}
        LastOf(s) == CHOOSE i \in Keyed :
                        /\ rows[i].sleeper = s
                        /\ \A j \in Keyed : rows[j].sleeper = s => j <= i
    IN  [s \in {rows[i].sleeper : i \in Keyed} |-> CleanIds(rows[LastOf(s)].ids)]

(* The nflverse player table as the resolver reads it: rows with an id. *)
Index(rows) == {r \in rows : CleanToken(r.gsis) # None}

IdsOf(index, gsis) ==
    IF \E r \in index : r.gsis = gsis
    THEN CleanIds((CHOOSE r \in index : r.gsis = gsis).ids)
    ELSE NoIds

Namesakes(index, name, position) ==
    {r \in index : NormalizeName(r.name) = name /\ r.position = position}

Confidence(method) ==   \* in hundredths
    CASE method = "DIRECT_GSIS"        -> 100
      [] method = "CROSSWALK"          -> 97
      [] method = "NAME_TEAM_POSITION" -> 85
      [] OTHER                         -> 0

(* A resolved player anchored to nflverse: the ids every source knows him   *)
(* by, the crosswalk's before nflverse's.                                   *)
Build(p, gsis, method, known, index) ==
    [reason |-> None,
     uuid   |-> MakePlayerUuid(gsis, p.sleeper),
     method |-> method,
     ids    |-> ("gsis_id" :> gsis @@ "sleeper_id" :> p.sleeper)
                    @@ known @@ IdsOf(index, gsis)]

(* A player nobody can anchor keeps a key of his own, and only the ids the  *)
(* crosswalk happened to list.                                              *)
Unanchored(p, known) ==
    [reason |-> None, uuid |-> MakePlayerUuid(None, p.sleeper),
     method |-> "UNRESOLVED", ids |-> known]

Conflict(why) == [reason |-> why, uuid |-> None, method |-> None, ids |-> NoIds]

(* The name fallback: a single match on name, team and position is applied, *)
(* a single match on name and position alone is only recorded.              *)
ResolveByName(p, name, known, index) ==
    LET team     == CleanToken(p.team)
        anywhere == Namesakes(index, name, p.position)
        onTeam   == {r \in anywhere : team # None /\ r.team = team}
    IN  CASE Cardinality(onTeam) = 1 ->
                Build(p, (CHOOSE r \in onTeam : TRUE).gsis, "NAME_TEAM_POSITION",
                      known, index)
          [] Cardinality(onTeam) > 1   -> Conflict("AMBIGUOUS_MATCH")
          [] Cardinality(anywhere) = 1 -> Conflict("LOW_CONFIDENCE")
          [] Cardinality(anywhere) > 1 -> Conflict("AMBIGUOUS_MATCH")
          [] OTHER                     -> Unanchored(p, known)

(* One payload entry, strongest evidence first. *)
Resolve(p, crosswalk, index) ==
    LET direct == CleanToken(p.gsis)
        known  == IF p.sleeper \in DOMAIN crosswalk THEN crosswalk[p.sleeper] ELSE NoIds
        name   == NormalizeName(CleanToken(p.name))
    IN  CASE direct # None -> Build(p, direct, "DIRECT_GSIS", NoIds, index)
          [] direct = None /\ "gsis_id" \in DOMAIN known ->
                Build(p, known["gsis_id"], "CROSSWALK", known, index)
          [] direct = None /\ "gsis_id" \notin DOMAIN known /\ name # <<>> ->
                ResolveByName(p, name, known, index)
          [] OTHER -> Unanchored(p, known)

-----------------------------------------------------------------------------
(* The whole payload, in its order.                                         *)

(* A bug a unit test would not see: the first claimant in payload order     *)
(* keeps a contested id.                                                    *)
FirstCome(claims) ==
    CHOOSE c \in claims : \A d \in claims : c.at <= d.at

(* The owner of a contested external id: the best identified player, and    *)
(* among equals the smallest Sleeper id.                                    *)
Winner(claims) ==
    CHOOSE c \in claims : \A d \in claims :
        \/ c.confidence > d.confidence
        \/ c.confidence = d.confidence /\ c.sleeper <= d.sleeper

(* The entries a sync is about, and those of them it can tell who they are. *)
InScope(payload, positions) ==
    {i \in DOMAIN payload : /\ CleanToken(payload[i].sleeper) # None
                            /\ payload[i].position \in positions}

Outcomes(payload, crosswalk, index) ==
    [i \in DOMAIN payload |-> Resolve(payload[i], crosswalk, index)]

Known(payload, positions, outcome) ==
    {i \in InScope(payload, positions) : outcome[i].reason = None}

(* The first entry of each internal player. *)
FirstEntries(known, outcome) ==
    {i \in known : \A j \in known : j < i => outcome[j].uuid # outcome[i].uuid}

(* Each entry claims the ids it was resolved with, at its place in the      *)
(* payload.                                                                 *)
Claim(system, i, outcome, payload) ==
    [system |-> system, id |-> outcome[i].ids[system], uuid |-> outcome[i].uuid,
     confidence |-> Confidence(outcome[i].method), sleeper |-> payload[i].sleeper, at |-> i]

ClaimsOf(entries, outcome, payload) ==
    UNION {{Claim(s, i, outcome, payload) : s \in DOMAIN outcome[i].ids} : i \in entries}

Rivals(claims, c) == {d \in claims : d.system = c.system /\ d.id = c.id}

(* What one pass over the payload makes of it: the entries kept, the        *)
(* conflicts, and the ids claimed and won.                                  *)
Scan(payload, positions, crosswalk, index) ==
    LET outcome == Outcomes(payload, crosswalk, index)
        scope   == InScope(payload, positions)
        known   == Known(payload, positions, outcome)
        kept    == FirstEntries(known, outcome)
        claims  == ClaimsOf(kept, outcome, payload)
        winner(c)  == Winner(Rivals(claims, c)).uuid
        firstAt(c) == CHOOSE n \in {d.at : d \in Rivals(claims, c)} :
                          \A d \in Rivals(claims, c) : n <= d.at
    IN  [players   |-> {[uuid |-> outcome[i].uuid, sleeper |-> payload[i].sleeper,
                         name |-> NormalizeName(CleanToken(payload[i].name)),
                         position |-> payload[i].position,
                         team |-> CleanToken(payload[i].team),
                         method |-> outcome[i].method] : i \in kept},
         \* each id row, with the place of its (system, id) in the statement
         ids       |-> {[system |-> c.system, id |-> c.id, uuid |-> winner(c),
                         at |-> firstAt(c)] : c \in claims},
         health    |-> {[uuid |-> outcome[i].uuid, designation |-> payload[i].status]
                        : i \in {k \in kept : CleanToken(payload[k].status) # None}},
         conflicts |-> {[sleeper |-> payload[i].sleeper, reason |-> outcome[i].reason]
                        : i \in scope \ known},
         read      |-> Len(payload), unresolved |-> Cardinality(scope \ known),
         refused   |-> FALSE,
         rejected  |-> Cardinality({i \in DOMAIN payload : CleanToken(payload[i].sleeper) = None})
                          + Cardinality(known \ kept)
                          + Cardinality({c \in claims : c.uuid # winner(c)})]
=============================================================================
