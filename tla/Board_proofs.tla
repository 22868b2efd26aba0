---------------------------- MODULE Board_proofs ----------------------------
(***************************************************************************)
(* What a pool says of itself, for any tables, any imports between the     *)
(* questions and any limit; and what a board says, for any pools, lineups  *)
(* and seats, any normal curve, and any picks, reconnects and restarts.    *)
(*                                                                         *)
(* A board is a ranking: to know who stands where, its scores have to be   *)
(* numbers, which takes most of what follows.  A number comes out of every *)
(* component whatever is missing of a player, because replacement level is *)
(* a projection or nothing, a tier has a size, and a flex is split by      *)
(* counts of slots.                                                        *)
(*                                                                         *)
(* A lineup is filled greedily, twice: by the engine in positions, and for *)
(* the client in players.  Both are runs of one scheme, and where no two   *)
(* slots overlap what a run of it fills does not depend on whom it takes,  *)
(* and is as much as the roster could.                                     *)
(***************************************************************************)
EXTENDS PlayerPool, LiveBoard, League_proofs, FiniteSetTheorems, SequenceTheorems

-----------------------------------------------------------------------------
(* The tables *)

\* What imports leave as it was and what they cannot bring.
StoreInv ==
    /\ DOMAIN store = Tables
    /\ \E first \in FirstStores : store.players = first.players /\ store.games = first.games
    /\ Null \notin store.projections \cup store.adp
    /\ IsFiniteSet(store.stats) /\ \A row \in store.stats : IsLine(row)
    /\ \A id : (\A first \in FirstStores : Relevant(first, id, DraftSeason))
                  => Relevant(store, id, DraftSeason)

\* An import adds rows and replaces some by rows of the same player and season.
LEMMA ImportKeepsRelevance ==
    ASSUME DOMAIN store = Tables, Import, NEW id, Relevant(store, id, DraftSeason)
    PROVE  Relevant(store', id, DraftSeason)
<1>1. PICK batch \in Imports :
        LET new  == {KeyOf(batch.table, row) : row \in batch.rows}
            kept == {row \in store[batch.table] : KeyOf(batch.table, row) \notin new}
        IN  store' = [store EXCEPT ![batch.table] = kept \cup batch.rows]
  BY DEF Import
<1>2. PICK table \in {"projections", "adp"} :
        \E row \in store[table] : HasValue(row, id, DraftSeason)
  BY DEF Relevant
<1>3. PICK row \in store[table] : HasValue(row, id, DraftSeason)
  BY <1>2
<1>4. CASE row \in store'[table]
  BY <1>2, <1>3, <1>4 DEF Relevant
<1>5. CASE row \notin store'[table]
  <2>1. table = batch.table /\ table \in DOMAIN store
    BY <1>1, <1>2, <1>3, <1>5 DEF Tables
  <2>2. PICK other \in batch.rows : KeyOf(table, other) = KeyOf(table, row)
    BY <1>1, <1>3, <1>5, <2>1
  <2>3. other.player = row.player /\ other.season = row.season
    BY <1>2, <2>2 DEF KeyOf
  <2>4. other \in store'[table]
    BY <1>1, <2>1, <2>2
  <2> QED
    BY <1>2, <1>3, <2>3, <2>4 DEF Relevant, HasValue
<1> QED
  BY <1>4, <1>5

\* Only an import changes the tables.
LEMMA ImportOrSame == [PoolNext]_poolVars => Import \/ store' = store
BY DEF PoolNext, AskTheRest, Build, BuildEmpty, Ask, AskPlayers, AskProjections, AskAdp,
       AskHealth, AskHistory, AskWorkload, AskUsage, AskDepth, AskAllowed, AskPlayoff,
       AskCoaches, AskLanding, poolVars

\* Imports bring finite, filled-in rows, leave players and games alone and take no
\* player's market away.
LEMMA StoreKept == StoreInv /\ [PoolNext]_poolVars => StoreInv'
<1> SUFFICES ASSUME StoreInv, [PoolNext]_poolVars PROVE StoreInv'
  OBVIOUS
<1>1. CASE Import
  <2>1. PICK batch \in Imports :
          LET new  == {KeyOf(batch.table, row) : row \in batch.rows}
              kept == {row \in store[batch.table] : KeyOf(batch.table, row) \notin new}
          IN  store' = [store EXCEPT ![batch.table] = kept \cup batch.rows]
    BY <1>1 DEF Import
  <2>2. batch.table \in Imported /\ Null \notin batch.rows
    BY ImportsAssumption
  <2>3. DOMAIN store' = Tables
    BY <2>1 DEF StoreInv
  <2>4. store'.players = store.players /\ store'.games = store.games
    BY <2>1, <2>2 DEF Imported, StoreInv, Tables
  <2>5. Null \notin store'.projections \cup store'.adp
    BY <2>1, <2>2 DEF StoreInv, Tables
  <2>6. IsFiniteSet(store'.stats) /\ \A row \in store'.stats : IsLine(row)
    <3>1. CASE batch.table = "stats"
      <4>1. IsFiniteSet(batch.rows) /\ \A row \in batch.rows : IsLine(row)
        BY <3>1, ImportsAssumption
      <4>2. PICK kept \in SUBSET store.stats : store'.stats = kept \cup batch.rows
        BY <2>1, <3>1 DEF StoreInv, Tables
      <4>3. IsFiniteSet(kept)
        BY FS_Subset DEF StoreInv
      <4>4. IsFiniteSet(kept \cup batch.rows)
        BY <4>1, <4>3, FS_Union, Zenon
      <4>5. \A row \in kept : IsLine(row)
        BY DEF StoreInv
      <4> QED
        BY <4>1, <4>2, <4>4, <4>5
    <3>2. CASE batch.table # "stats"
      BY <2>1, <3>2 DEF StoreInv, Tables
    <3> QED
      BY <3>1, <3>2
  <2>7. \A id : (\A first \in FirstStores : Relevant(first, id, DraftSeason))
                   => Relevant(store', id, DraftSeason)
    BY <1>1, ImportKeepsRelevance DEF StoreInv
  <2> QED
    BY <2>3, <2>4, <2>5, <2>6, <2>7 DEF StoreInv
<1>2. CASE store' = store
  BY <1>2 DEF StoreInv
<1> QED
  BY <1>1, <1>2, ImportOrSame

-----------------------------------------------------------------------------
(* The families *)

OfFamily(answer, ids) ==
    \E chosen \in ScoringFormats \cup {Wanted} :
        /\ answer.swap = Swapped(chosen, Wanted)
        /\ \A p \in DOMAIN answer.values :
              p \in ids /\ answer.values[p].format = chosen /\ answer.values[p] # Null
        /\ chosen # Wanted => DOMAIN answer.values # {}

\* What OneFamily answers is of one family, and names it when it is another than wanted.
LEMMA OneFamilyIsOne ==
    ASSUME NEW rows, NEW ids, NEW date, NEW answer \in OneFamily(rows, Wanted, date),
           Null \notin rows, \A row \in rows : row.player \in ids
    PROVE  OfFamily(answer, ids)
<1> DEFINE chosen == ResolveScoringFormat({row.format : row \in rows}, Wanted)
           own == {row \in rows : row.format = chosen}
           last(p) == {row \in own : row.player = p /\ ~\E other \in own :
                                        other.player = p /\ other[date] > row[date]}
           keys == {row.player : row \in own}
<1>1. PICK kept \in LastOfEach(own, date) :
        answer = [values |-> kept, swap |-> Swapped(chosen, Wanted)]
  BY DEF OneFamily
<1>2. chosen \in ScoringFormats \cup {Wanted}
  BY DEF ResolveScoringFormat, Fallbacks, ScoringFormats
<1>3. chosen # Wanted => chosen \in {row.format : row \in rows}
  BY DEF ResolveScoringFormat
<1> HIDE DEF chosen
<1>4. DOMAIN kept = keys
  BY <1>1 DEF LastOfEach, Picks
<1>5. ASSUME NEW p \in keys PROVE kept[p] \in own
  <2>1. CASE \A x \in last(p) : last(p) # {x}
    BY <1>1, <2>1 DEF LastOfEach, Picks
  <2>2. CASE ~\A x \in last(p) : last(p) # {x}
    <3> DEFINE tied == {key \in keys : \A x \in last(key) : last(key) # {x}}
               candidates == UNION {last(key) : key \in tied}
               only(key) == CHOOSE x \in last(key) : TRUE
    <3>1. \E choice : kept = [key \in keys |-> IF key \in tied THEN choice[key] ELSE only(key)]
      BY <1>1, Zenon DEF LastOfEach, Picks
    <3>2. p \notin tied
      BY <2>2
    <3>3. only(p) \in last(p)
      BY <2>2
    <3> HIDE DEF tied, only, last, keys
    <3>4. kept[p] = only(p)
      BY <1>5, <3>1, <3>2
    <3> QED
      BY <3>3, <3>4 DEF last
  <2> QED
    BY <2>1, <2>2
<1>6. \A p \in DOMAIN kept : p \in ids /\ kept[p].format = chosen /\ kept[p] # Null
  BY <1>4, <1>5
<1>7. chosen # Wanted => DOMAIN kept # {}
  BY <1>3, <1>4
<1> QED
  BY <1>1, <1>2, <1>6, <1>7 DEF OfFamily

-----------------------------------------------------------------------------
(* The load *)

\* Each question has its place in the order.
LEMMA QuestionsDiffer ==
    ASSUME NEW k \in 1..13
    PROVE  /\ Questions[k] = "players" <=> k = 1
           /\ Questions[k] = "projections" <=> k = 2
           /\ Questions[k] = "adp" <=> k = 3
           /\ Questions[k] = "coaches" <=> k = 11
           /\ Questions[k] = "landing" <=> k = 12
           /\ Questions[k] = "build" <=> k = 13
BY DEF Questions

\* What an answer is, as far as the promises speak of it.
Answered(question, answer) ==
    /\ question = "players" => answer \in SelectPlayers(store, DraftSeason, PoolLimit)
    /\ question = "projections" => answer \in LatestProjections(store, Ids, DraftSeason, Wanted)
    /\ question = "adp" => answer \in LatestAdp(store, Ids, DraftSeason, Wanted)
    /\ question = "coaches" => answer \in Coaches(store)
    /\ question = "landing" => answer \in RookieOpportunity(store, held["coaches"], DraftSeason)

Remembers(question, answer) ==
    held' = [q \in DOMAIN held \cup {question} |-> IF q = question THEN answer ELSE held[q]]

\* A question is answered from the tables as they are and goes on to the next.
LEMMA AnswersAreHeld ==
    ASSUME AskTheRest, asking \in 1..13
    PROVE  /\ asking \in 1..12 /\ asking' = asking + 1 /\ built' = Null /\ store' = store
           /\ \E answer : /\ Answered(Questions[asking], answer)
                          /\ Remembers(Questions[asking], answer)
<1> USE DEF Ask, Answered, Remembers
<1>1. Questions[asking] # "build" => asking \in 1..12
  BY QuestionsDiffer
<1>2. CASE AskPlayers
  BY <1>1, <1>2 DEF AskPlayers
<1>3. CASE AskProjections
  BY <1>1, <1>3 DEF AskProjections
<1>4. CASE AskAdp
  BY <1>1, <1>4 DEF AskAdp
<1>5. CASE AskHealth
  BY <1>1, <1>5 DEF AskHealth
<1>6. CASE AskHistory
  BY <1>1, <1>6 DEF AskHistory
<1>7. CASE AskWorkload
  BY <1>1, <1>7 DEF AskWorkload
<1>8. CASE AskUsage
  BY <1>1, <1>8 DEF AskUsage
<1>9. CASE AskDepth
  BY <1>1, <1>9 DEF AskDepth
<1>10. CASE AskAllowed
  BY <1>1, <1>10 DEF AskAllowed
<1>11. CASE AskPlayoff
  BY <1>1, <1>11 DEF AskPlayoff
<1>12. CASE AskCoaches
  BY <1>1, <1>12 DEF AskCoaches
<1>13. CASE AskLanding
  BY <1>1, <1>13 DEF AskLanding
<1> QED
  BY <1>2, <1>3, <1>4, <1>5, <1>6, <1>7, <1>8, <1>9, <1>10, <1>11, <1>12, <1>13 DEF AskTheRest

\* Who would be in the pool if it were chosen now, and who of them had a market
\* from the start is among those chosen, as long as they all fit.
Priced == {p \in store.players : /\ p.active /\ p.position \in PoolPositions
                                 /\ Relevant(store, p.id, DraftSeason)}
PricedFromTheStart(p) == \A first \in FirstStores : Relevant(first, p.id, DraftSeason)

KeepsTheMarket(ids) ==
    Cardinality(Priced) <= PoolLimit =>
        \A p \in Priced : PricedFromTheStart(p) => p.id \in ids

\* With room for everyone who has a market, the selection has them all.
LEMMA SelectionKeepsTheMarket ==
    ASSUME StoreInv, NEW chosen \in SelectPlayers(store, DraftSeason, PoolLimit)
    PROVE  KeepsTheMarket({p.id : p \in chosen})
<1> DEFINE active == {p \in store.players : p.active /\ p.position \in PoolPositions}
<1> SUFFICES ASSUME Cardinality(Priced) <= PoolLimit, NEW p \in Priced, p \notin chosen
             PROVE  FALSE
  BY DEF KeepsTheMarket
<1>1. IsFiniteSet(active) /\ Priced \subseteq active
  <2>1. IsFiniteSet(store.players)
    BY StoresAssumption DEF StoreInv, Tables
  <2> QED
    BY <2>1, FS_Subset DEF Priced
<1>2. /\ chosen \subseteq active
      /\ Cardinality(chosen) = Min({PoolLimit, Cardinality(active)})
      /\ \A q \in chosen, r \in active \ chosen : ~Ahead(store, DraftSeason, r, q)
  BY DEF SelectPlayers, kSubset
<1>3. chosen \subseteq Priced
  <2> SUFFICES ASSUME NEW q \in chosen, ~Relevant(store, q.id, DraftSeason) PROVE FALSE
    BY <1>2 DEF Priced
  <2>1. p \in active \ chosen /\ Relevant(store, p.id, DraftSeason)
    BY <1>1 DEF Priced
  <2>2. Ahead(store, DraftSeason, p, q)
    BY <2>1 DEF Ahead
  <2> QED
    BY <1>2, <2>1, <2>2
<1>4. /\ IsFiniteSet(Priced) /\ IsFiniteSet(chosen)
      /\ Cardinality(Priced) \in Nat /\ Cardinality(chosen) \in Nat /\ Cardinality(active) \in Nat
  BY <1>1, <1>3, FS_Subset, FS_CardinalityType
<1>5. Cardinality(chosen) < Cardinality(Priced)
  <2>1. Cardinality(chosen) <= Cardinality(Priced)
    BY <1>3, <1>4, FS_Subset
  <2>2. Cardinality(chosen) # Cardinality(Priced)
    BY <1>3, <1>4, FS_Subset
  <2> QED
    BY <1>4, <2>1, <2>2
<1>6. Cardinality(Priced) <= Cardinality(active)
  BY <1>1, FS_Subset
<1>7. Min({PoolLimit, Cardinality(active)}) \in {PoolLimit, Cardinality(active)}
  BY <1>4, LimitAssumption DEF Min
<1> QED
  BY <1>2, <1>4, <1>5, <1>6, <1>7, LimitAssumption

\* The families of a pool that was put together from one family each.
LEMMA OneFamilyEachIsTold ==
    ASSUME NEW ids, NEW projections, OfFamily(projections, ids),
           NEW adp, OfFamily(adp, ids),
           NEW players, DOMAIN players = ids,
           \A id \in ids : /\ players[id].projection = Of(projections.values, id)
                           /\ players[id].adp = Of(adp.values, id)
    PROVE  ToldApart(Built(players, ToldSwap(projections, adp)))
<1> DEFINE made == Built(players, ToldSwap(projections, adp))
<1>1. PICK mean \in ScoringFormats \cup {Wanted} :
        /\ projections.swap = Swapped(mean, Wanted)
        /\ \A p \in DOMAIN projections.values :
              /\ p \in ids /\ projections.values[p].format = mean
              /\ projections.values[p] # Null
        /\ mean # Wanted => DOMAIN projections.values # {}
  BY DEF OfFamily
<1>2. PICK market \in ScoringFormats \cup {Wanted} :
        /\ adp.swap = Swapped(market, Wanted)
        /\ \A p \in DOMAIN adp.values :
              p \in ids /\ adp.values[p].format = market /\ adp.values[p] # Null
        /\ market # Wanted => DOMAIN adp.values # {}
  BY DEF OfFamily
<1>3. made.players = players /\ made.swap = ToldSwap(projections, adp)
  BY DEF Built
<1>4. /\ Families(made, "projection") \subseteq {mean}
      /\ mean # Wanted => mean \in Families(made, "projection")
  BY <1>1, <1>3 DEF Families, Of
<1>5. /\ Families(made, "adp") \subseteq {market}
      /\ market # Wanted => market \in Families(made, "adp")
  BY <1>2, <1>3 DEF Families, Of
<1>6. /\ Cardinality(Families(made, "projection")) <= 1
      /\ Cardinality(Families(made, "adp")) <= 1
  <2>1. ASSUME NEW F, NEW f, F \subseteq {f}
        PROVE  Cardinality(F) <= 1
    <3>1. IsFiniteSet({f}) /\ Cardinality({f}) = 1
      BY FS_Singleton
    <3> QED
      BY <2>1, <3>1, FS_Subset
  <2> QED
    BY <1>4, <1>5, <2>1
<1>7. /\ Foreign(made, "projection") = IF mean # Wanted THEN {mean} ELSE {}
      /\ Foreign(made, "adp") = IF market # Wanted THEN {market} ELSE {}
  BY <1>4, <1>5 DEF Foreign
<1>8. (mean # Wanted => mean # Null) /\ (market # Wanted => market # Null)
  BY NullAssumption
<1>9. CASE mean = Wanted /\ market = Wanted
  <2>1. made.swap = Null
    BY <1>1, <1>2, <1>3, <1>9 DEF ToldSwap, Swapped
  <2> QED
    BY <1>6, <1>7, <1>9, <2>1 DEF ToldApart
<1>10. CASE mean # Wanted \/ market # Wanted
  <2>1. made.swap = (IF mean # Wanted THEN mean ELSE market) /\ made.swap # Null
    BY <1>1, <1>2, <1>3, <1>8, <1>10 DEF ToldSwap, Swapped
  <2>2. DOMAIN players # {}
    BY <1>3, <1>4, <1>5, <1>10 DEF Families
  <2>3. "swapped" \in made.warnings
    BY <1>3, <2>1, <2>2 DEF Built, Warnings
  <2> QED
    BY <1>6, <1>7, <1>10, <2>1, <2>3 DEF ToldApart
<1> QED
  BY <1>9, <1>10

\* What has been answered so far: the players keep the market, and each of the two
\* families is one, of players of the pool.
HeldInv ==
    /\ asking \in 1..13
    /\ asking > 1 => "players" \in DOMAIN held /\ KeepsTheMarket(Ids)
    /\ asking > 2 => "projections" \in DOMAIN held /\ OfFamily(held["projections"], Ids)
    /\ asking > 3 => "adp" \in DOMAIN held /\ OfFamily(held["adp"], Ids)

BuiltInv == built # Null => ToldApart(built) /\ KeepsTheMarket(DOMAIN built.players)

\* The market of a moment is the market of every later one.
LEMMA MarketStaysKept ==
    ASSUME StoreInv, [PoolNext]_poolVars, NEW ids, KeepsTheMarket(ids)
    PROVE  KeepsTheMarket(ids)'
<1>1. StoreInv'
  BY StoreKept
<1>2. store'.players = store.players
  <2>1. CASE Import
    BY <2>1, ImportsAssumption DEF Import, Imported, StoreInv, Tables
  <2>2. CASE store' = store
    BY <2>2
  <2> QED
    BY <2>1, <2>2, ImportOrSame
<1>3. Priced \subseteq Priced'
  <2>1. ASSUME NEW id, Relevant(store, id, DraftSeason)
        PROVE  Relevant(store', id, DraftSeason)
    BY <2>1, ImportOrSame, ImportKeepsRelevance DEF StoreInv
  <2> QED
    BY <1>2, <2>1 DEF Priced
<1>4. IsFiniteSet(Priced')
  <2>1. IsFiniteSet(store'.players)
    BY <1>1, StoresAssumption DEF StoreInv, Tables
  <2> QED
    BY <2>1, FS_Subset DEF Priced
<1>5. Cardinality(Priced') <= PoolLimit => Cardinality(Priced) <= PoolLimit
  <2>1. Cardinality(Priced) <= Cardinality(Priced')
    BY <1>3, <1>4, FS_Subset
  <2>2. Cardinality(Priced) \in Nat /\ Cardinality(Priced') \in Nat
    BY <1>3, <1>4, FS_Subset, FS_CardinalityType
  <2> QED
    BY <2>1, <2>2, LimitAssumption
<1>6. \A p \in Priced' : PricedFromTheStart(p) => p \in Priced
  BY <1>2 DEF Priced, PricedFromTheStart, StoreInv
<1> QED
  BY <1>5, <1>6 DEF KeepsTheMarket, PricedFromTheStart

\* The projections are of one family, whatever the tables are by now.
LEMMA ProjectionsAreOfFamily ==
    ASSUME StoreInv, NEW answer \in LatestProjections(store, Ids, DraftSeason, Wanted)
    PROVE  OfFamily(answer, Ids)
<1> DEFINE rows == {row \in store.projections : row.player \in Ids /\ row.season = DraftSeason
                                                  /\ row.week = SeasonLong}
<1>1. answer \in OneFamily(rows, Wanted, "ingested")
  BY DEF LatestProjections
<1>2. Null \notin rows /\ \A row \in rows : row.player \in Ids
  BY DEF StoreInv
<1> HIDE DEF rows
<1> QED
  BY <1>1, <1>2, OneFamilyIsOne

\* So are the draft positions.
LEMMA AdpIsOfFamily ==
    ASSUME StoreInv, NEW answer \in LatestAdp(store, Ids, DraftSeason, Wanted)
    PROVE  OfFamily(answer, Ids)
<1> DEFINE rows == {row \in store.adp : row.player \in Ids /\ row.season = DraftSeason}
<1>1. answer \in OneFamily(rows, Wanted, "snapshot")
  BY DEF LatestAdp
<1>2. Null \notin rows /\ \A row \in rows : row.player \in Ids
  BY DEF StoreInv
<1> HIDE DEF rows
<1> QED
  BY <1>1, <1>2, OneFamilyIsOne

\* Whatever is asked next, what was answered stays, and the answer is of the tables
\* as they are.
LEMMA HeldKept == StoreInv /\ HeldInv /\ [PoolNext]_poolVars => HeldInv'
<1> SUFFICES ASSUME StoreInv, HeldInv, [PoolNext]_poolVars PROVE HeldInv'
  OBVIOUS
<1>1. CASE UNCHANGED <<asking, held>>
  <2>1. PICK ids : ids = Ids
    OBVIOUS
  <2>2. Ids' = ids
    BY <1>1, <2>1 DEF Ids
  <2>3. KeepsTheMarket(ids) => KeepsTheMarket(ids)'
    BY MarketStaysKept
  <2> QED
    BY <1>1, <2>1, <2>2, <2>3 DEF HeldInv, OfFamily
<1>2. CASE AskTheRest
  <2>1. /\ asking \in 1..12 /\ asking' = asking + 1 /\ store' = store
        /\ \E answer : Answered(Questions[asking], answer) /\ Remembers(Questions[asking], answer)
    BY <1>2, AnswersAreHeld DEF HeldInv
  <2>2. PICK answer : Answered(Questions[asking], answer) /\ Remembers(Questions[asking], answer)
    BY <2>1
  <2>3. \A q \in DOMAIN held : q # Questions[asking] => q \in DOMAIN held' /\ held'[q] = held[q]
    BY <2>2 DEF Remembers
  <2>4. Questions[asking] \in DOMAIN held' /\ held'[Questions[asking]] = answer
    BY <2>2 DEF Remembers
  <2>5. "players" \in DOMAIN held' /\ KeepsTheMarket(Ids)'
    <3>1. CASE asking = 1
      <4>1. Questions[asking] = "players"
        BY <3>1 DEF Questions
      <4>2. KeepsTheMarket({p.id : p \in answer})
        BY <2>2, <4>1, SelectionKeepsTheMarket DEF Answered
      <4>3. Ids' = {p.id : p \in answer}
        BY <2>4, <4>1 DEF Ids
      <4> QED
        BY <2>1, <2>4, <4>1, <4>2, <4>3 DEF KeepsTheMarket, Priced
    <3>2. CASE asking # 1
      <4>1. Questions[asking] # "players"
        BY <2>1, <3>2, QuestionsDiffer
      <4>2. asking > 1
        BY <2>1, <3>2
      <4>3. "players" \in DOMAIN held /\ KeepsTheMarket(Ids)
        BY <4>2 DEF HeldInv
      <4>4. Ids' = Ids
        BY <2>3, <4>1, <4>3 DEF Ids
      <4> QED
        BY <2>1, <2>3, <4>1, <4>3, <4>4 DEF KeepsTheMarket, Priced
    <3> QED
      BY <3>1, <3>2
  <2>6. asking > 1 => Ids' = Ids
    <3>1. asking > 1 => Questions[asking] # "players"
      BY <2>1, QuestionsDiffer
    <3> QED
      BY <2>3, <3>1 DEF HeldInv, Ids
  <2>7. asking > 1 => "projections" \in DOMAIN held' /\ OfFamily(held'["projections"], Ids')
    <3>1. CASE asking = 2
      <4>1. Questions[asking] = "projections"
        BY <3>1 DEF Questions
      <4>2. OfFamily(answer, Ids)
        BY <2>2, <4>1, ProjectionsAreOfFamily DEF Answered
      <4> QED
        BY <2>4, <2>6, <3>1, <4>1, <4>2
    <3>2. CASE asking > 2
      <4>1. Questions[asking] # "projections"
        BY <2>1, <3>2, QuestionsDiffer
      <4>2. "projections" \in DOMAIN held /\ OfFamily(held["projections"], Ids)
        BY <3>2 DEF HeldInv
      <4> QED
        BY <2>1, <2>3, <2>6, <3>2, <4>1, <4>2
    <3> QED
      BY <2>1, <3>1, <3>2
  <2>8. asking > 2 => "adp" \in DOMAIN held' /\ OfFamily(held'["adp"], Ids')
    <3>1. CASE asking = 3
      <4>1. Questions[asking] = "adp"
        BY <3>1 DEF Questions
      <4>2. OfFamily(answer, Ids)
        BY <2>2, <4>1, AdpIsOfFamily DEF Answered
      <4> QED
        BY <2>4, <2>6, <3>1, <4>1, <4>2
    <3>2. CASE asking > 3
      <4>1. Questions[asking] # "adp"
        BY <2>1, <3>2, QuestionsDiffer
      <4>2. "adp" \in DOMAIN held /\ OfFamily(held["adp"], Ids)
        BY <3>2 DEF HeldInv
      <4> QED
        BY <2>1, <2>3, <2>6, <3>2, <4>1, <4>2
    <3> QED
      BY <2>1, <3>1, <3>2
  <2> QED
    BY <2>1, <2>5, <2>7, <2>8 DEF HeldInv, OfFamily
<1>3. CASE asking' = 1
  BY <1>3 DEF HeldInv
<1> QED
  BY <1>1, <1>2, <1>3 DEF PoolNext, Import, Build, BuildEmpty, poolVars

\* A pool keeps what its answers promised, and a pool of nobody has nothing to mix.
LEMMA BuiltKept == StoreInv /\ HeldInv /\ BuiltInv /\ [PoolNext]_poolVars => BuiltInv'
<1> SUFFICES ASSUME StoreInv, HeldInv, BuiltInv, [PoolNext]_poolVars PROVE BuiltInv'
  OBVIOUS
<1>1. CASE built' = built
  <2>1. PICK ids : ids = DOMAIN built.players
    OBVIOUS
  <2>2. KeepsTheMarket(ids) => KeepsTheMarket(ids)'
    BY MarketStaysKept
  <2>3. ToldApart(built) => ToldApart(built)'
    <3>1. Families(built, "projection")' = Families(built, "projection")
      BY <1>1 DEF Families
    <3>2. Families(built, "adp")' = Families(built, "adp")
      BY <1>1 DEF Families
    <3>3. /\ Foreign(built, "projection")' = Foreign(built, "projection")
          /\ Foreign(built, "adp")' = Foreign(built, "adp")
      BY <3>1, <3>2 DEF Foreign
    <3> QED
      BY <1>1, <3>1, <3>2, <3>3 DEF ToldApart
  <2> QED
    BY <1>1, <2>1, <2>2, <2>3 DEF BuiltInv
<1>2. CASE AskTheRest
  BY <1>2, AnswersAreHeld DEF HeldInv, BuiltInv
<1>3. CASE Build
  <2> DEFINE with(id) == CHOOSE p \in held["players"] : p.id = id
             players == [id \in Ids |-> Draftable(with(id))]
  <2>1. /\ built' = Built(players, ToldSwap(held["projections"], held["adp"]))
        /\ store' = store
    BY <1>3 DEF Build
  <2>2. asking = 13
    BY <1>3, QuestionsDiffer DEF Build, HeldInv
  <2>3. /\ KeepsTheMarket(Ids) /\ OfFamily(held["projections"], Ids)
        /\ OfFamily(held["adp"], Ids)
    BY <2>2 DEF HeldInv
  <2>4. \A id \in Ids : with(id).id = id
    BY DEF Ids
  <2>5. \A id \in Ids : /\ players[id].projection = Of(held["projections"].values, id)
                        /\ players[id].adp = Of(held["adp"].values, id)
    BY <2>4 DEF Draftable
  <2>6. DOMAIN players = Ids
    OBVIOUS
  <2> HIDE DEF players
  <2>7. ToldApart(built')
    BY <2>1, <2>3, <2>5, <2>6, OneFamilyEachIsTold
  <2>8. DOMAIN built'.players = Ids
    BY <2>1, <2>6 DEF Built
  <2>9. KeepsTheMarket(DOMAIN built.players)'
    BY <2>1, <2>3, <2>8 DEF KeepsTheMarket, Priced
  <2> QED
    BY <2>7, <2>9 DEF BuiltInv, ToldApart, Foreign, Families
<1>4. CASE BuildEmpty
  <2>1. built' = Built(Nothing, Null) /\ store' = store /\ held["players"] = {}
    BY <1>4 DEF BuildEmpty
  <2>2. asking = 2
    BY <1>4, QuestionsDiffer DEF BuildEmpty, HeldInv
  <2>3. KeepsTheMarket(Ids) /\ Ids = {}
    BY <2>1, <2>2 DEF HeldInv, Ids
  <2>4. built'.players = Nothing /\ built'.swap = Null /\ DOMAIN Nothing = {}
    BY <2>1 DEF Built, Nothing
  <2>5. KeepsTheMarket(DOMAIN built.players)'
    BY <2>1, <2>3, <2>4 DEF KeepsTheMarket, Priced
  <2>6. Families(built', "projection") = {} /\ Families(built', "adp") = {}
    BY <2>4 DEF Families
  <2>7. ToldApart(built')
    <3>1. Cardinality({}) <= 1
      BY FS_EmptySet
    <3> QED
      BY <2>4, <2>6, <3>1 DEF ToldApart, Foreign
  <2> QED
    BY <2>5, <2>7 DEF BuiltInv, ToldApart, Foreign, Families
<1> QED
  BY <1>1, <1>2, <1>3, <1>4 DEF PoolNext, Import, poolVars

PoolInv == StoreInv /\ HeldInv /\ BuiltInv

\* The tables, the answers and the pool, together.
LEMMA PoolInvHolds == PoolSpec => []PoolInv
<1>1. PoolInit => PoolInv
  <2> SUFFICES ASSUME PoolInit PROVE PoolInv
    OBVIOUS
  <2>1. StoreInv
    BY StoresAssumption DEF PoolInit, StoreInv, Tables
  <2>2. HeldInv /\ BuiltInv
    BY DEF PoolInit, HeldInv, BuiltInv
  <2> QED
    BY <2>1, <2>2 DEF PoolInv
<1>2. PoolInv /\ [PoolNext]_poolVars => PoolInv'
  BY StoreKept, HeldKept, BuiltKept DEF PoolInv
<1> QED
  BY <1>1, <1>2, PTL DEF PoolSpec

\* Neither the projections of a pool nor its draft positions ever mix scoring
\* families, for any tables and whatever is imported between the questions; and what
\* the pool says of them is exactly the projections' family where that is not the
\* league's own, else that of the draft positions, else nothing.
THEOREM FamiliesAreToldApartHolds == PoolSpec => []FamiliesAreToldApart
<1>1. PoolInv => FamiliesAreToldApart
  BY DEF PoolInv, BuiltInv, FamiliesAreToldApart
<1> QED
  BY <1>1, PoolInvHolds, PTL

\* Nobody with a market from the start falls to the cut as long as those with one
\* fit under the limit, whatever their popularity and whatever is imported.
THEOREM TheMarketSurvivesTheCutHolds == PoolSpec => []TheMarketSurvivesTheCut
<1>1. PoolInv => TheMarketSurvivesTheCut
  BY DEF PoolInv, BuiltInv, KeepsTheMarket, Priced, PricedFromTheStart, TheMarketSurvivesTheCut
<1> QED
  BY <1>1, PoolInvHolds, PTL

-----------------------------------------------------------------------------
(* Sums *)

\* A set of numbers that holds zero and the successor of each of its members holds
\* all: the induction principle for a property given as a set.
LEMMA AllOfNat ==
    ASSUME NEW T \in SUBSET Nat, 0 \in T, \A n \in T : n + 1 \in T
    PROVE  T = Nat
<1> SUFFICES ASSUME Nat \ T # {} PROVE FALSE
  OBVIOUS
<1> DEFINE R == {pair \in Nat \X Nat : pair[1] < pair[2]}
<1>1. IsWellFoundedOn(R, Nat)
  BY NatLessThanWellFounded, Zenon DEF OpToRel
<1>2. PICK n \in Nat \ T : \A m \in Nat \ T : <<m, n>> \notin R
  <2> HIDE DEF R
  <2> QED
    BY <1>1, WFMin
<1>3. n # 0
  BY <1>2
<1>4. n - 1 \in Nat /\ (n - 1) + 1 = n
  BY <1>2, <1>3
<1>5. n - 1 \in Nat \ T
  BY <1>2, <1>4
<1>6. <<n - 1, n>> \in R
  BY <1>2, <1>4
<1> QED
  BY <1>2, <1>5, <1>6

\* The function the sum over S is read from: each set but the empty one has the value
\* of a chosen member and the sum of the others.
Chosen(s) == CHOOSE x \in s : TRUE
IsSumOver(sum, S, f) ==
    sum = [s \in SUBSET S |-> IF s = {} THEN 0 ELSE f[Chosen(s)] + sum[s \ {Chosen(s)}]]

\* A chosen member is a member.
LEMMA ChosenIsIn ==
    ASSUME NEW s, s # {}
    PROVE  Chosen(s) \in s
BY DEF Chosen

\* Over a finite set there is such a function: by induction on the sizes it covers.
LEMMA SumExists ==
    ASSUME NEW S, IsFiniteSet(S), NEW f
    PROVE  \E sum : IsSumOver(sum, S, f)
<1> DEFINE Upto(n) == {s \in SUBSET S : Cardinality(s) <= n}
           Next(sum, s) == IF s = {} THEN 0 ELSE f[Chosen(s)] + sum[s \ {Chosen(s)}]
           T == {n \in Nat : \E sum : sum = [s \in Upto(n) |-> Next(sum, s)]}
<1>1. \A s \in SUBSET S : IsFiniteSet(s) /\ Cardinality(s) \in Nat
  BY FS_Subset, FS_CardinalityType
<1>2. 0 \in T
  <2> DEFINE zero == [s \in Upto(0) |-> 0]
  <2>1. \A s \in Upto(0) : s = {}
    BY <1>1, FS_EmptySet
  <2>2. zero = [s \in Upto(0) |-> Next(zero, s)]
    BY <2>1
  <2> QED
    BY <2>2
<1>3. ASSUME NEW n \in T
      PROVE  n + 1 \in T
  <2>1. PICK sum : sum = [s \in Upto(n) |-> Next(sum, s)]
    OBVIOUS
  <2> DEFINE more == [s \in Upto(n + 1) |-> Next(sum, s)]
  <2>2. \A s \in Upto(n) : s \in Upto(n + 1) /\ more[s] = sum[s]
    <3>1. \A s \in Upto(n) : s \in Upto(n + 1)
      BY <1>1
    <3>2. \A s \in Upto(n + 1) : more[s] = Next(sum, s)
      OBVIOUS
    <3>3. \A s \in Upto(n) : sum[s] = Next(sum, s)
      BY <2>1
    <3> QED
      BY <3>1, <3>2, <3>3
  <2>3. \A s \in Upto(n + 1) : s # {} => s \ {Chosen(s)} \in Upto(n)
    <3> SUFFICES ASSUME NEW s \in Upto(n + 1), s # {} PROVE s \ {Chosen(s)} \in Upto(n)
      OBVIOUS
    <3>1. Cardinality(s \ {Chosen(s)}) = Cardinality(s) - 1
      BY <1>1, ChosenIsIn, FS_RemoveElement
    <3> QED
      BY <1>1, <3>1
  <2>4. \A s \in Upto(n + 1) : Next(more, s) = Next(sum, s)
    BY <2>2, <2>3
  <2>5. more = [s \in Upto(n + 1) |-> Next(more, s)]
    BY <2>4
  <2>6. n + 1 \in Nat
    OBVIOUS
  <2> HIDE DEF more, Next, Upto
  <2> QED
    BY <2>5, <2>6
<1>4. Cardinality(S) \in T
  BY <1>1, <1>2, <1>3, AllOfNat
<1>5. Upto(Cardinality(S)) = SUBSET S
  BY FS_Subset
<1> QED
  BY <1>4, <1>5 DEF IsSumOver

\* A sum of counts is a count, and no less than any of them.
LEMMA SumBounds ==
    ASSUME NEW S, IsFiniteSet(S), NEW f \in [S -> Nat], NEW sum, IsSumOver(sum, S, f)
    PROVE  sum[S] \in Nat /\ \A x \in S : f[x] <= sum[S]
<1> DEFINE Bounded(s) == sum[s] \in Nat /\ \A x \in s : f[x] <= sum[s]
           T == {n \in Nat : \A s \in SUBSET S : Cardinality(s) = n => Bounded(s)}
<1>1. \A s \in SUBSET S : IsFiniteSet(s) /\ Cardinality(s) \in Nat
  BY FS_Subset, FS_CardinalityType
<1>2. 0 \in T
  BY <1>1, FS_EmptySet DEF IsSumOver
<1>3. ASSUME NEW n \in T
      PROVE  n + 1 \in T
  <2> SUFFICES ASSUME NEW s \in SUBSET S, Cardinality(s) = n + 1
               PROVE  Bounded(s)
    OBVIOUS
  <2>1. s # {}
    BY FS_EmptySet
  <2>2. Chosen(s) \in s
    BY <2>1, ChosenIsIn
  <2> DEFINE rest == s \ {Chosen(s)}
  <2>3. rest \in SUBSET S /\ Cardinality(rest) = n
    BY <1>1, <2>2, FS_RemoveElement
  <2>4. Bounded(rest)
    BY <2>3
  <2>5. sum[s] = f[Chosen(s)] + sum[rest]
    BY <2>1 DEF IsSumOver
  <2>6. f[Chosen(s)] \in Nat /\ \A x \in s : f[x] \in Nat
    BY <2>2
  <2>7. \A x \in s : x = Chosen(s) \/ x \in rest
    OBVIOUS
  <2> HIDE DEF rest
  <2> QED
    BY <2>4, <2>5, <2>6, <2>7
<1>4. T = Nat
  <2>1. T \in SUBSET Nat
    OBVIOUS
  <2> HIDE DEF T
  <2> QED
    BY <1>2, <1>3, <2>1, AllOfNat
<1> QED
  BY <1>1, <1>4

\* The touches of a set of counts together are a count, and no less than any of them.
LEMMA AllTouchesBounds ==
    ASSUME NEW U, IsFiniteSet(U), \A t \in U : t.touches \in Nat
    PROVE  AllTouches(U) \in Nat /\ \A t \in U : t.touches <= AllTouches(U)
<1> DEFINE f == [t \in U |-> t.touches]
           Eq(sum) == sum = [s \in SUBSET U |-> IF s = {} THEN 0
                                ELSE Chosen(s).touches + sum[s \ {Chosen(s)}]]
           all == CHOOSE sum : Eq(sum)
<1>1. f \in [U -> Nat]
  OBVIOUS
<1>2. ASSUME NEW sum PROVE Eq(sum) <=> IsSumOver(sum, U, f)
  <2>1. \A s \in SUBSET U : s # {} => f[Chosen(s)] = Chosen(s).touches
    BY ChosenIsIn
  <2> QED
    BY <2>1 DEF IsSumOver
<1>3. \E sum : IsSumOver(sum, U, f)
  BY SumExists
<1>4. Eq(all)
  <2>1. \E sum : Eq(sum)
    BY <1>2, <1>3
  <2> HIDE DEF Eq
  <2> QED
    BY <2>1
<1>5. AllTouches(U) = all[U]
  BY Zenon DEF AllTouches, Total, Amount, MapThenSumSet, MapThenFoldSet, Chosen
<1>6. IsSumOver(all, U, f)
  <2> HIDE DEF Eq, all
  <2> QED
    BY <1>2, <1>4
<1>7. all[U] \in Nat /\ \A t \in U : f[t] <= all[U]
  <2> HIDE DEF all, f
  <2> QED
    BY <1>1, <1>6, SumBounds
<1> QED
  BY <1>5, <1>7

\* The touches of statistics lines together are a count.
LEMMA TouchesOfIsACount ==
    ASSUME NEW U, IsFiniteSet(U), \A row \in U : Touched(row) \in Nat
    PROVE  TouchesOf(U) \in Nat
<1> DEFINE f == [row \in U |-> Touched(row)]
           Eq(sum) == sum = [s \in SUBSET U |-> IF s = {} THEN 0
                                ELSE Touched(Chosen(s)) + sum[s \ {Chosen(s)}]]
           all == CHOOSE sum : Eq(sum)
<1>1. f \in [U -> Nat]
  OBVIOUS
<1>2. ASSUME NEW sum PROVE Eq(sum) <=> IsSumOver(sum, U, f)
  <2>1. \A s \in SUBSET U : s # {} => f[Chosen(s)] = Touched(Chosen(s))
    BY ChosenIsIn
  <2> QED
    BY <2>1 DEF IsSumOver
<1>3. \E sum : IsSumOver(sum, U, f)
  BY SumExists
<1>4. Eq(all)
  <2>1. \E sum : Eq(sum)
    BY <1>2, <1>3
  <2> HIDE DEF Eq
  <2> QED
    BY <2>1
<1>5. TouchesOf(U) = all[U]
  BY Zenon DEF TouchesOf, Total, MapThenSumSet, MapThenFoldSet, Chosen
<1>6. IsSumOver(all, U, f)
  <2> HIDE DEF Eq, all
  <2> QED
    BY <1>2, <1>4
<1>7. all[U] \in Nat
  <2> HIDE DEF all, f
  <2> QED
    BY <1>1, <1>6, SumBounds
<1> QED
  BY <1>5, <1>7

-----------------------------------------------------------------------------
(* The landing spots *)

\* What a function takes on over a finite set is finite.
LEMMA RangeIsFinite ==
    ASSUME NEW S, IsFiniteSet(S), NEW f
    PROVE  IsFiniteSet({f[x] : x \in S})
<1> DEFINE g == [x \in S |-> f[x]]
           R == {f[x] : x \in S}
<1>1. g \in Surjection(S, R)
  BY DEF Surjection
<1> HIDE DEF g, R
<1>2. IsFiniteSet(R)
  BY <1>1, FS_Surjection
<1> QED
  BY <1>2 DEF R

\* A record of coaches is of finitely many seasons, each a number.
CoachRecord(coachOf) ==
    IsFiniteSet(DOMAIN coachOf) /\ \A key \in DOMAIN coachOf : key[1] \in Int

\* Finitely many games have finitely many coached seasons.
LEMMA CoachesAreARecord ==
    ASSUME StoreInv, NEW coachOf \in Coaches(store)
    PROVE  CoachRecord(coachOf)
<1> DEFINE games == {g \in store.games : g.type = "REG"}
           seasons == {g.season : g \in games}
           homes == {g.home : g \in games}
           aways == {g.away : g \in games}
<1>1. DOMAIN coachOf \subseteq seasons \X (homes \cup aways)
  <2> DEFINE who == ({g.homeCoach : g \in games} \cup {g.awayCoach : g \in games}) \ {Null}
             led(key, coach) == CoachedGames(games, key[1], key[2], coach)
             keys == {key \in seasons \X (homes \cup aways) : \E coach \in who : led(key, coach) > 0}
             most(key) == {coach \in who : \A other \in who : led(key, coach) >= led(key, other)}
  <2>1. coachOf \in Picks(keys, most)
    BY Zenon DEF Coaches
  <2>2. DOMAIN coachOf = keys
    BY <2>1 DEF Picks
  <2> QED
    BY <2>2
<1>2. IsFiniteSet(games) /\ \A g \in games : g.season \in Int
  <2>1. IsFiniteSet(store.games) /\ \A g \in store.games : g.season \in Int
    BY StoresAssumption DEF StoreInv, Tables
  <2> QED
    BY <2>1, FS_Subset
<1> HIDE DEF games
<1>3. IsFiniteSet(seasons)
  <2> DEFINE f == [g \in games |-> g.season]
  <2>1. seasons = {f[g] : g \in games}
    OBVIOUS
  <2> HIDE DEF f
  <2>2. IsFiniteSet({f[g] : g \in games})
    BY <1>2, RangeIsFinite
  <2> QED
    BY <2>1, <2>2
<1>4. IsFiniteSet(homes)
  <2> DEFINE f == [g \in games |-> g.home]
  <2>1. homes = {f[g] : g \in games}
    OBVIOUS
  <2> HIDE DEF f
  <2>2. IsFiniteSet({f[g] : g \in games})
    BY <1>2, RangeIsFinite
  <2> QED
    BY <2>1, <2>2
<1>5. IsFiniteSet(aways)
  <2> DEFINE f == [g \in games |-> g.away]
  <2>1. aways = {f[g] : g \in games}
    OBVIOUS
  <2> HIDE DEF f
  <2>2. IsFiniteSet({f[g] : g \in games})
    BY <1>2, RangeIsFinite
  <2> QED
    BY <2>1, <2>2
<1>6. \A s \in seasons : s \in Int
  BY <1>2
<1> HIDE DEF seasons, homes, aways
<1>7. IsFiniteSet(homes \cup aways)
  BY <1>4, <1>5, FS_Union
<1>8. IsFiniteSet(seasons \X (homes \cup aways))
  BY <1>3, <1>7, FS_Product
<1>9. IsFiniteSet(DOMAIN coachOf)
  BY <1>1, <1>8, FS_Subset
<1>10. \A key \in DOMAIN coachOf : key[1] \in Int
  BY <1>1, <1>6
<1> QED
  BY <1>9, <1>10 DEF CoachRecord

\* The seasons counted are the last ones, without a gap.
LEMMA TenureIsUnbroken ==
    ASSUME NEW coachOf, CoachRecord(coachOf), NEW season \in Int, NEW team
    PROVE  /\ IsFiniteSet(Tenure(coachOf, season, team))
           /\ \A k \in 1..Cardinality(Tenure(coachOf, season, team)) :
                 season - k \in Tenure(coachOf, season, team)
<1> DEFINE years == Tenure(coachOf, season, team)
           told == {key[1] : key \in DOMAIN coachOf}
<1>1. IsFiniteSet(years)
  <2> DEFINE f == [key \in DOMAIN coachOf |-> key[1]]
  <2>1. told = {f[key] : key \in DOMAIN coachOf}
    OBVIOUS
  <2>2. IsFiniteSet(told)
    <3> HIDE DEF f
    <3>1. IsFiniteSet({f[key] : key \in DOMAIN coachOf})
      BY RangeIsFinite DEF CoachRecord
    <3> QED
      BY <2>1, <3>1
  <2>3. years \subseteq told
    BY DEF Tenure
  <2> HIDE DEF years, told
  <2> QED
    BY <2>2, <2>3, FS_Subset
<1>2. \A y \in years : y \in Int /\ y < season
  BY DEF Tenure, CoachRecord
<1>3. Cardinality(years) \in Nat
  BY <1>1, FS_CardinalityType
<1>4. ASSUME NEW k \in 1..Cardinality(years), season - k \notin years
      PROVE  FALSE
  <2>0. k \in Int /\ k >= 1 /\ k <= Cardinality(years)
    BY <1>3
  <2>1. ASSUME NEW y \in years, y <= season - k
        PROVE  FALSE
    <3>1. \A z \in y..season : /\ <<z, team>> \in DOMAIN coachOf
                               /\ coachOf[<<z, team>>] = coachOf[<<season, team>>]
      BY DEF Tenure
    <3>2. season - k \in y..season /\ season - k < season
      BY <1>2, <2>0, <2>1
    <3>3. season - k \in told
      <4>1. <<season - k, team>> \in DOMAIN coachOf
        BY <3>1, <3>2
      <4> QED
        BY <4>1
    <3>4. \A z \in (season - k)..season : z \in y..season
      BY <1>2, <2>0, <2>1
    <3> QED
      BY <1>4, <3>1, <3>2, <3>3, <3>4 DEF Tenure
  <2>2. years \subseteq (season - k + 1)..(season - 1)
    BY <1>2, <2>0, <2>1
  <2>3. /\ IsFiniteSet((season - k + 1)..(season - 1))
        /\ Cardinality((season - k + 1)..(season - 1)) = k - 1
    <3> DEFINE a == season - k + 1
               b == season - 1
    <3>1. a \in Int /\ b \in Int /\ (IF a > b THEN 0 ELSE b - a + 1) = k - 1
      BY <2>0
    <3> HIDE DEF a, b
    <3>2. IsFiniteSet(a..b) /\ Cardinality(a..b) = k - 1
      BY <3>1, FS_Interval
    <3> QED
      BY <3>2 DEF a, b
  <2>4. Cardinality(years) <= k - 1
    <3> DEFINE span == (season - k + 1)..(season - 1)
    <3> HIDE DEF span, years
    <3>1. Cardinality(years) <= Cardinality(span)
      BY <2>2, <2>3, FS_Subset DEF span
    <3> QED
      BY <2>3, <3>1 DEF span
  <2> HIDE DEF years
  <2> QED
    BY <1>3, <2>0, <2>4
<1> QED
  BY <1>1, <1>4

\* A rookie's touches are counts: of the lines, those without numbers are left out.
LEMMA RookieTouchesAreCounts ==
    ASSUME StoreInv
    PROVE  /\ IsFiniteSet(RookieTouches(store))
           /\ \A t \in RookieTouches(store) : t.touches \in Nat
<1> DEFINE rookie(row) == \E p \in store.players :
                             /\ p.id = row.player /\ p.rookie = row.season
                             /\ p.position \in RookieTouchPositions
           lines == {row \in store.stats : /\ row.type = "REG" /\ row.team # Null
                                           /\ rookie(row) /\ Touched(row) # Null}
           key(row) == [season |-> row.season, team |-> row.team, player |-> row.player]
           keys == {key(row) : row \in lines}
           own(k) == {row \in lines : /\ row.season = k.season /\ row.team = k.team
                                      /\ row.player = k.player}
           entry(k) == [key |-> k, touches |-> TouchesOf(own(k))]
<1>1. RookieTouches(store) = {entry(k) : k \in keys}
  BY DEF RookieTouches
<1>2. IsFiniteSet(lines) /\ \A row \in lines : Touched(row) \in Nat
  <2>1. \A row \in lines : Touched(row) \in Nat
    BY DEF StoreInv, IsLine, Touched, Plus
  <2> QED
    BY <2>1, FS_Subset DEF StoreInv
<1> HIDE DEF lines
<1>3. IsFiniteSet(keys)
  <2> DEFINE f == [row \in lines |-> key(row)]
  <2>1. keys = {f[row] : row \in lines}
    OBVIOUS
  <2> HIDE DEF f
  <2>2. IsFiniteSet({f[row] : row \in lines})
    BY <1>2, RangeIsFinite
  <2> QED
    BY <2>1, <2>2
<1>4. \A k \in keys : entry(k).touches \in Nat
  <2> SUFFICES ASSUME NEW k \in keys PROVE TouchesOf(own(k)) \in Nat
    OBVIOUS
  <2>1. own(k) \subseteq lines
    OBVIOUS
  <2> HIDE DEF own
  <2>2. IsFiniteSet(own(k)) /\ \A row \in own(k) : Touched(row) \in Nat
    BY <1>2, <2>1, FS_Subset
  <2> QED
    BY <2>2, TouchesOfIsACount
<1> HIDE DEF keys, entry
<1>5. IsFiniteSet({entry(k) : k \in keys})
  <2> DEFINE f == [k \in keys |-> entry(k)]
  <2>1. {entry(k) : k \in keys} = {f[k] : k \in keys}
    OBVIOUS
  <2> HIDE DEF f
  <2>2. IsFiniteSet({f[k] : k \in keys})
    BY <1>3, RangeIsFinite
  <2> QED
    BY <2>1, <2>2
<1> QED
  BY <1>1, <1>4, <1>5

\* A landing spot told from a record of coaches follows it.
LEMMA SpotsFollow ==
    ASSUME StoreInv, NEW coachOf, CoachRecord(coachOf),
           NEW landing \in RookieOpportunity(store, coachOf, DraftSeason),
           NEW team \in DOMAIN landing
    PROVE  Follows(landing[team], coachOf, team)
<1> DEFINE teams == {key[2] : key \in {k \in DOMAIN coachOf : k[1] = DraftSeason}}
           measured == {t \in teams : Tenure(coachOf, DraftSeason, t) # {}}
           touches == RookieTouches(store)
           spot(t, rank) == LandingSpot(coachOf, touches, DraftSeason, t, Cardinality(measured), rank)
           years == Tenure(coachOf, DraftSeason, team)
           under == {t \in touches : t.key.team = team /\ t.key.season \in years}
<1>1. PICK f \in [measured -> 1..Cardinality(measured)] :
        landing = [t \in teams |-> spot(t, IF t \in measured THEN f[t] ELSE Null)]
  BY DEF RookieOpportunity
<1> DEFINE rank == IF team \in measured THEN f[team] ELSE Null
<1>2. team \in teams /\ landing[team] = spot(team, rank)
  BY <1>1
<1>3. /\ IsFiniteSet(years)
      /\ \A k \in 1..Cardinality(years) : DraftSeason - k \in years
  BY TenureIsUnbroken, LimitAssumption
<1>4. /\ landing[team].coach = coachOf[<<DraftSeason, team>>]
      /\ landing[team].seasons = Cardinality(years)
      /\ landing[team].rank = rank
      /\ years # {} => landing[team].average.sum = AllTouches(under)
      /\ landing[team].workhorse => \E t \in under : t.touches >= MeaningfulTouches
  BY <1>2 DEF LandingSpot
<1>5. \A k \in 1..Cardinality(years) :
          coachOf[<<DraftSeason - k, team>>] = coachOf[<<DraftSeason, team>>]
  <2>1. ASSUME NEW y \in years
        PROVE  coachOf[<<y, team>>] = coachOf[<<DraftSeason, team>>]
    BY LimitAssumption DEF Tenure, CoachRecord
  <2> HIDE DEF years
  <2> QED
    BY <1>3, <2>1
<1>6. (rank = Null) = (Cardinality(years) = 0)
  <2>1. team \in measured <=> years # {}
    BY <1>2
  <2>2. Cardinality(years) = 0 <=> years = {}
    BY <1>3, FS_EmptySet
  <2>3. team \in measured => rank # Null
    <3> DEFINE n == Cardinality(measured)
    <3>1. team \in measured => rank \in 1..n
      OBVIOUS
    <3>2. \A k \in 1..n : k \in Int
      OBVIOUS
    <3> HIDE DEF rank, n, measured
    <3> QED
      BY <3>1, <3>2, NullAssumption
  <2>4. team \notin measured => rank = Null
    OBVIOUS
  <2> HIDE DEF rank, measured
  <2> QED
    BY <2>1, <2>2, <2>3, <2>4
<1>7. landing[team].workhorse => landing[team].average.sum >= MeaningfulTouches
  <2>1. IsFiniteSet(under) /\ \A t \in under : t.touches \in Nat
    BY RookieTouchesAreCounts, FS_Subset
  <2>2. AllTouches(under) \in Nat /\ \A t \in under : t.touches <= AllTouches(under)
    <3> HIDE DEF under
    <3> QED
      BY <2>1, AllTouchesBounds
  <2>3. under # {} => years # {}
    OBVIOUS
  <2> HIDE DEF under, years
  <2> QED
    BY <1>4, <2>1, <2>2, <2>3, LimitAssumption
<1> HIDE DEF years, rank
<1> QED
  BY <1>4, <1>5, <1>6, <1>7 DEF Follows

\* Whom the coaches' record and the landing spots spoke of when they were answered.
LandingInv ==
    /\ asking > 11 => "coaches" \in DOMAIN held /\ CoachRecord(held["coaches"])
    /\ asking > 12 => /\ "landing" \in DOMAIN held
                      /\ \A team \in DOMAIN held["landing"] :
                            Follows(held["landing"][team], held["coaches"], team)

\* The answers are kept to the end of the load, and no import touches them.
LEMMA LandingKept == StoreInv /\ HeldInv /\ LandingInv /\ [PoolNext]_poolVars => LandingInv'
<1> SUFFICES ASSUME StoreInv, HeldInv, LandingInv, [PoolNext]_poolVars PROVE LandingInv'
  OBVIOUS
<1>1. CASE UNCHANGED <<asking, held>>
  BY <1>1 DEF LandingInv, CoachRecord, Follows
<1>2. CASE AskTheRest
  <2>1. /\ asking \in 1..12 /\ asking' = asking + 1
        /\ \E answer : Answered(Questions[asking], answer) /\ Remembers(Questions[asking], answer)
    BY <1>2, AnswersAreHeld DEF HeldInv
  <2>2. PICK answer : Answered(Questions[asking], answer) /\ Remembers(Questions[asking], answer)
    BY <2>1
  <2>3. \A q \in DOMAIN held : q # Questions[asking] => q \in DOMAIN held' /\ held'[q] = held[q]
    BY <2>2 DEF Remembers
  <2>4. Questions[asking] \in DOMAIN held' /\ held'[Questions[asking]] = answer
    BY <2>2 DEF Remembers
  <2>5. CASE asking = 11
    <3>1. Questions[asking] = "coaches"
      BY <2>5 DEF Questions
    <3>2. CoachRecord(answer)
      BY <2>2, <3>1, CoachesAreARecord DEF Answered
    <3> QED
      BY <2>1, <2>4, <2>5, <3>1, <3>2 DEF LandingInv, CoachRecord
  <2>6. CASE asking = 12
    <3>1. Questions[asking] = "landing"
      BY <2>6 DEF Questions
    <3>2. "coaches" \in DOMAIN held /\ CoachRecord(held["coaches"])
      BY <2>6 DEF LandingInv
    <3>3. "coaches" \in DOMAIN held' /\ held'["coaches"] = held["coaches"]
      BY <2>3, <3>1, <3>2
    <3>4. \A team \in DOMAIN answer : Follows(answer[team], held["coaches"], team)
      <4>1. answer \in RookieOpportunity(store, held["coaches"], DraftSeason)
        BY <2>2, <3>1 DEF Answered
      <4> QED
        BY <3>2, <4>1, SpotsFollow
    <3> QED
      BY <2>4, <3>1, <3>2, <3>3, <3>4 DEF LandingInv, CoachRecord, Follows
  <2>7. CASE asking < 11
    BY <2>1, <2>7 DEF LandingInv
  <2> QED
    BY <2>1, <2>5, <2>6, <2>7
<1>3. CASE asking' = 1
  BY <1>3 DEF LandingInv
<1> QED
  BY <1>1, <1>2, <1>3 DEF PoolNext, Import, Build, BuildEmpty, poolVars

\* A rookie's landing spot is told for the seasons without a gap under the coach the
\* record names, whatever the games, the statistics and the ties between coaches.
THEOREM LandingSpotsFollowTheCoachHolds == PoolSpec => []LandingSpotsFollowTheCoach
<1>1. PoolInit => LandingInv
  BY DEF PoolInit, LandingInv
<1>2. PoolInv /\ LandingInv /\ [PoolNext]_poolVars => LandingInv'
  BY LandingKept DEF PoolInv
<1>3. LandingInv => LandingSpotsFollowTheCoach
  <2>1. Len(Questions) = 13
    BY DEF Questions
  <2> QED
    BY <2>1 DEF LandingInv, LandingSpotsFollowTheCoach
<1> QED
  BY <1>1, <1>2, <1>3, PoolInvHolds, PTL DEF PoolSpec

-----------------------------------------------------------------------------
(* Order *)

\* In a finite set with a strict order, given by who comes before whom, every place
\* is taken and the place tells who comes first.
LEMMA PlacesAreTaken ==
    ASSUME NEW S, IsFiniteSet(S), NEW pre \in [S -> SUBSET S],
           \A x \in S : x \notin pre[x],
           \A x, y \in S : x \in pre[y] => pre[x] \subseteq pre[y],
           \A x, y \in S : x = y \/ x \in pre[y] \/ y \in pre[x]
    PROVE  /\ Cardinality(S) \in Nat
           /\ \A x \in S : Cardinality(pre[x]) \in 0..(Cardinality(S) - 1)
           /\ \A x, y \in S : x \in pre[y] <=> Cardinality(pre[x]) < Cardinality(pre[y])
           /\ \A n \in 1..Cardinality(S) : \E x \in S : Cardinality(pre[x]) = n - 1
<1> DEFINE N == Cardinality(S)
           place == [x \in S |-> Cardinality(pre[x])]
<1>1. N \in Nat
  BY FS_CardinalityType
<1>2. \A x \in S : IsFiniteSet(pre[x]) /\ Cardinality(pre[x]) \in Nat
  BY FS_Subset, FS_CardinalityType
<1>3. ASSUME NEW x \in S, NEW y \in S, x \in pre[y]
      PROVE  Cardinality(pre[x]) < Cardinality(pre[y])
  <2>1. pre[x] \subseteq pre[y] /\ pre[x] # pre[y]
    BY <1>3
  <2>2. /\ Cardinality(pre[x]) <= Cardinality(pre[y])
        /\ Cardinality(pre[x]) # Cardinality(pre[y])
    BY <1>2, <2>1, FS_Subset
  <2> QED
    BY <1>2, <2>2
<1>4. ASSUME NEW x \in S
      PROVE  Cardinality(pre[x]) \in 0..(N - 1)
  <2>1. pre[x] \subseteq S /\ pre[x] # S
    OBVIOUS
  <2>2. Cardinality(pre[x]) <= N /\ Cardinality(pre[x]) # N
    BY <2>1, FS_Subset
  <2> QED
    BY <1>1, <1>2, <2>2
<1>5. \A x, y \in S : x \in pre[y] <=> Cardinality(pre[x]) < Cardinality(pre[y])
  <2> SUFFICES ASSUME NEW x \in S, NEW y \in S,
                      Cardinality(pre[x]) < Cardinality(pre[y])
               PROVE  x \in pre[y]
    BY <1>3
  <2>1. x # y
    BY <1>2
  <2>2. y \notin pre[x]
    BY <1>2, <1>3
  <2> QED
    BY <2>1, <2>2
<1>6. place \in Injection(S, 0..(N - 1))
  <2>1. place \in [S -> 0..(N - 1)]
    BY <1>4
  <2>2. \A x, y \in S : place[x] = place[y] => x = y
    BY <1>2, <1>3
  <2> QED
    BY <2>1, <2>2 DEF Injection, IsInjective
<1>7. IsFiniteSet(0..(N - 1)) /\ Cardinality(0..(N - 1)) = N
  <2>1. 0 \in Int /\ N - 1 \in Int
    BY <1>1
  <2>2. /\ IsFiniteSet(0..(N - 1))
        /\ Cardinality(0..(N - 1)) = IF 0 > N - 1 THEN 0 ELSE (N - 1) - 0 + 1
    BY <2>1, FS_Interval
  <2> QED
    BY <1>1, <2>2
<1>8. place \in Surjection(S, 0..(N - 1))
  BY <1>6, <1>7, FS_Injection
<1>9. \A n \in 1..N : \E x \in S : place[x] = n - 1
  <2> TAKE n \in 1..N
  <2>1. n - 1 \in 0..(N - 1)
    BY <1>1
  <2> QED
    BY <1>8, <2>1 DEF Surjection
<1> QED
  BY <1>1, <1>4, <1>5, <1>9

\* What InOrder makes of such a set: each of its members once, at his place.
LEMMA OrderIsComplete ==
    ASSUME NEW S, IsFiniteSet(S), NEW pre \in [S -> SUBSET S],
           \A x \in S : x \notin pre[x],
           \A x, y \in S : x \in pre[y] => pre[x] \subseteq pre[y],
           \A x, y \in S : x = y \/ x \in pre[y] \/ y \in pre[x],
           NEW order, order = [n \in 1..Cardinality(S) |->
                                   CHOOSE x \in S : Cardinality(pre[x]) = n - 1]
    PROVE  /\ Cardinality(S) \in Nat /\ order \in [1..Cardinality(S) -> S]
           /\ \A n \in DOMAIN order : Cardinality(pre[order[n]]) = n - 1
           /\ \A x \in S : /\ Cardinality(pre[x]) + 1 \in DOMAIN order
                           /\ order[Cardinality(pre[x]) + 1] = x
           /\ \A m, n \in DOMAIN order : m < n <=> order[m] \in pre[order[n]]
<1>1. /\ Cardinality(S) \in Nat
      /\ \A x \in S : Cardinality(pre[x]) \in 0..(Cardinality(S) - 1)
      /\ \A x, y \in S : x \in pre[y] <=> Cardinality(pre[x]) < Cardinality(pre[y])
      /\ \A n \in 1..Cardinality(S) : \E x \in S : Cardinality(pre[x]) = n - 1
  BY PlacesAreTaken
<1>2. \A n \in 1..Cardinality(S) : order[n] \in S /\ Cardinality(pre[order[n]]) = n - 1
  BY <1>1
<1>3. ASSUME NEW x \in S
      PROVE  /\ Cardinality(pre[x]) + 1 \in DOMAIN order
             /\ order[Cardinality(pre[x]) + 1] = x
  <2>1. Cardinality(pre[x]) + 1 \in 1..Cardinality(S)
    BY <1>1
  <2> DEFINE y == order[Cardinality(pre[x]) + 1]
  <2>2. y \in S /\ Cardinality(pre[y]) = Cardinality(pre[x])
    BY <1>1, <1>2, <2>1
  <2>3. x \notin pre[y] /\ y \notin pre[x]
    BY <1>1, <2>2
  <2> QED
    BY <2>1, <2>2, <2>3
<1>4. \A m, n \in DOMAIN order : m < n <=> order[m] \in pre[order[n]]
  <2> TAKE m, n \in DOMAIN order
  <2>1. m \in 1..Cardinality(S) /\ n \in 1..Cardinality(S)
    OBVIOUS
  <2>2. /\ order[m] \in S /\ Cardinality(pre[order[m]]) = m - 1
        /\ order[n] \in S /\ Cardinality(pre[order[n]]) = n - 1
    BY <1>2, <2>1
  <2>3. m - 1 < n - 1 <=> order[m] \in pre[order[n]]
    BY <1>1, <2>2
  <2> QED
    BY <1>1, <2>1, <2>3
<1>5. order \in [1..Cardinality(S) -> S]
  BY <1>2
<1> QED
  BY <1>1, <1>2, <1>3, <1>4, <1>5

\* The smaller and the larger of two.
LEMMA OfTwo ==
    ASSUME NEW a \in Int, NEW b \in Int
    PROVE  /\ Min({a, b}) = IF a <= b THEN a ELSE b
           /\ Max({a, b}) = IF a <= b THEN b ELSE a
<1>1. a <= b => Min({a, b}) = a /\ Max({a, b}) = b
  BY DEF Min, Max
<1>2. b <= a => Min({a, b}) = b /\ Max({a, b}) = a
  BY DEF Min, Max
<1> QED
  BY <1>1, <1>2

\* The numbers of a set below each of them.
Smaller(S) == [n \in S |-> {m \in S : m < n}]

\* Numbers by size: who is below whom is an order.
LEMMA BySize ==
    ASSUME NEW S \in SUBSET Int
    PROVE  /\ Smaller(S) \in [S -> SUBSET S]
           /\ \A x \in S : x \notin Smaller(S)[x]
           /\ \A x, y \in S : x \in Smaller(S)[y] => Smaller(S)[x] \subseteq Smaller(S)[y]
           /\ \A x, y \in S : x = y \/ x \in Smaller(S)[y] \/ y \in Smaller(S)[x]
           /\ \A x, y \in S : x \in Smaller(S)[y] <=> x < y
<1>1. Smaller(S) \in [S -> SUBSET S]
  BY DEF Smaller
<1>2. \A x, y \in S : x \in Smaller(S)[y] <=> x < y
  BY DEF Smaller
<1>3. \A x, y \in S : x \in Smaller(S)[y] => Smaller(S)[x] \subseteq Smaller(S)[y]
  <2> SUFFICES ASSUME NEW x \in S, NEW y \in S, x \in Smaller(S)[y],
                      NEW z \in Smaller(S)[x]
               PROVE  z \in Smaller(S)[y]
    OBVIOUS
  <2>1. z \in S
    BY <1>1
  <2>2. z < x /\ x < y
    BY <1>2, <2>1
  <2>3. z < y
    BY <2>1, <2>2
  <2> QED
    BY <1>2, <2>1, <2>3
<1>4. \A x, y \in S : x # y => x < y \/ y < x
  OBVIOUS
<1>5. \A x \in S : ~(x < x)
  OBVIOUS
<1> QED
  BY <1>1, <1>2, <1>3, <1>4, <1>5

\* A finite set of numbers has a largest.
LEMMA MaxOfInts ==
    ASSUME NEW S \in SUBSET Int, IsFiniteSet(S), S # {}
    PROVE  Max(S) \in S /\ \A y \in S : Max(S) >= y
<1> DEFINE pre == Smaller(S)
<1>1. /\ pre \in [S -> SUBSET S]
      /\ \A x \in S : x \notin pre[x]
      /\ \A x, y \in S : x \in pre[y] => pre[x] \subseteq pre[y]
      /\ \A x, y \in S : x = y \/ x \in pre[y] \/ y \in pre[x]
  BY BySize
<1>2. \A x, y \in S : x \in pre[y] <=> x < y
  BY BySize
<1> HIDE DEF pre
<1>3. /\ \A x \in S : Cardinality(pre[x]) \in 0..(Cardinality(S) - 1)
      /\ \A x, y \in S : x \in pre[y] <=> Cardinality(pre[x]) < Cardinality(pre[y])
      /\ \A n \in 1..Cardinality(S) : \E x \in S : Cardinality(pre[x]) = n - 1
  BY <1>1, PlacesAreTaken
<1>4. Cardinality(S) \in Nat /\ Cardinality(S) # 0
  BY FS_CardinalityType, FS_EmptySet
<1>5. PICK x \in S : Cardinality(pre[x]) = Cardinality(S) - 1
  BY <1>3, <1>4
<1>6. \A y \in S : x \notin pre[y]
  BY <1>3, <1>4, <1>5
<1>7. \A y \in S : x >= y
  BY <1>2, <1>6
<1> QED
  BY <1>7 DEF Max

\* Of any places, those with fewer than k before them are as many as k, or all.
LEMMA FirstFew ==
    ASSUME NEW N \in Nat, NEW P \in SUBSET (1..N), NEW k \in Nat
    PROVE  LET few == {n \in P : Cardinality({m \in P : m < n}) < k}
           IN  Min({k, Cardinality(P)}) \in Nat /\ Cardinality(few) >= Min({k, Cardinality(P)})
<1> DEFINE pre == Smaller(P)
           few == {n \in P : Cardinality(pre[n]) < k}
           M   == Min({k, Cardinality(P)})
           f   == [n \in few |-> Cardinality(pre[n])]
           Q   == {n \in few : Cardinality(pre[n]) < M}
           g   == [n \in Q |-> Cardinality(pre[n])]
<1>1. IsFiniteSet(P) /\ Cardinality(P) \in Nat
  <2>1. IsFiniteSet(1..N)
    <3>1. 1 \in Int /\ N \in Int
      OBVIOUS
    <3> QED
      BY <3>1, FS_Interval
  <2> QED
    BY <2>1, FS_Subset, FS_CardinalityType
<1>2. /\ pre \in [P -> SUBSET P]
      /\ \A x \in P : x \notin pre[x]
      /\ \A x, y \in P : x \in pre[y] => pre[x] \subseteq pre[y]
      /\ \A x, y \in P : x = y \/ x \in pre[y] \/ y \in pre[x]
  <2>1. P \in SUBSET Int
    OBVIOUS
  <2> QED
    BY <2>1, BySize
<1>3. few = {n \in P : Cardinality({m \in P : m < n}) < k}
  BY DEF Smaller
<1> HIDE DEF pre
<1>4. /\ \A x \in P : Cardinality(pre[x]) \in 0..(Cardinality(P) - 1)
      /\ \A n \in 1..Cardinality(P) : \E x \in P : Cardinality(pre[x]) = n - 1
  BY <1>1, <1>2, PlacesAreTaken
<1>5. M \in Nat /\ M <= k /\ M <= Cardinality(P)
  BY <1>1, OfTwo
<1> HIDE DEF M
<1>6. g \in Surjection(Q, 0..(M - 1))
  <2>1. \A n \in Q : Cardinality(pre[n]) \in Nat /\ Cardinality(pre[n]) < M
    BY <1>1, <1>4
  <2>2. \A n \in Q : Cardinality(pre[n]) \in 0..(M - 1)
    BY <1>5, <2>1
  <2>3. ASSUME NEW i \in 0..(M - 1) PROVE \E n \in Q : g[n] = i
    <3>1. i + 1 \in 1..Cardinality(P) /\ i < k /\ i < M
      BY <1>1, <1>5
    <3>2. PICK x \in P : Cardinality(pre[x]) = (i + 1) - 1
      BY <1>4, <3>1
    <3>3. x \in Q /\ g[x] = i
      BY <3>1, <3>2
    <3> QED
      BY <3>3
  <2> QED
    BY <2>2, <2>3 DEF Surjection
<1>7. IsFiniteSet(few) /\ IsFiniteSet(Q) /\ Cardinality(Q) <= Cardinality(few)
      /\ Cardinality(few) \in Nat /\ Cardinality(Q) \in Nat
  BY <1>1, FS_Subset, FS_CardinalityType
<1> HIDE DEF few, Q, g
<1>8. Cardinality(0..(M - 1)) = M /\ Cardinality(0..(M - 1)) <= Cardinality(Q)
  <2>1. 0 \in Int /\ M - 1 \in Int
    BY <1>5
  <2>2. Cardinality(0..(M - 1)) = IF 0 > M - 1 THEN 0 ELSE (M - 1) - 0 + 1
    BY <2>1, FS_Interval
  <2>3. Cardinality(0..(M - 1)) = M
    BY <1>5, <2>2
  <2> QED
    BY <1>6, <1>7, <2>3, FS_Surjection
<1>9. Cardinality(few) >= M
  BY <1>5, <1>7, <1>8
<1> QED
  BY <1>3, <1>5, <1>9 DEF M

\* The places kept of a list, in order.
InPlace(kept) ==
    [n \in 1..Cardinality(kept) |->
        CHOOSE x \in kept : Cardinality({m \in kept : m < x}) = n - 1]

\* Places in order: each once.
LEMMA KeptInOrder ==
    ASSUME NEW N \in Nat, NEW kept \in SUBSET (1..N)
    PROVE  /\ Cardinality(kept) \in Nat /\ InPlace(kept) \in [1..Cardinality(kept) -> kept]
           /\ \A x \in kept : \E k \in DOMAIN InPlace(kept) : InPlace(kept)[k] = x
           /\ \A m, n \in DOMAIN InPlace(kept) : m < n => InPlace(kept)[m] < InPlace(kept)[n]
<1> DEFINE pre == Smaller(kept)
           C == Cardinality(kept)
           order == [n \in 1..C |-> CHOOSE x \in kept : Cardinality({m \in kept : m < x}) = n - 1]
<1>1. kept \in SUBSET Int /\ IsFiniteSet(kept)
  <2>1. IsFiniteSet(1..N)
    <3>1. 1 \in Int /\ N \in Int
      OBVIOUS
    <3> QED
      BY <3>1, FS_Interval
  <2>2. 1..N \subseteq Int
    OBVIOUS
  <2>3. IsFiniteSet(kept)
    BY <2>1, FS_Subset
  <2> QED
    BY <2>2, <2>3
<1>2. /\ pre \in [kept -> SUBSET kept]
      /\ \A x \in kept : x \notin pre[x]
      /\ \A x, y \in kept : x \in pre[y] => pre[x] \subseteq pre[y]
      /\ \A x, y \in kept : x = y \/ x \in pre[y] \/ y \in pre[x]
  BY <1>1, BySize
<1>3. /\ \A x, y \in kept : x \in pre[y] <=> x < y
      /\ \A x \in kept : pre[x] = {m \in kept : m < x}
  BY <1>1, BySize DEF Smaller
<1> HIDE DEF pre
<1>4. /\ C \in Nat
      /\ \A x \in kept : Cardinality(pre[x]) \in 0..(C - 1)
      /\ \A x, y \in kept : x \in pre[y] <=> Cardinality(pre[x]) < Cardinality(pre[y])
      /\ \A n \in 1..C : \E x \in kept : Cardinality(pre[x]) = n - 1
  BY <1>1, <1>2, PlacesAreTaken
<1>5. ASSUME NEW n \in 1..C
      PROVE  order[n] \in kept /\ Cardinality(pre[order[n]]) = n - 1
  <2>1. \E x \in kept : Cardinality({m \in kept : m < x}) = n - 1
    BY <1>3, <1>4
  <2>2. order[n] \in kept /\ Cardinality({m \in kept : m < order[n]}) = n - 1
    BY <2>1
  <2> HIDE DEF order
  <2> QED
    BY <1>3, <2>2
<1>6. DOMAIN order = 1..C /\ order \in [1..C -> kept]
  BY <1>5
<1> HIDE DEF order
<1>7. ASSUME NEW m \in 1..C, NEW n \in 1..C, m < n
      PROVE  order[m] < order[n]
  <2>1. order[m] \in kept /\ order[n] \in kept
    BY <1>5
  <2>2. Cardinality(pre[order[m]]) = m - 1 /\ Cardinality(pre[order[n]]) = n - 1
    BY <1>5
  <2>3. Cardinality(pre[order[m]]) < Cardinality(pre[order[n]])
    BY <1>4, <1>7, <2>2
  <2> QED
    BY <1>3, <1>4, <2>1, <2>3
<1>8. ASSUME NEW x \in kept
      PROVE  \E k \in 1..C : order[k] = x
  <2> DEFINE k == Cardinality(pre[x]) + 1
  <2>1. k \in 1..C
    BY <1>4
  <2> DEFINE y == order[k]
  <2>2. y \in kept /\ Cardinality(pre[y]) = k - 1
    BY <1>5, <2>1
  <2> HIDE DEF y
  <2>3. Cardinality(pre[y]) = Cardinality(pre[x]) /\ Cardinality(pre[x]) \in Nat
    BY <1>4, <2>2
  <2>4. y \notin pre[x] /\ x \notin pre[y]
    BY <1>4, <2>2, <2>3
  <2>5. y = x
    BY <1>2, <2>2, <2>4
  <2> QED
    BY <2>1, <2>5 DEF y
<1> QED
  <2>1. InPlace(kept) = order
    BY DEF InPlace, order
  <2> QED
    BY <1>4, <1>6, <1>7, <1>8, <2>1

-----------------------------------------------------------------------------
(* A score is a number *)

\* A number held within limits is one.
LEMMA ClampIsInt ==
    ASSUME NEW low \in Int, NEW high \in Int, NEW x \in Int
    PROVE  /\ Clamp(low, high, x) \in Int
           /\ low <= high => Clamp(low, high, x) \in low..high
<1>1. Min({high, x}) \in Int /\ Min({high, x}) <= high
  BY OfTwo
<1> QED
  BY <1>1, OfTwo DEF Clamp

\* A context the engine can score with.
ContextOk(c) ==
    /\ DOMAIN c = {"available", "baseline", "most", "scarcity", "need", "unfilled", "now",
                   "wait", "next", "byes", "left"}
    /\ IsFiniteSet(DOMAIN c.available) /\ DOMAIN c.available \subseteq Int
    /\ \A n \in DOMAIN c.available :
          /\ IsPlayer(c.available[n])
          /\ SurvivalProbability(c.available[n], c.now, c.next) \in (0..Unit) \cup {Unknown}
    /\ \A m, n \in DOMAIN c.available : c.available[m].uuid = c.available[n].uuid => m = n
    /\ c.most \in Int /\ c.baseline.most \in Int
    /\ \A q \in Rosterable : c.baseline.points[q] \in Int /\ c.need[q] \in Int
    /\ \A q \in DOMAIN c.scarcity : c.scarcity[q].index \in Int
    /\ IsFiniteSet(DOMAIN c.byes)

\* A value over replacement is a number or nothing, and normalised it is a number.
LEMMA ValueIsInt ==
    ASSUME NEW points, NEW p, IsPlayer(p), points[p.position] \in Int
    PROVE  ValueOver(points, p) = Unknown \/ ValueOver(points, p) \in Int
BY DEF ValueOver, HasProjection, IsPlayer

\* Against the largest value, nothing counts as none.
LEMMA NormIsInt ==
    ASSUME NEW value, value = Unknown \/ value \in Int, NEW most \in Int
    PROVE  NormaliseVorp(value, most) \in Int
<1>1. CASE value = Unknown \/ most <= 0
  BY <1>1 DEF NormaliseVorp
<1>2. CASE value # Unknown /\ most > 0
  <2>1. (Unit * value) \div most \in Int
    BY <1>2 DEF Unit
  <2>2. Clamp(-Unit, Unit, (Unit * value) \div most) \in Int
    BY <2>1, ClampIsInt DEF Unit
  <2> QED
    BY <1>2, <2>2 DEF NormaliseVorp
<1> QED
  BY <1>1, <1>2

\* The best of what evidence there is.
LEMMA SupportIsInt ==
    ASSUME NEW p, IsPlayer(p)
    PROVE  Support(p) = Unknown \/ Support(p) \in Int
<1> DEFINE o == OpportunitySupport(p.usage, p.position)
           s == ProductionSupport(p.usage, p.position, p.projected)
           r == RoleSupport(p.chart)
<1>1. p.usage # Unknown => o = Unknown \/ o \in Int
  <2>1. \A q \in Valued : CorroboratingShare(q) \in Nat \ {0}
    BY DEF Valued, CorroboratingShare
  <2>2. SUFFICES ASSUME p.usage # Unknown, o # Unknown PROVE o \in Int
    OBVIOUS
  <2>3. /\ p.usage.snaps \in Int /\ p.position \in Valued
        /\ o = Min({Unit, (Unit * p.usage.snaps) \div CorroboratingShare(p.position)})
    BY <2>2 DEF OpportunitySupport, IsPlayer
  <2>4. (Unit * p.usage.snaps) \div CorroboratingShare(p.position) \in Int
    BY <2>1, <2>3 DEF Unit
  <2> QED
    BY <2>3, <2>4, OfTwo DEF Unit
<1>2. p.usage # Unknown => s = Unknown \/ s \in Int
  <2>2. SUFFICES ASSUME p.usage # Unknown, s # Unknown PROVE s \in Int
    OBVIOUS
  <2>3. /\ p.usage.perGame \in Int /\ p.projected \in Int /\ ~(p.projected <= 0)
        /\ s = Min({Unit, (Unit * GamesInSeason * p.usage.perGame) \div p.projected})
    BY <2>2 DEF ProductionSupport, IsPlayer
  <2>4. (Unit * GamesInSeason * p.usage.perGame) \div p.projected \in Int
    BY <2>3 DEF Unit, GamesInSeason
  <2> QED
    BY <2>3, <2>4, OfTwo DEF Unit
<1>3. r \in Int
  <2>1. CASE p.chart.rank \in DOMAIN Ladder(p.chart.position)
    <3>1. \A q : \A n \in DOMAIN Ladder(q) : Ladder(q)[n] \in Int
      BY DEF Ladder
    <3> QED
      BY <2>1, <3>1 DEF RoleSupport
  <2>2. CASE p.chart.rank \notin DOMAIN Ladder(p.chart.position)
    BY <2>2 DEF RoleSupport
  <2> QED
    BY <2>1, <2>2
<1> DEFINE measured == IF p.usage = Unknown THEN {} ELSE {o, s}
           listed   == IF p.chart = Unknown THEN {} ELSE {r}
           signals  == (measured \cup listed) \ {Unknown}
<1>4. Support(p) = IF signals = {} THEN Unknown ELSE Max(signals)
  BY DEF Support
<1>5. signals \subseteq Int /\ signals \subseteq {o, s, r}
  BY <1>1, <1>2, <1>3
<1> HIDE DEF o, s, r, signals
<1>6. IsFiniteSet(signals)
  <2>1. IsFiniteSet({o}) /\ IsFiniteSet({o} \cup {s}) /\ IsFiniteSet({o} \cup {s} \cup {r})
    BY FS_Singleton, FS_AddElement
  <2>2. signals \subseteq {o} \cup {s} \cup {r}
    BY <1>5
  <2> QED
    BY <2>1, <2>2, FS_Subset
<1>7. signals # {} => Max(signals) \in Int
  BY <1>5, <1>6, MaxOfInts
<1> QED
  BY <1>4, <1>7

\* A score of numbers.
PartsOk(p, c, rank) ==
    /\ VorpPoints(p, c) \in Int /\ ScarcityPoints(p, c) \in Int /\ NeedPoints(p, c) \in Int
    /\ AdpPoints(p, rank) \in Int /\ UnsupportedPoints(p, c) \in Int
    /\ LandingPoints(p) \in Int /\ PlayoffPoints(p) \in Int /\ UrgencyPoints(p, c) \in Int
    /\ HealthPoints(p) \in Int /\ LateRoundPoints(p, c) \in Int /\ ByePoints(p, c) \in Int

\* Each component of a score is a number, for any rank the market was compared with.
LEMMA PartsAreInt ==
    ASSUME NEW c, ContextOk(c), NEW n \in DOMAIN c.available,
           NEW rank, rank = Unknown \/ rank \in Int
    PROVE  PartsOk(c.available[n], c, rank)
<1> DEFINE p == c.available[n]
<1>1. /\ IsPlayer(p) /\ c.most \in Int
      /\ SurvivalProbability(p, c.now, c.next) \in Int \cup {Unknown}
      /\ c.baseline.points[p.position] \in Int /\ c.need[p.position] \in Int
      /\ \A q \in DOMAIN c.scarcity : c.scarcity[q].index \in Int
      /\ IsFiniteSet(DOMAIN c.byes)
  BY DEF ContextOk, IsPlayer
<1> HIDE DEF p
<1>2. Norm(p, c) \in Int
  BY <1>1, ValueIsInt, NormIsInt DEF Norm
<1>3. VorpPoints(p, c) \in Int
  BY <1>2 DEF VorpPoints, Points, Weight
<1>4. ScarcityPoints(p, c) \in Int
  BY <1>1 DEF ScarcityPoints, Points, Weight
<1>5. NeedPoints(p, c) \in Int
  BY <1>1 DEF NeedPoints, Points, Weight
<1>6. AdpPoints(p, rank) \in Int
  <2> DEFINE value == AdpValue(p, rank)
  <2>1. value = Unknown \/ value \in Int
    BY <1>1 DEF AdpValue, IsPlayer
  <2>2. ASSUME NEW v \in Int
        PROVE  Points(Weight.adp, Min({Unit, (Unit * v) \div AdpValueScale})) \in Int
    <3>1. (Unit * v) \div AdpValueScale \in Int
      BY DEF Unit, AdpValueScale
    <3>2. Min({Unit, (Unit * v) \div AdpValueScale}) \in Int
      BY <3>1, OfTwo DEF Unit
    <3> QED
      BY <3>2 DEF Points, Weight
  <2> HIDE DEF value
  <2>3. CASE value = Unknown
    BY <2>3 DEF AdpPoints, value
  <2>4. CASE value # Unknown /\ value >= 100
    BY <2>1, <2>2, <2>4 DEF AdpPoints, value
  <2>5. CASE value # Unknown /\ value <= -100
    <3>1. -value \in Int /\ ~(value >= 100)
      BY <2>1, <2>5
    <3>2. Points(Weight.adp, Min({Unit, (Unit * (-value)) \div AdpValueScale})) \in Int
      BY <2>2, <3>1
    <3>3. AdpPoints(p, rank)
             = -Points(Weight.adp, Min({Unit, (Unit * (-value)) \div AdpValueScale}))
      BY <2>5, <3>1 DEF AdpPoints, value
    <3> QED
      BY <3>2, <3>3
  <2>6. CASE value # Unknown /\ ~(value >= 100) /\ ~(value <= -100)
    BY <2>6 DEF AdpPoints, value
  <2> QED
    BY <2>3, <2>4, <2>5, <2>6
<1>7. UnsupportedPoints(p, c) \in Int
  <2>1. Support(p) # Unknown => Points(Weight.unsupported, Unit - Support(p)) \in Int
    BY <1>1, SupportIsInt DEF Points, Weight, Unit
  <2> QED
    BY <2>1 DEF UnsupportedPoints
<1>8. LandingPoints(p) \in Int
  BY <1>1 DEF LandingPoints, Boost, IsPlayer, RankedTeams
<1>9. PlayoffPoints(p) \in Int
  <2>1. p.playoffs # Unknown =>
           Difficulty(p.playoffs) = Unknown \/ Difficulty(p.playoffs) \in Int
    <3>1. SUFFICES ASSUME p.playoffs # Unknown, Difficulty(p.playoffs) # Unknown
                   PROVE  Difficulty(p.playoffs) \in Int
      OBVIOUS
    <3>2. /\ p.playoffs.allowed \in Int /\ p.playoffs.average \in Int
          /\ p.playoffs.average > 0
          /\ Difficulty(p.playoffs) = (Unit * p.playoffs.allowed) \div p.playoffs.average
      BY <1>1, <3>1 DEF Difficulty, IsPlayer
    <3> QED
      BY <3>2 DEF Unit
  <2> DEFINE d == IF p.playoffs = Unknown THEN Unknown ELSE Difficulty(p.playoffs)
  <2>2. d = Unknown \/ d \in Int
    BY <2>1
  <2>3. d # Unknown => Points(Weight.playoffs, d - Unit) \in Int
    BY <2>2 DEF Points, Weight, Unit
  <2> QED
    BY <2>3 DEF PlayoffPoints
<1>10. UrgencyPoints(p, c) \in Int
  <2>1. TakeNow(p, c) = Unknown \/ TakeNow(p, c) \in Int
    BY <1>1 DEF TakeNow, TakeNowProbability, Survival, Unit
  <2>2. ASSUME TakeNow(p, c) # Unknown
        PROVE  Points(Weight.urgency, (TakeNow(p, c) * Norm(p, c)) \div Unit) \in Int
    <3>1. TakeNow(p, c) * Norm(p, c) \in Int
      BY <1>2, <2>1, <2>2
    <3> QED
      BY <3>1 DEF Points, Weight, Unit
  <2> QED
    BY <2>2 DEF UrgencyPoints
<1>11. HealthPoints(p) \in Int
  BY <1>1 DEF HealthPoints, IsPlayer, Weight
<1>12. LateRoundPoints(p, c) \in Int
  BY DEF LateRoundPoints, Weight
<1>13. ByePoints(p, c) \in Int
  <2> DEFINE shared == Cardinality({k \in DOMAIN c.byes : c.byes[k] = p.bye})
  <2>1. shared \in Nat
    BY <1>1, FS_Subset, FS_CardinalityType
  <2>2. Min({4, shared}) \in Int
    BY <2>1, OfTwo
  <2>3. (100 * Weight.bye * Min({4, shared})) \div 4 \in Int
    BY <2>2 DEF Weight
  <2> QED
    BY <2>3 DEF ByePoints
<1> QED
  BY <1>3, <1>4, <1>5, <1>6, <1>7, <1>8, <1>9, <1>10, <1>11, <1>12, <1>13 DEF PartsOk, p

\* So is their sum, under the cap or not.
LEMMA ScoreIsInt ==
    ASSUME NEW c, ContextOk(c), NEW n \in DOMAIN c.available,
           NEW rank, rank = Unknown \/ rank \in Int
    PROVE  ScorePlayer(c.available[n], c, rank) \in Int
<1> DEFINE p == c.available[n]
<1>1. PartsOk(p, c, rank)
  BY PartsAreInt
<1>2. \A total \in Int : Min({total, NoProjectionScoreCap}) \in Int
  BY OfTwo DEF NoProjectionScoreCap
<1> HIDE DEF p
<1>3. ScorePlayer(p, c, rank) \in Int
  BY <1>1, <1>2 DEF PartsOk, ScorePlayer
<1> QED
  BY <1>3 DEF p

-----------------------------------------------------------------------------
(* The ranking *)

\* The largest value of a pool is a number, and nobody's is larger.
LEMMA BestIsInt ==
    ASSUME NEW players, IsFiniteSet(DOMAIN players), NEW points,
           \A n \in DOMAIN players : IsPlayer(players[n]) /\ points[players[n].position] \in Int
    PROVE  /\ BestValueIn(players, points) \in Int
           /\ \A n \in DOMAIN players : HasProjection(players[n]) =>
                 /\ ValueOver(points, players[n]) \in Int
                 /\ ValueOver(points, players[n]) <= BestValueIn(players, points)
<1> DEFINE f == [n \in DOMAIN players |-> ValueOver(points, players[n])]
           all == {f[n] : n \in DOMAIN players}
           values == {ValueOver(points, players[n]) : n \in DOMAIN players} \ {Unknown}
<1>1. \A n \in DOMAIN players : ValueOver(points, players[n]) = Unknown \/ ValueOver(points, players[n]) \in Int
  BY ValueIsInt
<1>2. IsFiniteSet(all)
  BY RangeIsFinite
<1>3. values \subseteq all
  OBVIOUS
<1>4. IsFiniteSet(values)
  BY <1>2, <1>3, FS_Subset
<1>5. values \subseteq Int
  BY <1>1
<1> HIDE DEF values
<1>6. values # {} => Max(values) \in Int /\ \A v \in values : v <= Max(values)
  BY <1>4, <1>5, MaxOfInts
<1>7. BestValueIn(players, points) = IF values = {} THEN 0 ELSE Max(values)
  BY DEF BestValueIn, values
<1>8. ASSUME NEW n \in DOMAIN players, HasProjection(players[n])
      PROVE  ValueOver(points, players[n]) \in Int /\ ValueOver(points, players[n]) \in values
  <2>1. players[n].projected \in Int /\ points[players[n].position] \in Int
    BY <1>8 DEF HasProjection, IsPlayer
  <2>2. ValueOver(points, players[n]) \in Int
    BY <1>8, <2>1 DEF ValueOver
  <2>3. ValueOver(points, players[n]) # Unknown
    BY <2>2, PoolsAssumption
  <2> QED
    BY <2>2, <2>3 DEF values
<1> QED
  BY <1>6, <1>7, <1>8

\* On another scale, what the engine is told is what it was.
LEMMA ScaleIsOk ==
    ASSUME NEW context, ContextOk(context)
    PROVE  /\ ContextOk(OnScale(context))
           /\ OnScale(context).available = context.available
           /\ OnScale(context).baseline = context.baseline
<1> DEFINE most == IF context.baseline.most > 0 THEN context.baseline.most
                   ELSE BestValueIn(context.available, context.baseline.points)
<1>1. most \in Int
  BY BestIsInt DEF ContextOk, IsPlayer
<1> HIDE DEF most
<1>2. OnScale(context) = [context EXCEPT !.most = most]
  BY DEF OnScale, most
<1> QED
  BY <1>1, <1>2 DEF ContextOk

\* Pass one: every player once, under a rank, and the better score under the earlier.
LEMMA ProvisionalIsRanked ==
    ASSUME NEW c, ContextOk(c)
    PROVE  /\ IsFiniteSet(Provisional(c))
           /\ \A x \in Provisional(c) :
                 x.rank \in Int /\ \E n \in DOMAIN c.available : x.player = c.available[n]
           /\ \A x, y \in Provisional(c) : x.player.uuid = y.player.uuid => x = y
           /\ \A x, y \in Provisional(c) :
                 ScorePlayer(x.player, c, Unknown) > ScorePlayer(y.player, c, Unknown)
                 => x.rank <= y.rank
<1> DEFINE first == {[at |-> n, score |-> ScorePlayer(c.available[n], c, Unknown)]
                     : n \in DOMAIN c.available}
           Before(x, y) == x.score > y.score \/ (x.score = y.score /\ x.at < y.at)
           of(x) == [player |-> c.available[x.at],
                     rank   |-> 1 + Cardinality({y \in first : Before(y, x)})]
           f == [n \in DOMAIN c.available |->
                    [at |-> n, score |-> ScorePlayer(c.available[n], c, Unknown)]]
           g == [x \in first |-> of(x)]
<1>1. Provisional(c) = {of(x) : x \in first}
  BY DEF Provisional
<1>2. IsFiniteSet(first)
  <2>1. first = {f[n] : n \in DOMAIN c.available}
    OBVIOUS
  <2>2. DOMAIN f = DOMAIN c.available
    OBVIOUS
  <2> HIDE DEF first, f
  <2> QED
    BY <2>1, <2>2, RangeIsFinite DEF ContextOk
<1>3. IsFiniteSet(Provisional(c))
  <2>1. Provisional(c) = {g[x] : x \in first}
    BY <1>1
  <2>2. DOMAIN g = first
    OBVIOUS
  <2> HIDE DEF first, g
  <2> QED
    BY <1>2, <2>1, <2>2, RangeIsFinite
<1>4. \A x \in first : Cardinality({y \in first : Before(y, x)}) \in Nat
  BY <1>2, FS_Subset, FS_CardinalityType
<1>5. \A x \in first : x.at \in DOMAIN c.available
  OBVIOUS
<1>6. \A x, y \in first : x.at = y.at => x = y
  OBVIOUS
<1>7. \A x : /\ of(x).player = c.available[x.at]
             /\ of(x).rank = 1 + Cardinality({y \in first : Before(y, x)})
  OBVIOUS
<1>8. \A x, y \in first : c.available[x.at].uuid = c.available[y.at].uuid => x = y
  <2> HIDE DEF first
  <2> QED
    BY <1>5, <1>6 DEF ContextOk
<1>9. \A x \in first : of(x).rank \in Int
  <2> HIDE DEF first, Before
  <2> TAKE x \in first
  <2>1. Cardinality({y \in first : Before(y, x)}) \in Nat
    BY <1>4
  <2>2. of(x).rank = 1 + Cardinality({y \in first : Before(y, x)})
    OBVIOUS
  <2> QED
    BY <2>1, <2>2
<1>10. \A x \in first : x.score \in Int /\ x.score = ScorePlayer(of(x).player, c, Unknown)
  <2>1. \A n \in DOMAIN c.available : ScorePlayer(c.available[n], c, Unknown) \in Int
    BY ScoreIsInt
  <2>2. \A x \in first : x.score = ScorePlayer(c.available[x.at], c, Unknown)
    OBVIOUS
  <2> HIDE DEF first, of
  <2> QED
    BY <1>5, <1>7, <2>1, <2>2
<1>11. ASSUME NEW x \in first, NEW y \in first, x.score > y.score
       PROVE  of(x).rank <= of(y).rank
  <2> HIDE DEF first
  <2>1. {z \in first : Before(z, x)} \subseteq {z \in first : Before(z, y)}
    <3> SUFFICES ASSUME NEW z \in first, Before(z, x) PROVE Before(z, y)
      OBVIOUS
    <3>1. z.score \in Int /\ x.score \in Int /\ y.score \in Int
      BY <1>10
    <3>2. z.score >= x.score
      BY <3>1
    <3> QED
      BY <1>11, <3>1, <3>2
  <2> HIDE DEF Before
  <2>2. Cardinality({z \in first : Before(z, x)}) <= Cardinality({z \in first : Before(z, y)})
    BY <1>2, <2>1, FS_Subset
  <2> HIDE DEF of
  <2> QED
    BY <1>4, <1>7, <2>2
<1> HIDE DEF first, Before, of
<1>12. \A x \in Provisional(c) :
         x.rank \in Int /\ \E n \in DOMAIN c.available : x.player = c.available[n]
  BY <1>1, <1>5, <1>7, <1>9
<1>13. \A x, y \in first : of(x).player.uuid = of(y).player.uuid => x = y
  BY <1>7, <1>8
<1>14. \A x, y \in Provisional(c) : x.player.uuid = y.player.uuid => x = y
  BY <1>1, <1>13
<1>15. \A x, y \in Provisional(c) :
         ScorePlayer(x.player, c, Unknown) > ScorePlayer(y.player, c, Unknown)
         => x.rank <= y.rank
  BY <1>1, <1>10, <1>11
<1> QED
  BY <1>3, <1>12, <1>14, <1>15

\* Pass two: the board has each rank once, and under it what is recommended of an
\* available player, compared with the market at the rank pass one gave him; and who
\* scores more stands higher.
LEMMA BoardIsRanked ==
    ASSUME NEW context, ContextOk(context)
    PROVE  \E N \in Nat :
             /\ DOMAIN RankBoard(context) = 1..N
             /\ \A r \in 1..N :
                   \E n \in DOMAIN context.available, prior \in Int :
                      RankBoard(context)[r]
                        = Recommendation(context.available[n], OnScale(context), r, prior)
             /\ \A r \in 1..N :
                   \E x \in Provisional(OnScale(context)) :
                      RankBoard(context)[r]
                        = Recommendation(x.player, OnScale(context), r, x.rank)
             /\ \A r, s \in 1..N :
                   RankBoard(context)[r].score > RankBoard(context)[s].score => r < s
<1> DEFINE c == OnScale(context)
           row(x) == [player |-> x.player, prior |-> x.rank,
                      score |-> ScorePlayer(x.player, c, x.rank)]
           scored == {row(x) : x \in Provisional(c)}
           Adp(x) == IF x.player.adp = Unknown THEN 100000000 ELSE x.player.adp
           Before(x, y) ==
             \/ x.score > y.score
             \/ x.score = y.score /\ Adp(x) < Adp(y)
             \/ x.score = y.score /\ Adp(x) = Adp(y) /\ x.player.uuid < y.player.uuid
           place(x) == 1 + Cardinality({y \in scored : Before(y, x)})
           placed == {[player |-> x.player, prior |-> x.prior, rank |-> place(x)] : x \in scored}
           ranked == {Recommendation(x.player, c, x.rank, x.prior) : x \in placed}
           rec(x) == Recommendation(x.player, c, place(x), x.prior)
<1>1. RankBoard(context) = InOrder(ranked, LAMBDA x, y : x.rank < y.rank)
  BY DEF RankBoard
<1>2. ContextOk(c) /\ c.available = context.available
  BY ScaleIsOk
<1>3. /\ IsFiniteSet(Provisional(c))
      /\ \A x \in Provisional(c) :
            x.rank \in Int /\ \E n \in DOMAIN c.available : x.player = c.available[n]
      /\ \A x, y \in Provisional(c) : x.player.uuid = y.player.uuid => x = y
  BY <1>2, ProvisionalIsRanked
<1> HIDE DEF c
<1>4. \A x \in Provisional(c) : ScorePlayer(x.player, c, x.rank) \in Int
  BY <1>2, <1>3, ScoreIsInt
<1>5. IsFiniteSet(scored)
  <2> DEFINE f == [x \in Provisional(c) |-> row(x)]
  <2>1. scored = {f[x] : x \in Provisional(c)} /\ DOMAIN f = Provisional(c)
    OBVIOUS
  <2> HIDE DEF scored, f
  <2> QED
    BY <1>3, <2>1, RangeIsFinite
<1>6. \A x : /\ row(x).player = x.player /\ row(x).prior = x.rank
             /\ row(x).score = ScorePlayer(x.player, c, x.rank)
  OBVIOUS
<1> HIDE DEF row
<1>7. \A x \in scored :
        /\ x.score \in Int /\ x.prior \in Int /\ Adp(x) \in Int /\ x.player.uuid \in Int
        /\ \E n \in DOMAIN c.available : x.player = c.available[n]
  <2>1. \A n \in DOMAIN c.available : IsPlayer(c.available[n])
    BY <1>2 DEF ContextOk
  <2>2. \A n \in DOMAIN c.available :
          /\ c.available[n].uuid \in Int
          /\ c.available[n].adp # Unknown => c.available[n].adp \in Int
    BY <2>1 DEF IsPlayer
  <2> QED
    BY <1>3, <1>4, <1>6, <2>2
<1>8. \A x, y \in scored : x.player.uuid = y.player.uuid => x = y
  BY <1>3, <1>6
<1>9. \A x \in scored : /\ x.score = ScorePlayer(x.player, c, x.prior)
                          /\ \E y \in Provisional(c) : x.player = y.player /\ x.prior = y.rank
  BY <1>6
<1> HIDE DEF scored, Adp
<1> DEFINE pre == [x \in scored |-> {y \in scored : Before(y, x)}]
<1>10. \A x \in scored : ~Before(x, x)
  BY <1>7
<1>11. \A x, y, z \in scored : Before(x, y) /\ Before(y, z) => Before(x, z)
  BY <1>7
<1>12. \A x, y \in scored : x = y \/ Before(x, y) \/ Before(y, x)
  BY <1>7, <1>8
<1>13. \A x, y \in scored : x.score > y.score => Before(x, y)
  OBVIOUS
<1> HIDE DEF Before
<1>14. /\ pre \in [scored -> SUBSET scored]
       /\ \A x \in scored : x \notin pre[x]
       /\ \A x, y \in scored : x \in pre[y] => pre[x] \subseteq pre[y]
       /\ \A x, y \in scored : x = y \/ x \in pre[y] \/ y \in pre[x]
  BY <1>10, <1>11, <1>12
<1>15. /\ \A x \in scored : place(x) = 1 + Cardinality(pre[x])
       /\ \A x, y \in scored : y \in pre[x] <=> Before(y, x)
  OBVIOUS
<1> HIDE DEF place, pre
<1>16. /\ \A x \in scored : Cardinality(pre[x]) \in 0..(Cardinality(scored) - 1)
       /\ \A x, y \in scored : x \in pre[y] <=> Cardinality(pre[x]) < Cardinality(pre[y])
  BY <1>5, <1>14, PlacesAreTaken
<1>17. \A x \in scored : place(x) \in Int /\ Cardinality(pre[x]) = place(x) - 1
  BY <1>15, <1>16
<1>18. \A x, y \in scored : x \in pre[y] <=> place(x) < place(y)
  BY <1>16, <1>17
<1>19. ranked = {rec(x) : x \in scored}
  <2> DEFINE z(x) == [player |-> x.player, prior |-> x.prior, rank |-> place(x)]
             told(y) == Recommendation(y.player, c, y.rank, y.prior)
  <2>1. placed = {z(x) : x \in scored} /\ ranked = {told(y) : y \in placed}
    OBVIOUS
  <2>2. \A x : z(x).player = x.player /\ z(x).prior = x.prior /\ z(x).rank = place(x)
    OBVIOUS
  <2> HIDE DEF z, placed, ranked
  <2>3. \A x : told(z(x)) = rec(x)
    BY <2>2
  <2> HIDE DEF told, rec
  <2>4. \A o : o \in ranked <=> \E x \in scored : o = rec(x)
    BY <2>1, <2>3
  <2> QED
    BY <2>4
<1>20. \A x \in scored : rec(x).rank = place(x) /\ rec(x).score = x.score
  BY <1>9 DEF Recommendation
<1>21. \A x, y \in scored : rec(x) = rec(y) => x = y
  <2> TAKE x, y \in scored
  <2>1. rec(x) = rec(y) => place(x) = place(y)
    BY <1>20
  <2>2. place(x) = place(y) => x \notin pre[y] /\ y \notin pre[x]
    BY <1>17, <1>18
  <2> QED
    BY <1>14, <2>1, <2>2
<1> HIDE DEF ranked, rec
<1> DEFINE below == [x \in ranked |-> {y \in ranked : y.rank < x.rank}]
<1>22. IsFiniteSet(ranked)
  <2> DEFINE f == [x \in scored |-> rec(x)]
  <2>1. ranked = {f[x] : x \in scored} /\ DOMAIN f = scored
    BY <1>19
  <2> HIDE DEF f
  <2> QED
    BY <1>5, <2>1, RangeIsFinite
<1>23. \A x \in ranked : x.rank \in Int
  BY <1>17, <1>19, <1>20
<1>24. \A x, y \in ranked : x.rank = y.rank => x = y
  <2> SUFFICES ASSUME NEW x \in scored, NEW y \in scored, place(x) = place(y)
               PROVE  x = y
    BY <1>19, <1>20
  <2> QED
    BY <1>14, <1>17, <1>18
<1>25. /\ below \in [ranked -> SUBSET ranked]
       /\ \A x \in ranked : x \notin below[x]
       /\ \A x, y \in ranked : x \in below[y] => below[x] \subseteq below[y]
       /\ \A x, y \in ranked : x = y \/ x \in below[y] \/ y \in below[x]
  <2>1. below \in [ranked -> SUBSET ranked] /\ \A x \in ranked : x \notin below[x]
    BY <1>23
  <2>2. ASSUME NEW x \in ranked, NEW y \in ranked, x \in below[y], NEW z \in below[x]
        PROVE  z \in below[y]
    <3>1. z \in ranked /\ z.rank < x.rank /\ x.rank < y.rank
      BY <2>2
    <3>2. z.rank < y.rank
      BY <1>23, <3>1
    <3> QED
      BY <3>1, <3>2
  <2>3. \A x, y \in ranked : x = y \/ x \in below[y] \/ y \in below[x]
    BY <1>23, <1>24
  <2> QED
    BY <2>1, <2>2, <2>3
<1>26. ASSUME NEW x \in scored PROVE Cardinality(below[rec(x)]) = place(x) - 1
  <2> DEFINE f == [y \in pre[x] |-> rec(y)]
  <2>1. rec(x) \in ranked /\ pre[x] \subseteq scored /\ IsFiniteSet(pre[x])
    BY <1>5, <1>14, <1>19, FS_Subset
  <2>2. below[rec(x)] = {rec(y) : y \in pre[x]}
    <3>1. \A y \in scored : rec(y).rank < rec(x).rank <=> y \in pre[x]
      BY <1>18, <1>20
    <3> QED
      BY <1>19, <2>1, <3>1
  <2>3. f \in Bijection(pre[x], below[rec(x)])
    BY <1>21, <2>1, <2>2 DEF Bijection, Injection, Surjection, IsInjective
  <2>4. Cardinality(below[rec(x)]) = Cardinality(pre[x])
    <3>1. ExistsBijection(pre[x], below[rec(x)])
      BY <2>3 DEF ExistsBijection
    <3> QED
      BY <2>1, <3>1, FS_Bijection
  <2> QED
    BY <1>17, <2>4
<1>27. RankBoard(context) = [n \in 1..Cardinality(ranked) |->
                                CHOOSE x \in ranked : Cardinality(below[x]) = n - 1]
  <2>1. \A x \in ranked : below[x] = {y \in ranked : y.rank < x.rank}
    OBVIOUS
  <2>2. \A n : (CHOOSE x \in ranked : Cardinality(below[x]) = n - 1)
               = CHOOSE x \in ranked : Cardinality({y \in ranked : y.rank < x.rank}) = n - 1
    BY <2>1
  <2> QED
    BY <1>1, <2>2 DEF InOrder
<1> HIDE DEF below
<1>28. /\ Cardinality(ranked) \in Nat
       /\ RankBoard(context) \in [1..Cardinality(ranked) -> ranked]
       /\ \A n \in DOMAIN RankBoard(context) : Cardinality(below[RankBoard(context)[n]]) = n - 1
  BY <1>22, <1>25, <1>27, OrderIsComplete
<1>29. ASSUME NEW r \in 1..Cardinality(ranked)
       PROVE  \E x \in scored : RankBoard(context)[r] = rec(x) /\ place(x) = r
  <2>1. RankBoard(context)[r] \in ranked /\ Cardinality(below[RankBoard(context)[r]]) = r - 1
    BY <1>28
  <2>2. PICK x \in scored : RankBoard(context)[r] = rec(x)
    BY <1>19, <2>1
  <2>3. place(x) = r
    BY <1>17, <1>26, <2>1, <2>2
  <2> QED
    BY <2>2, <2>3
<1>30. ASSUME NEW r \in 1..Cardinality(ranked)
       PROVE  /\ \E n \in DOMAIN context.available, prior \in Int :
                    RankBoard(context)[r] = Recommendation(context.available[n], c, r, prior)
              /\ \E x \in Provisional(c) :
                    RankBoard(context)[r] = Recommendation(x.player, c, r, x.rank)
  <2>1. PICK x \in scored : RankBoard(context)[r] = rec(x) /\ place(x) = r
    BY <1>29
  <2>2. rec(x) = Recommendation(x.player, c, r, x.prior)
    BY <2>1 DEF rec
  <2>3. PICK n \in DOMAIN c.available : x.player = c.available[n]
    BY <1>7
  <2>4. PICK y \in Provisional(c) : x.player = y.player /\ x.prior = y.rank
    BY <1>9
  <2> QED
    BY <1>2, <1>7, <2>1, <2>2, <2>3, <2>4
<1>31. ASSUME NEW r \in 1..Cardinality(ranked), NEW s \in 1..Cardinality(ranked),
              RankBoard(context)[r].score > RankBoard(context)[s].score
       PROVE  r < s
  <2>1. PICK x \in scored : RankBoard(context)[r] = rec(x) /\ place(x) = r
    BY <1>29
  <2>2. PICK y \in scored : RankBoard(context)[s] = rec(y) /\ place(y) = s
    BY <1>29
  <2>3. x.score > y.score
    BY <1>20, <1>31, <2>1, <2>2
  <2> QED
    BY <1>15, <1>18, <1>13, <2>1, <2>2, <2>3
<1> QED
  BY <1>28, <1>30, <1>31 DEF c

-----------------------------------------------------------------------------
(* Replacement level is a projection *)

\* A lineup has finitely many starting slots, each for finitely many positions.
LEMMA SlotsAreFinite ==
    ASSUME NEW some \in Lineups
    PROVE  /\ IsFiniteSet(Starting(some))
           /\ \A slot : IsFiniteSet(Eligible(slot)) /\ Eligible(slot) \subseteq Rosterable
           /\ \A q : Dedicated(some, q) \in Nat
<1>1. IsFiniteSet(DOMAIN some)
  <2>1. DOMAIN some = 1..Len(some) /\ 1 \in Int /\ Len(some) \in Int
    BY SessionAssumption
  <2> QED
    BY <2>1, FS_Interval
<1>2. IsFiniteSet(Starting(some))
  BY <1>1, FS_Subset DEF Starting
<1>3. \A q : Dedicated(some, q) \in Nat
  BY <1>2, FS_Subset, FS_CardinalityType DEF Dedicated
<1>4. IsFiniteSet(Rosterable)
  <2> DEFINE f == <<"QB", "RB", "WR", "TE", "K", "DEF">>
  <2>1. IsFiniteSet(1..6)
    <3>1. 1 \in Int /\ 6 \in Int
      OBVIOUS
    <3> QED
      BY <3>1, FS_Interval
  <2>2. Rosterable = {f[n] : n \in 1..6}
    <3>1. \A q \in Rosterable : \E n \in 1..6 : q = f[n]
      BY DEF Rosterable, Valued
    <3>2. \A n \in 1..6 : f[n] \in Rosterable
      BY DEF Rosterable, Valued
    <3> QED
      BY <3>1, <3>2
  <2> HIDE DEF f
  <2> QED
    BY <2>1, <2>2, RangeIsFinite
<1>5. \A slot : Eligible(slot) \subseteq Rosterable
  BY DEF Eligible, Rosterable, Valued
<1> QED
  BY <1>2, <1>3, <1>4, <1>5, FS_Subset

\* A share of a slot is a count of ten-thousandths.
LEMMA SharesAreCounts ==
    ASSUME NEW some \in Lineups, NEW positions, IsFiniteSet(positions),
           NEW q, NEW share \in Nat
    PROVE  Distribute(some, positions, q, share) \in Nat
<1> DEFINE f == [p \in positions |-> Dedicated(some, p)]
           Eq(g) == g = [s \in SUBSET positions |-> IF s = {} THEN 0
                            ELSE Dedicated(some, Chosen(s)) + g[s \ {Chosen(s)}]]
           all == CHOOSE g : Eq(g)
           sum == FoldSet(LAMBDA p, rest : Dedicated(some, p) + rest, 0, positions)
<1>1. f \in [positions -> Nat]
  BY SlotsAreFinite
<1>2. ASSUME NEW g PROVE Eq(g) <=> IsSumOver(g, positions, f)
  <2>1. \A s \in SUBSET positions : s # {} => f[Chosen(s)] = Dedicated(some, Chosen(s))
    BY ChosenIsIn
  <2> QED
    BY <2>1 DEF IsSumOver
<1>3. Eq(all)
  <2>1. \E g : Eq(g)
    <3>1. PICK g : IsSumOver(g, positions, f)
      BY SumExists
    <3> HIDE DEF Eq
    <3> QED
      BY <1>2, <3>1
  <2> HIDE DEF Eq
  <2> QED
    BY <2>1
<1>4. sum = all[positions]
  BY Zenon DEF FoldSet, MapThenFoldSet, Chosen
<1>5. IsSumOver(all, positions, f)
  <2> HIDE DEF Eq, all
  <2> QED
    BY <1>2, <1>3
<1>6. sum \in Nat
  <2> HIDE DEF all, f, sum
  <2> QED
    BY <1>1, <1>4, <1>5, SumBounds
<1> HIDE DEF sum
<1>7. CASE q \notin positions
  BY <1>7 DEF Distribute
<1>8. CASE q \in positions /\ sum = 0
  <2>1. Cardinality(positions) \in Nat \ {0}
    BY <1>8, FS_CardinalityType, FS_EmptySet
  <2>2. share \div Cardinality(positions) \in Nat
    BY <2>1
  <2> QED
    BY <1>8, <2>2 DEF Distribute, sum
<1>9. CASE q \in positions /\ sum # 0
  <2>1. Dedicated(some, q) \in Nat
    BY SlotsAreFinite
  <2>2. share * Dedicated(some, q) \in Nat
    BY <2>1
  <2>3. (share * Dedicated(some, q)) \div sum \in Nat
    BY <1>6, <1>9, <2>2
  <2> QED
    BY <1>9, <2>3 DEF Distribute, sum
<1> QED
  BY <1>7, <1>8, <1>9

\* What the flexes start of a position is a count of ten-thousandths.
LEMMA AllocationsAreCounts ==
    ASSUME NEW some \in Lineups, NEW q
    PROVE  FlexAllocation(some, q) \in Nat
<1>0. ASSUME NEW slot PROVE FlexShare(some, slot, q) \in Nat
  <2>1. IsFiniteSet(Eligible(slot)) /\ IsFiniteSet(Eligible(slot) \ {"QB"})
    BY SlotsAreFinite, FS_RemoveElement
  <2>2. \A positions, share : IsFiniteSet(positions) /\ share \in Nat
                                => Distribute(some, positions, q, share) \in Nat
    BY SharesAreCounts
  <2>3. Distribute(some, Eligible(slot), q, Unit) \in Nat
    BY <2>1, <2>2 DEF Unit
  <2>4. Unit - SuperflexQbShare \in Nat
    BY DEF Unit, SuperflexQbShare
  <2>5. Distribute(some, Eligible(slot) \ {"QB"}, q, Unit - SuperflexQbShare) \in Nat
    BY <2>1, <2>2, <2>4, Zenon
  <2> QED
    BY <2>3, <2>5 DEF FlexShare, SuperflexQbShare
<1> DEFINE f == [n \in Starting(some) |-> FlexShare(some, some[n], q)]
           Eq(g) == g = [s \in SUBSET Starting(some) |-> IF s = {} THEN 0
                            ELSE FlexShare(some, some[Chosen(s)], q) + g[s \ {Chosen(s)}]]
           all == CHOOSE g : Eq(g)
           sum == FoldSet(LAMBDA n, rest : FlexShare(some, some[n], q) + rest, 0, Starting(some))
<1>1. f \in [Starting(some) -> Nat]
  BY <1>0
<1>2. ASSUME NEW g PROVE Eq(g) <=> IsSumOver(g, Starting(some), f)
  <2>1. \A s \in SUBSET Starting(some) : s # {} => f[Chosen(s)] = FlexShare(some, some[Chosen(s)], q)
    BY ChosenIsIn
  <2> QED
    BY <2>1 DEF IsSumOver
<1>3. Eq(all)
  <2>1. \E g : Eq(g)
    <3>1. PICK g : IsSumOver(g, Starting(some), f)
      BY SumExists, SlotsAreFinite
    <3> HIDE DEF Eq
    <3> QED
      BY <1>2, <3>1
  <2> HIDE DEF Eq
  <2> QED
    BY <2>1
<1>4. sum = all[Starting(some)]
  BY Zenon DEF FoldSet, MapThenFoldSet, Chosen
<1>5. IsSumOver(all, Starting(some), f)
  <2> HIDE DEF Eq, all
  <2> QED
    BY <1>2, <1>3
<1>6. sum \in Nat
  <2> HIDE DEF all, f, sum
  <2> QED
    BY <1>1, <1>4, <1>5, SumBounds, SlotsAreFinite
<1> QED
  BY <1>6 DEF FlexAllocation

\* The rank of the player who is replacement level is a rank.
LEMMA ReplacementRankIsARank ==
    ASSUME NEW some \in Lineups, NEW q
    PROVE  ReplacementRank(TheLeague.teams, some, q) \in Nat \ {0}
<1> DEFINE x == TheLeague.teams * (Unit * Dedicated(some, q) + FlexAllocation(some, q))
<1>1. x \in Nat
  <2>1. TheLeague.teams \in Nat
    BY LeagueAssumption, TotalPicksIsNat
  <2>2. Unit * Dedicated(some, q) + FlexAllocation(some, q) \in Nat
    BY SlotsAreFinite, AllocationsAreCounts DEF Unit
  <2> QED
    BY <2>1, <2>2
<1> HIDE DEF x
<1>2. Rounded(x) \in Int
  BY <1>1 DEF Rounded, Unit
<1>3. Max({1, Rounded(x)}) = IF 1 <= Rounded(x) THEN Rounded(x) ELSE 1
  BY <1>2, OfTwo
<1>4. Max({1, Rounded(x)}) \in Nat \ {0}
  BY <1>2, <1>3
<1> QED
  BY <1>4 DEF ReplacementRank, x

\* Players an engine can rank.
PlayersOk(players) ==
    /\ IsFiniteSet(DOMAIN players) /\ DOMAIN players \subseteq Int
    /\ \A n \in DOMAIN players : IsPlayer(players[n])

\* The projections of a position are a sequence of numbers.
LEMMA ProjectedIsASequence ==
    ASSUME NEW players, PlayersOk(players), NEW q
    PROVE  Projected(players, q) \in Seq(Int)
<1> DEFINE theirs == {n \in DOMAIN players : players[n].position = q /\ HasProjection(players[n])}
           More(m, n) == \/ players[m].projected > players[n].projected
                         \/ players[m].projected = players[n].projected /\ m < n
           order == InOrder(theirs, More)
           pre == [n \in theirs |-> {m \in theirs : More(m, n)}]
<1>1. Projected(players, q) = [k \in DOMAIN order |-> players[order[k]].projected]
  BY DEF Projected
<1>2. \A n \in theirs : n \in Int /\ players[n].projected \in Int
  BY DEF PlayersOk, IsPlayer, HasProjection
<1>3. IsFiniteSet(theirs)
  BY FS_Subset DEF PlayersOk
<1> HIDE DEF theirs
<1>4. \A m \in theirs : ~More(m, m)
  BY <1>2
<1>5. \A m, n, k \in theirs : More(m, n) /\ More(n, k) => More(m, k)
  BY <1>2
<1>6. \A m, n \in theirs : m = n \/ More(m, n) \/ More(n, m)
  BY <1>2
<1>7. order = [n \in 1..Cardinality(theirs) |->
                  CHOOSE x \in theirs : Cardinality(pre[x]) = n - 1]
  <2> HIDE DEF More
  <2>1. \A x \in theirs : pre[x] = {m \in theirs : More(m, x)}
    OBVIOUS
  <2>2. \A n : (CHOOSE x \in theirs : Cardinality(pre[x]) = n - 1)
               = CHOOSE x \in theirs : Cardinality({m \in theirs : More(m, x)}) = n - 1
    BY <2>1
  <2> QED
    BY <2>2 DEF InOrder
<1> HIDE DEF More
<1>8. /\ pre \in [theirs -> SUBSET theirs]
      /\ \A x \in theirs : x \notin pre[x]
      /\ \A x, y \in theirs : x \in pre[y] => pre[x] \subseteq pre[y]
      /\ \A x, y \in theirs : x = y \/ x \in pre[y] \/ y \in pre[x]
  BY <1>4, <1>5, <1>6
<1> HIDE DEF pre, order
<1>9. Cardinality(theirs) \in Nat /\ order \in [1..Cardinality(theirs) -> theirs]
  BY <1>3, <1>7, <1>8, OrderIsComplete
<1>10. Projected(players, q) \in [1..Cardinality(theirs) -> Int]
  BY <1>1, <1>2, <1>9
<1> QED
  BY <1>9, <1>10

\* Replacement level is a projection of the position, or nothing.
LEMMA PointsAreInt ==
    ASSUME NEW players, PlayersOk(players), NEW some \in Lineups, NEW q
    PROVE  ReplacementPoints(players, TheLeague.teams, some, q) \in Int
<1> DEFINE ranked == Projected(players, q)
           rank == ReplacementRank(TheLeague.teams, some, q)
<1>1. ranked \in Seq(Int) /\ rank \in Nat \ {0}
  BY ProjectedIsASequence, ReplacementRankIsARank
<1> HIDE DEF ranked, rank
<1>2. ASSUME ranked # <<>> PROVE ranked[Min({rank, Len(ranked)})] \in Int
  <2>1. Len(ranked) \in Nat \ {0}
    BY <1>1, <1>2
  <2>2. Min({rank, Len(ranked)}) \in 1..Len(ranked)
    BY <1>1, <2>1, OfTwo
  <2> QED
    BY <1>1, <2>2
<1> QED
  BY <1>2 DEF ReplacementPoints, ranked, rank

\* So a baseline is one of numbers.
LEMMA BaselineIsInt ==
    ASSUME NEW players, PlayersOk(players), NEW some \in Lineups
    PROVE  LET b == ComputeReplacementBaseline(players, TheLeague.teams, some)
           IN  b.most \in Int /\ \A q \in Rosterable : b.points[q] \in Int
<1> DEFINE points == [q \in Rosterable |-> ReplacementPoints(players, TheLeague.teams, some, q)]
<1>1. \A q \in Rosterable : points[q] \in Int
  BY PointsAreInt
<1> HIDE DEF points
<1>2. BestValueIn(players, points) \in Int
  <2>1. \A n \in DOMAIN players : IsPlayer(players[n]) /\ points[players[n].position] \in Int
    BY <1>1 DEF PlayersOk, IsPlayer
  <2> QED
    BY <2>1, BestIsInt DEF PlayersOk
<1> QED
  BY <1>1, <1>2 DEF ComputeReplacementBaseline, points

\* The first tier of a position has a size.
LEMMA TierHasASize ==
    ASSUME NEW players, PlayersOk(players), NEW q, BuildTiers(players, q) # <<>>
    PROVE  Len(BuildTiers(players, q)[1]) \in Nat
<1> DEFINE everyone  == Projected(players, q)
           ranked    == SubSeq(everyone, 1, Min({MaxTieredDepth, Len(everyone)}))
           gaps      == [n \in 1..(Len(ranked) - 1) |-> ranked[n] - ranked[n + 1]]
           threshold == Max({MinTierGap, TwiceMedian(gaps)})
           ends      == {n \in DOMAIN gaps : gaps[n] >= threshold} \cup {Len(ranked)}
           starts    == {1} \cup {n + 1 : n \in ends \ {Len(ranked)}}
           first(t)  == CHOOSE n \in starts : Cardinality({m \in starts : m < n}) = t - 1
           tier(t)   == SubSeq(ranked, first(t), Min({n \in ends : n >= first(t)}))
<1>1. BuildTiers(players, q) = IF ranked = <<>> THEN <<>> ELSE [t \in 1..Cardinality(ends) |-> tier(t)]
  BY DEF BuildTiers, TiersOf
<1>2. ranked \in Seq(Int) /\ ranked # <<>>
  <2>1. everyone \in Seq(Int)
    BY ProjectedIsASequence
  <2>2. Min({MaxTieredDepth, Len(everyone)}) \in 0..Len(everyone)
    BY <2>1, OfTwo DEF MaxTieredDepth
  <2>3. ranked # <<>>
    BY <1>1
  <2> HIDE DEF everyone
  <2> DEFINE m == Min({MaxTieredDepth, Len(everyone)})
  <2> HIDE DEF m
  <2>4. SubSeq(everyone, 1, m) \in Seq(Int)
    <3>1. m \in Int /\ 1 \in Int /\ \A i \in 1..m : everyone[i] \in Int
      <4>1. m \in 0..Len(everyone)
        BY <2>2 DEF m
      <4> QED
        BY <2>1, <4>1
    <3> QED
      BY <3>1, SubSeqProperties
  <2> QED
    BY <2>3, <2>4 DEF m
<1> HIDE DEF ranked
<1>3. Len(ranked) \in Nat \ {0}
  BY <1>2
<1>4. Len(ranked) \in ends /\ ends \subseteq 1..Len(ranked)
  BY <1>3
<1> HIDE DEF ends
<1>5. 1 \in starts /\ starts \subseteq 1..Len(ranked)
  BY <1>3, <1>4
<1> HIDE DEF starts
<1>6. Cardinality(ends) \in Nat \ {0}
  <2>1. IsFiniteSet(1..Len(ranked))
    <3>1. 1 \in Int /\ Len(ranked) \in Int
      BY <1>3
    <3> QED
      BY <3>1, FS_Interval
  <2>2. IsFiniteSet(ends) /\ ends # {}
    BY <1>4, <2>1, FS_Subset
  <2> QED
    BY <2>2, FS_CardinalityType, FS_EmptySet
<1>7. first(1) \in starts
  <2>1. \A m \in starts : ~(m < 1)
    BY <1>3, <1>5
  <2>2. Cardinality({m \in starts : m < 1}) = 1 - 1
    BY <2>1, FS_EmptySet
  <2> QED
    BY <1>5, <2>2
<1>8. Min({n \in ends : n >= first(1)}) \in first(1)..Len(ranked)
  <2> HIDE DEF first
  <2>1. first(1) \in 1..Len(ranked)
    BY <1>5, <1>7
  <2> DEFINE E == {n \in ends : n >= first(1)}
  <2>2. Len(ranked) \in E
    BY <1>3, <1>4, <2>1
  <2>3. E \in SUBSET Nat
    <3>1. E \subseteq ends /\ 1..Len(ranked) \subseteq Nat
      BY <1>3
    <3> HIDE DEF E
    <3> QED
      BY <1>4, <3>1
  <2>4. Min(E) \in E
    BY <2>2, <2>3, MinOfNaturals
  <2>5. \A n \in E : n \in first(1)..Len(ranked)
    BY <1>3, <1>4, <2>1
  <2> QED
    BY <2>4, <2>5
<1>9. Len(tier(1)) \in Nat
  <2> HIDE DEF first
  <2> DEFINE a == first(1)
             b == Min({n \in ends : n >= first(1)})
  <2>1. a \in 1..Len(ranked) /\ b \in a..Len(ranked)
    BY <1>5, <1>7, <1>8
  <2> HIDE DEF a, b
  <2>2. Len(SubSeq(ranked, a, b)) \in Nat
    <3>1. a \in Int /\ b \in Int /\ b - a + 1 \in Nat /\ \A i \in a..b : ranked[i] \in Int
      BY <1>2, <2>1
    <3>2. Len(SubSeq(ranked, a, b)) = IF a <= b THEN b - a + 1 ELSE 0
      BY <3>1, SubSeqProperties
    <3> QED
      BY <3>1, <3>2
  <2> QED
    BY <2>2 DEF a, b
<1> HIDE DEF tier
<1>10. 1 \in 1..Cardinality(ends)
  BY <1>6
<1> QED
  BY <1>1, <1>2, <1>9, <1>10

-----------------------------------------------------------------------------
(* What a session tells the engine *)

\* How scarce a position is, is a number, for any pool and wait.
LEMMA ScarcityIsInt ==
    ASSUME NEW players, PlayersOk(players), NEW points, NEW wait \in Int, NEW q
    PROVE  ScarcityOf(players, points, wait, q).index \in Int
<1> DEFINE starters == Startable(players, points, {q})
           all      == Startable(players, points, Valued)
           tiers    == BuildTiers(players, q)
           size     == IF tiers = <<>> THEN 0 ELSE Len(tiers[1])
           gone     == IF all = 0 THEN 0 ELSE (100 * wait * starters) \div all
<1>1. \A some : Startable(players, points, some) \in Nat
  BY FS_Subset, FS_CardinalityType DEF Startable, PlayersOk
<1>2. size \in Nat
  BY TierHasASize
<1>3. starters \in Nat /\ all \in Nat
  BY <1>1
<1>4. ScarcityOf(players, points, wait, q).index =
         CASE size > 0                 -> Min({Unit, (100 * gone) \div size})
           [] size = 0 /\ starters = 0 -> Unit
           [] OTHER                    -> 0
  BY DEF ScarcityOf
<1> HIDE DEF starters, all, tiers, size
<1>5. gone \in Int
  <2>1. 100 * wait * starters \in Int
    BY <1>3
  <2> QED
    BY <1>3, <2>1
<1> HIDE DEF gone
<1>6. CASE size > 0
  <2>1. (100 * gone) \div size \in Int
    BY <1>2, <1>5, <1>6
  <2>2. Min({Unit, (100 * gone) \div size}) \in Int
    BY <2>1, OfTwo DEF Unit
  <2> QED
    BY <1>4, <1>6, <2>2
<1>7. CASE ~(size > 0)
  BY <1>4, <1>7 DEF Unit
<1> QED
  BY <1>6, <1>7

\* What is left of a player's chances is a share of what there was.
LEMMA SurvivalIsAShare ==
    ASSUME NEW some \in Pools, NEW n \in DOMAIN some, NEW now \in PickNumbers,
           NEW k \in PickNumbers \cup {Unknown}
    PROVE  SurvivalProbability(some[n], now, k) \in (0..Unit) \cup {Unknown}
<1> DEFINE p == some[n]
<1>1. CASE p.adp = Unknown \/ k = Unknown
  BY <1>1 DEF SurvivalProbability
<1>2. CASE p.adp # Unknown /\ k # Unknown /\ k <= now
  BY <1>2 DEF SurvivalProbability, Unit
<1>3. CASE p.adp # Unknown /\ k # Unknown /\ ~(k <= now)
  <2>1. k \in PickNumbers
    BY <1>3
  <2>2. Beyond(p, now, now) \in 0..Unit /\ Beyond(p, now, k) \in 0..Unit
    BY <1>3, <2>1, PoolsAssumption
  <2> DEFINE a == Beyond(p, now, now)
             b == Beyond(p, now, k)
  <2>3. SurvivalProbability(p, now, k) = IF a = 0 THEN Clamp(0, Unit, b)
                                         ELSE Clamp(0, Unit, (Unit * b) \div a)
    BY <1>3 DEF SurvivalProbability
  <2>4. a \in 0..Unit /\ b \in 0..Unit
    BY <2>2
  <2> HIDE DEF a, b
  <2>5. a \in Nat /\ b \in Nat /\ 0 \in Int /\ Unit \in Int /\ 0 <= Unit
    BY <2>4 DEF Unit
  <2>6. a # 0 => (Unit * b) \div a \in Int
    BY <2>5
  <2>7. Clamp(0, Unit, b) \in 0..Unit
    BY <2>5, ClampIsInt
  <2>8. a # 0 => Clamp(0, Unit, (Unit * b) \div a) \in 0..Unit
    BY <2>5, <2>6, ClampIsInt
  <2> QED
    BY <2>3, <2>7, <2>8
<1> QED
  BY <1>1, <1>2, <1>3

\* The clock shows a pick of the draft, and a seat's next pick is one.
LEMMA PicksAreNumbers ==
    /\ \A D : CurrentPick(D) \in PickNumbers \cup {None}
    /\ \A s \in Seats(TheLeague) : \A after :
          NextPickForSlot(TheLeague, s, after) \in PickNumbers \cup {None}
    /\ TotalPicks(TheLeague) \in PickNumbers
    /\ PickNumbers \subseteq Nat \ {0}
<1>1. /\ TotalPicks(TheLeague) \in Nat \ {0} /\ TheLeague.rounds \in Nat \ {0}
  BY LeagueAssumption, TotalPicksIsNat
<1>2. TotalPicks(TheLeague) \in PickNumbers /\ PickNumbers \subseteq Nat \ {0}
  BY <1>1 DEF PickNumbers
<1>3. ASSUME NEW D PROVE CurrentPick(D) \in PickNumbers \cup {None}
  <2> DEFINE open == PickNumbers \ DOMAIN D.picks
  <2>1. open \in SUBSET Nat
    BY <1>2
  <2>2. open # {} => Min(open) \in open
    BY <2>1, MinOfNaturals
  <2> QED
    BY <2>2 DEF CurrentPick
<1>4. ASSUME NEW s \in Seats(TheLeague), NEW after
      PROVE  NextPickForSlot(TheLeague, s, after) \in PickNumbers \cup {None}
  <2> DEFINE picks == PicksForSlot(TheLeague, s)
             later == {r \in DOMAIN picks : picks[r] > after}
  <2>1. DOMAIN picks = 1..TheLeague.rounds
    BY DEF PicksForSlot
  <2>2. \A r \in DOMAIN picks : picks[r] \in PickNumbers
    BY LeagueAssumption, PickNumberIsInRange DEF PicksForSlot, PickNumbers
  <2>3. later \in SUBSET Nat
    BY <1>1, <2>1
  <2>4. later # {} => Min(later) \in later
    BY <2>3, MinOfNaturals
  <2>5. NextPickForSlot(TheLeague, s, after)
           = IF later = {} THEN None ELSE picks[Min(later)]
    BY DEF NextPickForSlot
  <2> QED
    BY <2>2, <2>4, <2>5
<1> QED
  BY <1>2, <1>3, <1>4

\* A pool is one an engine can rank, and so is what a draft leaves of it.
LEMMA PoolsAreOk ==
    ASSUME NEW some \in Pools
    PROVE  /\ PlayersOk(some)
           /\ \A D : /\ PlayersOk(Available(D, some))
                     /\ DOMAIN Available(D, some) \subseteq DOMAIN some
                     /\ \A n \in DOMAIN Available(D, some) : Available(D, some)[n] = some[n]
<1>1. PlayersOk(some)
  <2>1. /\ DOMAIN some = 1..Len(some) /\ 1 \in Int /\ Len(some) \in Int
        /\ \A n \in DOMAIN some : IsPlayer(some[n])
    BY PoolsAssumption
  <2>2. IsFiniteSet(DOMAIN some)
    BY <2>1, FS_Interval
  <2> QED
    BY <2>1, <2>2 DEF PlayersOk
<1>2. ASSUME NEW D
      PROVE  /\ PlayersOk(Available(D, some))
             /\ DOMAIN Available(D, some) \subseteq DOMAIN some
             /\ \A n \in DOMAIN Available(D, some) : Available(D, some)[n] = some[n]
  <2>1. /\ DOMAIN Available(D, some) \subseteq DOMAIN some
        /\ \A n \in DOMAIN Available(D, some) : Available(D, some)[n] = some[n]
    BY DEF Available
  <2> QED
    BY <1>1, <2>1, FS_Subset DEF PlayersOk
<1> QED
  BY <1>1, <1>2

\* How urgent a position is, is a number.
LEMMA NeedIsInt ==
    ASSUME NEW some, NEW drafted, NEW unfilled, NEW q
    PROVE  Need(some, drafted, unfilled, q) \in Int
<1> DEFINE value == CASE \E n \in DOMAIN unfilled : Eligible(unfilled[n]) = {q} -> 10000
                      [] Opens(unfilled, q) -> 5500
                      [] OTHER              -> 1500
           stacked == Held(drafted, q) - Dedicated(some, q) >= 2
<1>1. value \in Int
  OBVIOUS
<1>2. Need(some, drafted, unfilled, q) = IF stacked THEN Min({value, 500}) ELSE value
  BY DEF Need
<1> HIDE DEF value
<1>3. Min({value, 500}) \in Int
  BY <1>1, OfTwo
<1> HIDE DEF stacked
<1> QED
  BY <1>1, <1>2, <1>3

\* The rosters of a draft are finite.
RostersOk(D) ==
    /\ DOMAIN D.rosters = Seats(TheLeague)
    /\ \A s \in Seats(TheLeague) : IsFiniteSet(DOMAIN D.rosters[s])

\* What a session tells the engine, the engine can score with.
LEMMA ContextIsOk ==
    ASSUME NEW D, RostersOk(D), NEW some \in Pools, NEW s \in UserSeats,
           NEW l \in Lineups, NEW h, NEW b,
           b = ComputeReplacementBaseline(some, TheLeague.teams, l)
    PROVE  /\ ContextOk(DraftContext(D, some, s, b, l, h))
           /\ DraftContext(D, some, s, b, l, h).available = Available(D, some)
           /\ DraftContext(D, some, s, b, l, h).baseline = b
           /\ DraftContext(D, some, s, b, l, h).most = b.most
<1> DEFINE c == DraftContext(D, some, s, b, l, h)
           available == Available(D, some)
           current == CurrentPick(D)
           roster  == Mine(D, some, s)
           need    == ComputeRosterNeed(l, Positions(roster), h)
           wait    == IF s = Unknown \/ current = None THEN None
                      ELSE PicksUntilNextTurn(TheLeague, s, current)
           next    == IF s = Unknown \/ current = None THEN None
                      ELSE NextPickForSlot(TheLeague, s, current - 1)
           now     == OrElse(current, TotalPicks(TheLeague))
           scarcity == ComputeScarcity(available, b.points, OrElse(wait, 0))
<1>1. BaselineUsed(some, available, l, b) = b
  BY DEF BaselineUsed
<1>2. /\ DOMAIN c = {"available", "baseline", "most", "scarcity", "need", "unfilled", "now",
                     "wait", "next", "byes", "left"}
      /\ c.available = available /\ c.baseline = b /\ c.most = b.most
      /\ c.scarcity = scarcity /\ c.need = need.need /\ c.now = now
      /\ c.next = (IF next = None THEN Unknown ELSE next)
      /\ c.byes = Byes(roster)
  BY <1>1 DEF DraftContext
<1> HIDE DEF c
<1>3. PlayersOk(some) /\ PlayersOk(available)
  BY PoolsAreOk
<1>4. b.most \in Int /\ \A q \in Rosterable : b.points[q] \in Int
  BY <1>3, BaselineIsInt
<1>5. /\ s # Unknown => s \in Seats(TheLeague)
      /\ current \in PickNumbers \cup {None} /\ now \in PickNumbers
      /\ next \in PickNumbers \cup {None}
  BY PicksAreNumbers, SessionAssumption DEF OrElse
<1>6. wait \in Int
  <2>1. PickNumbers \cup {None} \subseteq Int
    BY PicksAreNumbers DEF None
  <2>2. s # Unknown /\ current # None =>
           wait = IF next = None THEN None ELSE next - current
    BY DEF PicksUntilNextTurn
  <2> HIDE DEF next, current
  <2> QED
    BY <1>5, <2>1, <2>2 DEF None
<1>7. OrElse(wait, 0) \in Int
  BY <1>6 DEF OrElse
<1> HIDE DEF wait
<1>8. \A q \in DOMAIN scarcity : scarcity[q].index \in Int
  <2>1. DOMAIN scarcity = Valued
    BY DEF ComputeScarcity
  <2>2. \A q \in Valued : scarcity[q] = ScarcityOf(available, b.points, OrElse(wait, 0), q)
    BY DEF ComputeScarcity
  <2> QED
    BY <1>3, <1>7, <2>1, <2>2, ScarcityIsInt
<1>9. \A q \in Rosterable : need.need[q] \in Int
  BY NeedIsInt DEF ComputeRosterNeed
<1>10. \A n \in DOMAIN available :
          SurvivalProbability(available[n], c.now, c.next) \in (0..Unit) \cup {Unknown}
  <2> TAKE n \in DOMAIN available
  <2>1. n \in DOMAIN some /\ available[n] = some[n]
    BY PoolsAreOk
  <2>2. c.now \in PickNumbers /\ c.next \in PickNumbers \cup {Unknown}
    BY <1>2, <1>5
  <2> QED
    BY <2>1, <2>2, SurvivalIsAShare
<1>11. \A m, n \in DOMAIN available : available[m].uuid = available[n].uuid => m = n
  BY PoolsAreOk, PoolsAssumption
<1>12. IsFiniteSet(DOMAIN Byes(roster))
  <2> DEFINE uuids == IF s = Unknown THEN <<>> ELSE D.rosters[s]
  <2>1. IsFiniteSet(DOMAIN uuids)
    <3>1. DOMAIN <<>> = {}
      OBVIOUS
    <3> QED
      BY <1>5, <3>1, FS_EmptySet DEF RostersOk
  <2>2. DOMAIN roster \subseteq DOMAIN uuids
    BY DEF Mine
  <2>3. DOMAIN Byes(roster) \subseteq DOMAIN roster
    BY DEF Byes
  <2> HIDE DEF uuids, roster
  <2>4. DOMAIN Byes(roster) \subseteq DOMAIN uuids
    BY <2>2, <2>3
  <2> QED
    BY <2>1, <2>4, FS_Subset
<1> HIDE DEF available, roster, need, next, now, scarcity
<1>13. ContextOk(c)
  <2>1. /\ IsFiniteSet(DOMAIN available) /\ DOMAIN available \subseteq Int
        /\ \A n \in DOMAIN available : IsPlayer(available[n])
    BY <1>3 DEF PlayersOk
  <2> QED
    BY <1>2, <1>4, <1>8, <1>9, <1>10, <1>11, <1>12, <2>1 DEF ContextOk
<1> QED
  BY <1>2, <1>13 DEF c, available

-----------------------------------------------------------------------------
(* The board of a session *)

\* The players a pick can name.
Named == {ToDomainPlayer(x) : x \in Players}

\* A session keeps the baseline of its pool, and the board is the one the draft and
\* the pool evaluate to.
BoardInv ==
    /\ lineup \in Lineups /\ seat \in UserSeats /\ pool \in Pools /\ hash \in Hashes
    /\ baseline = BaselineOf(pool)
    /\ draft.rosters \in [Seats(TheLeague) -> Seq(Named)]
    /\ board \in Evaluated(draft, pool, baseline, hash)

\* The next pick, whoever makes it, keeps the rosters what they are.
LEMMA PicksKeepRosters ==
    ASSUME NEW D, D.rosters \in [Seats(TheLeague) -> Seq(Named)],
           NEW p, p.player \in Named
    PROVE  ApplyPick(D, p).rosters \in [Seats(TheLeague) -> Seq(Named)]
<1>1. CASE Outcome(D, p) = "APPLIED"
  <2>1. p.slot \in Seats(TheLeague)
    BY <1>1 DEF Outcome, Legal
  <2>2. WithPick(D, p).rosters = [D.rosters EXCEPT ![p.slot] = Append(@, p.player)]
    BY DEF WithPick
  <2>3. Append(D.rosters[p.slot], p.player) \in Seq(Named)
    BY <2>1
  <2> QED
    BY <1>1, <2>1, <2>2, <2>3 DEF ApplyPick
<1>2. CASE Outcome(D, p) # "APPLIED"
  BY <1>2 DEF ApplyPick
<1> QED
  BY <1>1, <1>2

\* A session keeps the baseline of its pool from the start, through every pick,
\* reconnect and restart.
THEOREM BoardIsOfThePool == BoardSpec => []BoardInv
<1>1. BoardInit => BoardInv
  <2> SUFFICES ASSUME BoardInit PROVE BoardInv
    OBVIOUS
  <2>1. draft.rosters \in [Seats(TheLeague) -> Seq(Named)]
    <3>1. draft.rosters = [s \in Seats(TheLeague) |-> <<>>]
      BY DEF BoardInit, EmptyDraft
    <3>2. <<>> \in Seq(Named)
      OBVIOUS
    <3> QED
      BY <3>1, <3>2
  <2> QED
    BY <2>1 DEF BoardInit, BoardInv, Evaluated
<1>2. BoardInv /\ [BoardNext]_boardVars => BoardInv'
  <2> SUFFICES ASSUME BoardInv, [BoardNext]_boardVars PROVE BoardInv'
    OBVIOUS
  <2>1. ASSUME NEW x \in Players, PickMade(x) PROVE BoardInv'
    <3> DEFINE p == [no |-> CurrentPick(draft),
                     slot |-> SlotOnTheClock(TheLeague, CurrentPick(draft)),
                     player |-> ToDomainPlayer(x)]
    <3>1. /\ draft' = ApplyPick(draft, p)
          /\ UNCHANGED <<lineup, seat, pool, baseline, hash>>
          /\ board' \in Evaluated(draft', pool, baseline, hash)
      BY <2>1 DEF PickMade
    <3>2. p.player \in Named
      BY DEF Named
    <3>3. draft'.rosters \in [Seats(TheLeague) -> Seq(Named)]
      <4> HIDE DEF p
      <4> QED
        BY <3>1, <3>2, PicksKeepRosters DEF BoardInv
    <3> QED
      BY <3>1, <3>3 DEF BoardInv, BaselineOf, Evaluated
  <2>2. CASE Reconnect
    BY <2>2 DEF Reconnect, Registered, BoardInv, BaselineOf, Evaluated
  <2>3. CASE RestartSession
    BY <2>3 DEF RestartSession, Registered, BoardInv, BaselineOf, Evaluated
  <2>4. CASE UNCHANGED boardVars
    BY <2>4 DEF boardVars, BoardInv, BaselineOf, Evaluated
  <2> QED
    BY <2>1, <2>2, <2>3, <2>4 DEF BoardNext
<1> QED
  BY <1>1, <1>2, PTL DEF BoardSpec

\* What a board lists: each rank once, and under it what is recommended of a player
\* of the pool.
LEMMA RankedFromThePool ==
    ASSUME BoardInv
    PROVE  /\ ContextOk(board.context)
           /\ baseline = board.context.baseline /\ baseline.most = board.context.most
           /\ \E N \in Nat :
                 /\ DOMAIN board.ranked = 1..N
                 /\ \A r \in 1..N :
                       \E n \in DOMAIN pool, prior \in Int :
                          board.ranked[r]
                             = Recommendation(pool[n], OnScale(board.context), r, prior)
           /\ \A n \in DOMAIN board.context.available :
                 n \in DOMAIN pool /\ board.context.available[n] = pool[n]
           /\ \A r \in DOMAIN board.ranked :
                 \E x \in Provisional(OnScale(board.context)) :
                    board.ranked[r]
                       = Recommendation(x.player, OnScale(board.context), r, x.rank)
           /\ \A r, s \in DOMAIN board.ranked :
                 board.ranked[r].score > board.ranked[s].score => r < s
<1> DEFINE c == DraftContext(draft, pool, seat, baseline, lineup, hash)
<1>1. RostersOk(draft)
  <2>1. draft.rosters \in [Seats(TheLeague) -> Seq(Named)]
    BY DEF BoardInv
  <2>2. ASSUME NEW s \in Seats(TheLeague) PROVE IsFiniteSet(DOMAIN draft.rosters[s])
    <3>1. draft.rosters[s] \in Seq(Named)
      BY <2>1
    <3>2. /\ DOMAIN draft.rosters[s] = 1..Len(draft.rosters[s])
          /\ 1 \in Int /\ Len(draft.rosters[s]) \in Int
      BY <3>1
    <3> QED
      BY <3>2, FS_Interval
  <2> QED
    BY <2>1, <2>2 DEF RostersOk
<1>2. /\ ContextOk(c) /\ c.available = Available(draft, pool) /\ c.baseline = baseline
      /\ c.most = baseline.most
  BY <1>1, ContextIsOk DEF BoardInv, BaselineOf
<1>3. board.ranked = RankBoard(c) /\ board.context = c
  <2>1. board \in {BuildBoard(ranked, c) : ranked \in {RankBoard(c)}}
    BY DEF BoardInv, Evaluated, EvaluateDraft
  <2>2. board = BuildBoard(RankBoard(c), c)
    BY <2>1
  <2> QED
    BY <2>2 DEF BuildBoard
<1> HIDE DEF c
<1>4. PICK N \in Nat :
         /\ DOMAIN RankBoard(c) = 1..N
         /\ \A r \in 1..N :
               \E n \in DOMAIN c.available, prior \in Int :
                  RankBoard(c)[r] = Recommendation(c.available[n], OnScale(c), r, prior)
         /\ \A r \in 1..N :
               \E x \in Provisional(OnScale(c)) :
                  RankBoard(c)[r] = Recommendation(x.player, OnScale(c), r, x.rank)
         /\ \A r, s \in 1..N : RankBoard(c)[r].score > RankBoard(c)[s].score => r < s
  BY <1>2, BoardIsRanked
<1>5. \A n \in DOMAIN c.available : n \in DOMAIN pool /\ c.available[n] = pool[n]
  BY <1>2, PoolsAreOk DEF BoardInv
<1>6. ASSUME NEW r \in 1..N
      PROVE  \E n \in DOMAIN pool, prior \in Int :
                board.ranked[r] = Recommendation(pool[n], OnScale(board.context), r, prior)
  <2>1. PICK n \in DOMAIN c.available, prior \in Int :
           RankBoard(c)[r] = Recommendation(c.available[n], OnScale(c), r, prior)
    BY <1>4
  <2>2. n \in DOMAIN pool /\ c.available[n] = pool[n]
    BY <1>5
  <2> QED
    BY <1>3, <2>1, <2>2
<1> QED
  BY <1>2, <1>3, <1>4, <1>5, <1>6

\* What the board lists for a rank is a player of the pool, and known as him.
LEMMA ListedIsKnown ==
    ASSUME BoardInv, NEW n \in DOMAIN pool
    PROVE  Known(pool[n].uuid) = pool[n]
<1>1. \A m \in DOMAIN pool : pool[m].uuid = pool[n].uuid => m = n
  BY PoolsAssumption DEF BoardInv
<1>2. \A p \in {pool[m] : m \in DOMAIN pool} : p.uuid = pool[n].uuid => p = pool[n]
  BY <1>1
<1> QED
  BY <1>2 DEF Known

\* A value is the projection over the session's baseline.
LEMMA ValueIsOverTheBaseline ==
    ASSUME BoardInv, NEW r \in DOMAIN board.ranked
    PROVE  \E n \in DOMAIN pool :
              /\ board.ranked[r].uuid = pool[n].uuid
              /\ board.ranked[r].vorp = ValueOver(baseline.points, pool[n])
<1>1. PICK n \in DOMAIN pool, prior \in Int :
         board.ranked[r] = Recommendation(pool[n], OnScale(board.context), r, prior)
  BY RankedFromThePool
<1>2. OnScale(board.context).baseline = baseline
  BY RankedFromThePool, ScaleIsOk
<1> QED
  BY <1>1, <1>2 DEF Recommendation

\* A pick changes nobody's value: as long as the pool is the same, so is the
\* baseline, and the value over it of whoever is listed.
THEOREM ValuesHold == BoardSpec => ValueIsSteady
<1> DEFINE Steady == \A r \in DOMAIN board.ranked, s \in DOMAIN board'.ranked :
                        board.ranked[r].uuid = board'.ranked[s].uuid =>
                            board.ranked[r].vorp = board'.ranked[s].vorp
           Listed == \A r \in DOMAIN board.ranked : \E n \in DOMAIN pool :
                        /\ board.ranked[r].uuid = pool[n].uuid
                        /\ board.ranked[r].vorp = ValueOver(baseline.points, pool[n])
<1>1. BoardInv => Listed
  BY ValueIsOverTheBaseline
<1>2. BoardInv' => Listed'
  BY <1>1, PTL
<1>3. BoardInv /\ BoardInv' /\ [BoardNext]_boardVars => (pool' = pool => Steady)
  <2> SUFFICES ASSUME BoardInv, BoardInv', [BoardNext]_boardVars, pool' = pool,
                      NEW r \in DOMAIN board.ranked, NEW s \in DOMAIN board'.ranked,
                      board.ranked[r].uuid = board'.ranked[s].uuid
               PROVE  board.ranked[r].vorp = board'.ranked[s].vorp
    OBVIOUS
  <2>1. lineup' = lineup
    BY DEF BoardNext, PickMade, Reconnect, RestartSession, boardVars
  <2>2. baseline' = baseline
    BY <2>1 DEF BoardInv, BaselineOf
  <2>3. PICK n \in DOMAIN pool :
           /\ board.ranked[r].uuid = pool[n].uuid
           /\ board.ranked[r].vorp = ValueOver(baseline.points, pool[n])
    BY <1>1
  <2>4. PICK m \in DOMAIN pool :
           /\ board'.ranked[s].uuid = pool[m].uuid
           /\ board'.ranked[s].vorp = ValueOver(baseline.points, pool[m])
    BY <1>2, <2>2
  <2>5. n = m
    BY <2>3, <2>4, PoolsAssumption DEF BoardInv
  <2> QED
    BY <2>3, <2>4, <2>5
<1> QED
  BY <1>3, BoardIsOfThePool, PTL DEF BoardSpec, ValueIsSteady

\* Missing data invents no value: the score of a player nobody projects is the one
\* he has without his market price, on every board.
THEOREM NothingIsInvented == BoardSpec => []MissingDataInventsNothing
<1>1. BoardInv => MissingDataInventsNothing
  <2> SUFFICES ASSUME BoardInv, NEW r \in DOMAIN board.ranked,
                      ~HasProjection(Known(board.ranked[r].uuid)), NEW k
               PROVE  board.ranked[r].score
                         = ScorePlayer([Known(board.ranked[r].uuid) EXCEPT !.adp = Unknown],
                                       board.context, k)
    BY DEF MissingDataInventsNothing
  <2> DEFINE c == board.context
  <2>1. ContextOk(c)
    BY RankedFromThePool
  <2>2. PICK n \in DOMAIN pool, prior \in Int :
           board.ranked[r] = Recommendation(pool[n], OnScale(c), r, prior)
    BY RankedFromThePool
  <2>3. board.ranked[r].uuid = pool[n].uuid
    BY <2>2 DEF Recommendation
  <2> DEFINE p == pool[n]
             q == [p EXCEPT !.adp = Unknown]
             s == OnScale(c)
  <2>4. Known(board.ranked[r].uuid) = p /\ ~HasProjection(p) /\ IsPlayer(p)
    BY <2>3, ListedIsKnown, PoolsAssumption DEF BoardInv
  <2>5. board.ranked[r].score = ScorePlayer(p, s, prior)
    BY <2>2 DEF Recommendation
  <2> HIDE DEF p, c
  <2>6. /\ q.position = p.position /\ q.projected = p.projected /\ q.usage = p.usage
        /\ q.chart = p.chart /\ q.rookie = p.rookie /\ q.landing = p.landing
        /\ q.playoffs = p.playoffs /\ q.health = p.health /\ q.bye = p.bye
    BY <2>4 DEF IsPlayer
  <2>7. /\ s.scarcity = c.scarcity /\ s.need = c.need /\ s.unfilled = c.unfilled
        /\ s.left = c.left /\ s.byes = c.byes
    BY <2>1 DEF ContextOk, OnScale
  <2>8. ~HasProjection(q)
    BY <2>4, <2>6 DEF HasProjection
  <2> HIDE DEF q, s
  <2>9. Norm(p, s) = 0 /\ Norm(q, c) = 0
    BY <2>4, <2>8 DEF Norm, ValueOver, NormaliseVorp
  <2>10. VorpPoints(p, s) = VorpPoints(q, c)
    BY <2>9 DEF VorpPoints
  <2>11. ScarcityPoints(p, s) = ScarcityPoints(q, c) /\ NeedPoints(p, s) = NeedPoints(q, c)
    BY <2>6, <2>7 DEF ScarcityPoints, NeedPoints
  <2>12. AdpPoints(p, prior) = AdpPoints(q, k)
    BY <2>4, <2>8 DEF AdpPoints, AdpValue
  <2>13. UnsupportedPoints(p, s) = UnsupportedPoints(q, c)
    BY <2>9 DEF UnsupportedPoints
  <2>14. UrgencyPoints(p, s) = UrgencyPoints(q, c)
    BY <2>9 DEF UrgencyPoints
  <2>15. /\ LandingPoints(p) = LandingPoints(q) /\ PlayoffPoints(p) = PlayoffPoints(q)
         /\ HealthPoints(p) = HealthPoints(q)
    BY <2>6 DEF LandingPoints, PlayoffPoints, HealthPoints
  <2>16. LateRoundPoints(p, s) = LateRoundPoints(q, c) /\ ByePoints(p, s) = ByePoints(q, c)
    BY <2>6, <2>7 DEF LateRoundPoints, ByePoints
  <2>17. ScorePlayer(p, s, prior) = ScorePlayer(q, c, k)
    BY <2>4, <2>8, <2>10, <2>11, <2>12, <2>13, <2>14, <2>15, <2>16 DEF ScorePlayer
  <2> QED
    BY <2>4, <2>5, <2>17 DEF q, c
<1> QED
  BY <1>1, BoardIsOfThePool, PTL DEF BoardSpec

-----------------------------------------------------------------------------
(* Who is better stands higher *)

\* What a quotient rounded down is.
LEMMA Quotient ==
    ASSUME NEW x \in Int, NEW m \in Int, m > 0
    PROVE  /\ x \div m \in Int
           /\ m * (x \div m) <= x
           /\ x < m * (x \div m) + m
OBVIOUS

\* A number between the limits is left alone, and one beyond them is the limit.
LEMMA Clamped ==
    ASSUME NEW low \in Int, NEW high \in Int, low <= high, NEW x \in Int
    PROVE  /\ low <= x /\ x <= high => Clamp(low, high, x) = x
           /\ x <= low => Clamp(low, high, x) = low
<1>1. Min({high, x}) = IF high <= x THEN high ELSE x
  BY OfTwo
<1>2. Min({high, x}) \in Int
  BY <1>1
<1>3. Max({low, Min({high, x})}) = IF low <= Min({high, x}) THEN Min({high, x}) ELSE low
  BY <1>2, OfTwo
<1> QED
  BY <1>1, <1>3 DEF Clamp

\* An advantage over the grain shows in the normalised value, whatever the scale.
LEMMA AdvantageShows ==
    ASSUME NEW v \in Int, NEW w \in Int, NEW m \in Int, m > 0, v <= m,
           Unit * (v - Max({w, -m})) > Grain * m
    PROVE  NormaliseVorp(v, m) >= NormaliseVorp(w, m) + Grain
<1> DEFINE z == Max({w, -m})
           a == (Unit * v) \div m
           b == (Unit * z) \div m
           d == (Unit * w) \div m
<1>1. z = IF w <= -m THEN -m ELSE w
  <2>1. -m \in Int
    OBVIOUS
  <2> QED
    BY <2>1, OfTwo
<1>2. Unit = 10000 /\ Grain = 3 /\ v # Unknown /\ w # Unknown
  BY PoolsAssumption DEF Unit, Grain
<1>3. z \in Int /\ 10000 * v \in Int /\ 10000 * z \in Int /\ 10000 * w \in Int
  BY <1>1
<1>4. 10000 * v - 10000 * z > 3 * m
  BY <1>1, <1>2
<1>5. /\ a \in Int /\ m * a <= 10000 * v /\ 10000 * v < m * a + m
      /\ b \in Int /\ m * b <= 10000 * z /\ 10000 * z < m * b + m
      /\ d \in Int /\ m * d <= 10000 * w /\ 10000 * w < m * d + m
  BY <1>2, <1>3, Quotient
<1> HIDE DEF a, b, d, z
<1>6. \A x, y \in Int : x <= y => m * x <= m * y
  OBVIOUS
<1>7. a <= 10000
  <2>1. ASSUME a >= 10001 PROVE FALSE
    <3>1. m * 10001 <= m * a
      BY <1>5, <1>6, <2>1
    <3> QED
      BY <1>5, <3>1
  <2> QED
    BY <1>5, <2>1
<1>8. b >= -10000
  <2>1. ASSUME b <= -10001 PROVE FALSE
    <3>1. m * b <= m * (-10001)
      BY <1>5, <1>6, <2>1
    <3> QED
      BY <1>1, <1>5, <3>1
  <2> QED
    BY <1>5, <2>1
<1>9. a >= b + 3
  <2>1. ASSUME a - b <= 2 PROVE FALSE
    <3>1. m * (a - b) <= m * 2
      BY <1>5, <1>6, <2>1
    <3>2. m * (a - b) = m * a - m * b
      BY <1>5
    <3>3. m * a \in Int /\ m * b \in Int
      BY <1>5
    <3> QED
      BY <1>3, <1>4, <1>5, <3>1, <3>2, <3>3
  <2> QED
    BY <1>5, <2>1
<1>10. NormaliseVorp(v, m) = a
  <2>1. NormaliseVorp(v, m) = Clamp(-Unit, Unit, a)
    BY <1>2 DEF NormaliseVorp, a
  <2>2. -10000 <= 10000 /\ -10000 \in Int /\ 10000 \in Int /\ -10000 <= a
    BY <1>5, <1>8, <1>9
  <2>3. Clamp(-10000, 10000, a) = a
    BY <1>5, <1>7, <2>2, Clamped
  <2> QED
    BY <1>2, <2>1, <2>3
<1>11. NormaliseVorp(w, m) <= b
  <2>1. NormaliseVorp(w, m) = Clamp(-Unit, Unit, d)
    BY <1>2 DEF NormaliseVorp, d
  <2>2. CASE w <= -m
    <3>1. ASSUME d >= -9999 PROVE FALSE
      <4>1. m * (-9999) <= m * d
        BY <1>5, <1>6, <3>1
      <4> QED
        BY <1>5, <2>2, <4>1
    <3>2. d <= -10000
      BY <1>5, <3>1
    <3>3. -10000 <= 10000 /\ -10000 \in Int /\ 10000 \in Int
      OBVIOUS
    <3>4. Clamp(-10000, 10000, d) = -10000
      BY <1>5, <3>2, <3>3, Clamped
    <3> QED
      BY <1>2, <1>8, <2>1, <3>4
  <2>3. CASE ~(w <= -m)
    <3>1. d = b
      BY <1>1, <2>3 DEF d, b, z
    <3>2. -10000 <= 10000 /\ -10000 \in Int /\ 10000 \in Int /\ b <= 10000
      BY <1>5, <1>7, <1>9
    <3>3. Clamp(-10000, 10000, b) = b
      BY <1>5, <1>8, <3>2, Clamped
    <3> QED
      BY <1>2, <1>5, <2>1, <3>1, <3>3
  <2> QED
    BY <2>2, <2>3
<1>12. NormaliseVorp(w, m) \in Int
  BY NormIsInt
<1> QED
  BY <1>2, <1>5, <1>9, <1>10, <1>11, <1>12

\* The market's part of a score.
Share(v) == Points(Weight.adp, Min({Unit, (Unit * v) \div AdpValueScale}))

\* A later market price is worth more, whichever side of the rank it is on.
LEMMA ShareGrows ==
    ASSUME NEW x \in Int, NEW y \in Int, x <= y
    PROVE  /\ Share(x) \in Int /\ Share(y) \in Int /\ Share(x) <= Share(y)
           /\ x >= 0 => Share(x) >= 0
<1> DEFINE a == (10000 * x) \div 2400
           b == (10000 * y) \div 2400
<1>1. a \in Int /\ b \in Int /\ a <= b /\ (x >= 0 => a >= 0)
  OBVIOUS
<1> HIDE DEF a, b
<1>2. /\ Min({10000, a}) = IF 10000 <= a THEN 10000 ELSE a
      /\ Min({10000, b}) = IF 10000 <= b THEN 10000 ELSE b
  BY <1>1, OfTwo
<1> DEFINE e == Min({10000, a})
           f == Min({10000, b})
<1>3. e \in Int /\ f \in Int /\ e <= f /\ (x >= 0 => e >= 0)
  BY <1>1, <1>2
<1>4. Share(x) = (6 * e) \div 100 /\ Share(y) = (6 * f) \div 100
  BY DEF Share, Points, Weight, Unit, AdpValueScale, a, b
<1> HIDE DEF e, f
<1> QED
  BY <1>3, <1>4

\* The earlier of two ranks never makes the market worth less.
LEMMA EarlierRankPays ==
    ASSUME NEW p, IsPlayer(p), NEW q, IsPlayer(q), HasProjection(p), HasProjection(q),
           p.adp = q.adp, NEW i, NEW j,
           (i = Unknown /\ j = Unknown) \/ (i \in Int /\ j \in Int /\ i <= j)
    PROVE  AdpPoints(p, i) >= AdpPoints(q, j)
<1> DEFINE v == AdpValue(p, i)
           w == AdpValue(q, j)
<1>1. \A x \in Int : x # Unknown
  BY PoolsAssumption
<1>2. CASE i = Unknown \/ p.adp = Unknown
  <2>1. j = Unknown \/ q.adp = Unknown
    BY <1>1, <1>2
  <2>2. AdpValue(p, i) = Unknown /\ AdpValue(q, j) = Unknown
    BY <1>2, <2>1 DEF AdpValue
  <2> QED
    BY <2>2 DEF AdpPoints
<1>3. CASE i # Unknown /\ p.adp # Unknown
  <2>1. i \in Int /\ j \in Int /\ i <= j /\ p.adp \in Int /\ q.adp \in Int /\ j # Unknown
    BY <1>1, <1>3 DEF IsPlayer
  <2>2. v \in Int /\ w \in Int /\ w <= v
    BY <1>3, <2>1 DEF AdpValue
  <2>3. /\ AdpPoints(p, i) = IF v >= 100 THEN Share(v) ELSE IF v <= -100 THEN -Share(-v) ELSE 0
        /\ AdpPoints(q, j) = IF w >= 100 THEN Share(w) ELSE IF w <= -100 THEN -Share(-w) ELSE 0
    <3> HIDE DEF v, w
    <3>1. v # Unknown /\ w # Unknown
      BY <1>1, <2>2
    <3>2. (v >= 100 => ~(v <= -100)) /\ (w >= 100 => ~(w <= -100))
      BY <2>2
    <3>3. AdpPoints(p, i) = IF v >= 100 THEN Share(v) ELSE IF v <= -100 THEN -Share(-v) ELSE 0
      BY <3>1, <3>2 DEF AdpPoints, Share, v
    <3>4. AdpPoints(q, j) = IF w >= 100 THEN Share(w) ELSE IF w <= -100 THEN -Share(-w) ELSE 0
      BY <3>1, <3>2 DEF AdpPoints, Share, w
    <3> QED
      BY <3>3, <3>4
  <2> HIDE DEF v, w
  <2>4. -v \in Int /\ -w \in Int /\ -v <= -w
    BY <2>2
  <2>5. /\ Share(w) \in Int /\ Share(v) \in Int /\ Share(w) <= Share(v)
        /\ w >= 0 => Share(w) >= 0
    BY <2>2, ShareGrows
  <2>6. v >= 0 => Share(v) >= 0
    BY <2>2, ShareGrows
  <2>7. /\ Share(-v) \in Int /\ Share(-w) \in Int /\ Share(-v) <= Share(-w)
        /\ -v >= 0 => Share(-v) >= 0
    BY <2>4, ShareGrows
  <2>8. -w >= 0 => Share(-w) >= 0
    BY <2>4, ShareGrows
  <2> QED
    BY <2>2, <2>3, <2>5, <2>6, <2>7, <2>8
<1> QED
  BY <1>2, <1>3

\* Urgency grows with the value it is a share of.
LEMMA UrgencyGrows ==
    ASSUME NEW p, NEW q, NEW c, TakeNow(p, c) = TakeNow(q, c),
           TakeNow(p, c) = Unknown \/ TakeNow(p, c) \in 0..Unit,
           Norm(p, c) \in Int, Norm(q, c) \in Int, Norm(p, c) >= Norm(q, c)
    PROVE  UrgencyPoints(p, c) >= UrgencyPoints(q, c)
<1> DEFINE t == TakeNow(p, c)
           a == Norm(p, c)
           b == Norm(q, c)
           Urgent(x) == (10 * ((t * x) \div 10000)) \div 100
<1>1. CASE t = Unknown
  BY <1>1 DEF UrgencyPoints
<1>2. CASE t # Unknown
  <2>1. t \in Int /\ t >= 0
    <3>1. t \in 0..Unit
      BY <1>2
    <3> HIDE DEF t
    <3> QED
      BY <3>1 DEF Unit
  <2>2. a \in Int /\ b \in Int /\ a >= b
    OBVIOUS
  <2>3. /\ UrgencyPoints(p, c) = IF a <= 0 THEN 0 ELSE Urgent(a)
        /\ UrgencyPoints(q, c) = IF b <= 0 THEN 0 ELSE Urgent(b)
    BY <1>2 DEF UrgencyPoints, Points, Weight, Unit
  <2> HIDE DEF t, a, b
  <2>4. ASSUME NEW x \in Int, NEW y \in Int, 0 <= x, x <= y
        PROVE  Urgent(x) \in Int /\ Urgent(y) \in Int /\ 0 <= Urgent(x) /\ Urgent(x) <= Urgent(y)
    <3> DEFINE u == t * x
               z == t * y
    <3>1. u \in Int /\ z \in Int /\ 0 <= u /\ u <= z
      BY <2>1, <2>4
    <3>2. Urgent(x) = (10 * (u \div 10000)) \div 100 /\ Urgent(y) = (10 * (z \div 10000)) \div 100
      OBVIOUS
    <3> HIDE DEF u, z
    <3> QED
      BY <3>1, <3>2
  <2> HIDE DEF Urgent
  <2>5. CASE a <= 0
    BY <2>2, <2>3, <2>5
  <2>6. CASE ~(a <= 0) /\ b <= 0
    <3>1. Urgent(a) >= 0
      BY <2>2, <2>4, <2>6
    <3> QED
      BY <2>3, <2>6, <3>1
  <2>7. CASE ~(b <= 0)
    <3>1. 0 <= b /\ ~(a <= 0)
      BY <2>2, <2>7
    <3>2. Urgent(b) <= Urgent(a) /\ Urgent(a) \in Int /\ Urgent(b) \in Int
      BY <2>2, <2>4, <3>1
    <3> QED
      BY <2>3, <2>7, <3>1, <3>2
  <2> QED
    BY <2>5, <2>6, <2>7
<1> QED
  BY <1>1, <1>2

\* What is known of two players alike but for their projections is the same.
LEMMA TwinsAreAlike ==
    ASSUME NEW p, IsPlayer(p), NEW q, IsPlayer(q), Twins(p, q)
    PROVE  /\ HasProjection(p) /\ HasProjection(q)
           /\ p.position = q.position /\ p.adp = q.adp /\ p.stdev = q.stdev
           /\ p.health = q.health /\ p.rookie = q.rookie /\ p.landing = q.landing
           /\ p.playoffs = q.playoffs /\ p.bye = q.bye
           /\ Support(p) = Unknown /\ Support(q) = Unknown
<1> DEFINE a == [p EXCEPT !.uuid = 0, !.sleeper = 0, !.projected = 0]
           b == [q EXCEPT !.uuid = 0, !.sleeper = 0, !.projected = 0]
           same == {"position", "adp", "stdev", "health", "usage", "chart", "rookie",
                    "landing", "playoffs", "bye"}
<1>1. a = b
  BY DEF Twins
<1>2. \A f \in same : a[f] = p[f] /\ b[f] = q[f]
  BY DEF IsPlayer
<1> HIDE DEF a, b
<1>3. \A f \in same : p[f] = q[f]
  BY <1>1, <1>2
<1>4. p.usage = Unknown /\ p.chart = Unknown /\ q.usage = Unknown /\ q.chart = Unknown
  BY <1>3 DEF Twins
<1>5. Support(p) = Unknown /\ Support(q) = Unknown
  BY <1>4 DEF Support
<1> QED
  BY <1>3, <1>5 DEF Twins

\* So many ten-thousandths of the scale are worth points.
LEMMA GrainPays ==
    ASSUME NEW p, NEW q, NEW c, Norm(p, c) \in Int, Norm(q, c) \in Int,
           Norm(p, c) >= Norm(q, c) + Grain
    PROVE  VorpPoints(p, c) > VorpPoints(q, c)
<1> DEFINE a == Norm(p, c)
           b == Norm(q, c)
<1>1. a \in Int /\ b \in Int /\ a >= b + 3
  BY DEF Grain
<1>2. VorpPoints(p, c) = (40 * a) \div 100 /\ VorpPoints(q, c) = (40 * b) \div 100
  BY DEF VorpPoints, Points, Weight
<1> HIDE DEF a, b
<1>3. (40 * a) \div 100 > (40 * b) \div 100
  BY <1>1
<1> QED
  BY <1>2, <1>3

\* Of two players alike but for their projections, the one whose value is larger by the
\* grain scores more, if the market is not compared with a later rank.
LEMMA BetterScoresMore ==
    ASSUME NEW c, ContextOk(c), NEW m \in DOMAIN c.available, NEW n \in DOMAIN c.available,
           Twins(c.available[m], c.available[n]),
           Norm(c.available[m], c) >= Norm(c.available[n], c) + Grain,
           NEW i, NEW j,
           (i = Unknown /\ j = Unknown) \/ (i \in Int /\ j \in Int /\ i <= j)
    PROVE  ScorePlayer(c.available[m], c, i) > ScorePlayer(c.available[n], c, j)
<1> DEFINE p == c.available[m]
           q == c.available[n]
<1>1. /\ IsPlayer(p) /\ IsPlayer(q) /\ c.most \in Int
      /\ c.baseline.points[p.position] \in Int /\ c.baseline.points[q.position] \in Int
      /\ SurvivalProbability(p, c.now, c.next) \in (0..Unit) \cup {Unknown}
  BY DEF ContextOk, IsPlayer
<1>2. PartsOk(p, c, i) /\ PartsOk(q, c, j)
  BY PartsAreInt
<1>3. Twins(p, q) /\ Norm(p, c) >= Norm(q, c) + Grain
  OBVIOUS
<1> HIDE DEF p, q
<1>4. /\ HasProjection(p) /\ HasProjection(q)
      /\ p.position = q.position /\ p.adp = q.adp /\ p.stdev = q.stdev
      /\ p.health = q.health /\ p.rookie = q.rookie /\ p.landing = q.landing
      /\ p.playoffs = q.playoffs /\ p.bye = q.bye
      /\ Support(p) = Unknown /\ Support(q) = Unknown
  BY <1>1, <1>3, TwinsAreAlike
<1>5. Norm(p, c) \in Int /\ Norm(q, c) \in Int
  BY <1>1, ValueIsInt, NormIsInt DEF Norm
<1>6. VorpPoints(p, c) > VorpPoints(q, c)
  BY <1>3, <1>5, GrainPays
<1>7. AdpPoints(p, i) >= AdpPoints(q, j)
  BY <1>1, <1>4, EarlierRankPays
<1>8. UnsupportedPoints(p, c) = 0 /\ UnsupportedPoints(q, c) = 0
  BY <1>4 DEF UnsupportedPoints
<1>9. UrgencyPoints(p, c) >= UrgencyPoints(q, c)
  <2>1. SurvivalProbability(p, c.now, c.next) = SurvivalProbability(q, c.now, c.next)
    BY <1>4 DEF SurvivalProbability, Beyond, Sigma
  <2>2. TakeNow(p, c) = TakeNow(q, c)
    BY <2>1 DEF TakeNow, Survival
  <2>3. TakeNow(p, c) = Unknown \/ TakeNow(p, c) \in 0..Unit
    <3> DEFINE u == SurvivalProbability(p, c.now, c.next)
    <3>1. TakeNow(p, c) = IF u = Unknown THEN Unknown ELSE Unit - u
      BY DEF TakeNow, TakeNowProbability, Survival
    <3>2. u \in (0..Unit) \cup {Unknown}
      BY <1>1
    <3> HIDE DEF u
    <3>3. u # Unknown => Unit - u \in 0..Unit
      BY <3>2 DEF Unit
    <3> QED
      BY <3>1, <3>3
  <2>4. Norm(p, c) >= Norm(q, c)
    BY <1>3, <1>5 DEF Grain
  <2> QED
    BY <1>5, <2>2, <2>3, <2>4, UrgencyGrows
<1>10. /\ ScarcityPoints(p, c) = ScarcityPoints(q, c) /\ NeedPoints(p, c) = NeedPoints(q, c)
       /\ LandingPoints(p) = LandingPoints(q) /\ PlayoffPoints(p) = PlayoffPoints(q)
       /\ HealthPoints(p) = HealthPoints(q)
  BY <1>4 DEF ScarcityPoints, NeedPoints, LandingPoints, PlayoffPoints, HealthPoints
<1>11. LateRoundPoints(p, c) = LateRoundPoints(q, c) /\ ByePoints(p, c) = ByePoints(q, c)
  BY <1>4 DEF LateRoundPoints, ByePoints
<1>12. ScorePlayer(p, c, i) > ScorePlayer(q, c, j)
  BY <1>2, <1>4, <1>6, <1>7, <1>8, <1>9, <1>10, <1>11 DEF ScorePlayer, PartsOk
<1> QED
  BY <1>12 DEF p, q

\* On a board of the session, a value is no larger than the scale.
LEMMA ValueIsWithinScale ==
    ASSUME BoardInv, NEW n \in DOMAIN pool, HasProjection(pool[n])
    PROVE  /\ ValueOver(baseline.points, pool[n]) \in Int
           /\ ValueOver(baseline.points, pool[n]) <= baseline.most
           /\ baseline.most \in Int
<1>1. PlayersOk(pool)
  BY PoolsAreOk DEF BoardInv
<1>2. /\ baseline.most \in Int /\ \A q \in Rosterable : baseline.points[q] \in Int
      /\ baseline.most = BestValueIn(pool, baseline.points)
  <2>1. baseline = ComputeReplacementBaseline(pool, TheLeague.teams, lineup) /\ lineup \in Lineups
    BY DEF BoardInv, BaselineOf
  <2>2. baseline.most = BestValueIn(pool, baseline.points)
    BY <2>1 DEF ComputeReplacementBaseline
  <2> QED
    BY <1>1, <2>1, <2>2, BaselineIsInt
<1>3. /\ IsFiniteSet(DOMAIN pool)
      /\ \A m \in DOMAIN pool : IsPlayer(pool[m]) /\ baseline.points[pool[m].position] \in Int
  BY <1>1, <1>2 DEF PlayersOk, IsPlayer
<1> QED
  BY <1>2, <1>3, BestIsInt

\* Who a place of the board is, and what he is worth there.
LEMMA PlacedIsKnown ==
    ASSUME BoardInv, NEW r \in DOMAIN board.ranked
    PROVE  LET c == OnScale(board.context) IN
           \E x \in Provisional(c), n \in DOMAIN c.available :
              /\ x.player = c.available[n] /\ n \in DOMAIN pool /\ pool[n] = x.player
              /\ x.rank \in Int
              /\ Known(board.ranked[r].uuid) = x.player
              /\ board.ranked[r].score = ScorePlayer(x.player, c, x.rank)
              /\ board.ranked[r].vorp = ValueOver(baseline.points, x.player)
<1> DEFINE c == OnScale(board.context)
<1>1. PICK x \in Provisional(c) : board.ranked[r] = Recommendation(x.player, c, r, x.rank)
  BY RankedFromThePool
<1>2. ContextOk(c) /\ c.available = board.context.available /\ c.baseline = baseline
  BY RankedFromThePool, ScaleIsOk
<1>3. \A n \in DOMAIN board.context.available :
         n \in DOMAIN pool /\ board.context.available[n] = pool[n]
  BY RankedFromThePool
<1> HIDE DEF c
<1>4. PICK n \in DOMAIN c.available : x.player = c.available[n]
  BY <1>2, ProvisionalIsRanked
<1>5. x.rank \in Int
  BY <1>2, ProvisionalIsRanked
<1>6. n \in DOMAIN pool /\ pool[n] = x.player
  BY <1>2, <1>3, <1>4
<1>7. /\ board.ranked[r].uuid = x.player.uuid
      /\ board.ranked[r].score = ScorePlayer(x.player, c, x.rank)
      /\ board.ranked[r].vorp = ValueOver(baseline.points, x.player)
  BY <1>1, <1>2 DEF Recommendation
<1>8. Known(board.ranked[r].uuid) = x.player
  BY <1>6, <1>7, ListedIsKnown
<1> QED
  BY <1>4, <1>5, <1>6, <1>7, <1>8 DEF c

\* Of two players alike but for their projections, who is better by more than the
\* rounding hides stands higher, on every board.
THEOREM BetterRanksHigher == BoardSpec => []BetterProjectionRanksHigher
<1>1. BoardInv => BetterProjectionRanksHigher
  <2> DEFINE c == OnScale(board.context)
             most == board.context.most
  <2> SUFFICES ASSUME BoardInv,
                      NEW r \in DOMAIN board.ranked, NEW s \in DOMAIN board.ranked,
                      Twins(Known(board.ranked[r].uuid), Known(board.ranked[s].uuid)),
                      Unit * (board.ranked[r].vorp - Max({board.ranked[s].vorp, -most}))
                         > Grain * most
               PROVE  r < s
    BY DEF BetterProjectionRanksHigher, RankedByProjection
  <2>1. /\ ContextOk(c) /\ c.baseline = baseline /\ most = baseline.most
    BY RankedFromThePool, ScaleIsOk
  <2>2. c.most = IF most > 0 THEN most ELSE c.most
    <3>1. ContextOk(board.context) /\ board.context.baseline.most = most
      BY RankedFromThePool
    <3> QED
      BY <3>1 DEF OnScale, ContextOk
  <2>3. PICK x \in Provisional(c), m \in DOMAIN c.available :
              /\ x.player = c.available[m] /\ m \in DOMAIN pool /\ pool[m] = x.player
              /\ x.rank \in Int
              /\ Known(board.ranked[r].uuid) = x.player
              /\ board.ranked[r].score = ScorePlayer(x.player, c, x.rank)
              /\ board.ranked[r].vorp = ValueOver(baseline.points, x.player)
    BY PlacedIsKnown
  <2>4. PICK y \in Provisional(c), n \in DOMAIN c.available :
              /\ y.player = c.available[n] /\ n \in DOMAIN pool /\ pool[n] = y.player
              /\ y.rank \in Int
              /\ Known(board.ranked[s].uuid) = y.player
              /\ board.ranked[s].score = ScorePlayer(y.player, c, y.rank)
              /\ board.ranked[s].vorp = ValueOver(baseline.points, y.player)
    BY PlacedIsKnown
  <2> DEFINE v == ValueOver(baseline.points, x.player)
             w == ValueOver(baseline.points, y.player)
  <2>5. Twins(x.player, y.player) /\ Unit * (v - Max({w, -most})) > Grain * most
    BY <2>3, <2>4
  <2> HIDE DEF c, most
  <2>6. v \in Int /\ w \in Int /\ v <= most /\ most \in Int
    BY <2>1, <2>3, <2>4, <2>5, ValueIsWithinScale DEF Twins
  <2>7. Norm(x.player, c) = NormaliseVorp(v, c.most) /\ Norm(y.player, c) = NormaliseVorp(w, c.most)
    BY <2>1 DEF Norm
  <2> HIDE DEF v, w
  <2>8. most > 0
    <3>1. -most \in Int /\ Max({w, -most}) = IF w <= -most THEN -most ELSE w
      <4>1. -most \in Int
        BY <2>6
      <4> QED
        BY <2>6, <4>1, OfTwo
    <3>2. 10000 * (v - Max({w, -most})) > 3 * most
      BY <2>5 DEF Unit, Grain
    <3>3. Max({w, -most}) \in Int /\ Max({w, -most}) >= -most
      BY <2>6, <3>1
    <3> QED
      BY <2>6, <3>2, <3>3
  <2>9. Norm(x.player, c) >= Norm(y.player, c) + Grain
    BY <2>2, <2>5, <2>6, <2>7, <2>8, AdvantageShows
  <2>10. x.rank <= y.rank
    <3>1. ScorePlayer(x.player, c, Unknown) > ScorePlayer(y.player, c, Unknown)
      BY <2>1, <2>3, <2>4, <2>5, <2>9, BetterScoresMore
    <3> QED
      BY <2>1, <3>1, ProvisionalIsRanked
  <2>11. ScorePlayer(x.player, c, x.rank) > ScorePlayer(y.player, c, y.rank)
    BY <2>1, <2>3, <2>4, <2>5, <2>9, <2>10, BetterScoresMore
  <2>12. board.ranked[r].score > board.ranked[s].score
    BY <2>3, <2>4, <2>11
  <2> QED
    BY <2>12, RankedFromThePool
<1> QED
  BY <1>1, BoardIsOfThePool, PTL DEF BoardSpec

-----------------------------------------------------------------------------
(* What a client is sent *)

\* What a client is sent of a ranking is in its order, and has a few of each position.
LEMMA SentInOrder ==
    ASSUME NEW ranked, NEW N \in Nat, DOMAIN ranked = 1..N
    PROVE  LET sent == Transmitted(ranked)
               Count(list, q) == Cardinality({n \in DOMAIN list : list[n].position = q})
           IN  /\ \E order \in [DOMAIN sent -> 1..N] :
                     /\ \A k \in DOMAIN sent : sent[k] = ranked[order[k]]
                     /\ \A m, n \in DOMAIN sent : m < n => order[m] < order[n]
               /\ DOMAIN sent \subseteq Nat
               /\ \A q : Count(sent, q) >= Min({MinPerPosition, Count(ranked, q)})
<1> DEFINE sent == Transmitted(ranked)
           included == {n \in DOMAIN ranked :
              \/ n <= BoardDepth
              \/ Cardinality({m \in 1..(n - 1) : ranked[m].position = ranked[n].position})
                    < MinPerPosition}
           order == InPlace(included)
<1>1. sent = [k \in DOMAIN order |-> ranked[order[k]]]
  BY DEF Transmitted, InOrder, InPlace
<1>2. included \subseteq 1..N /\ IsFiniteSet(1..N) /\ IsFiniteSet(included)
  <2>1. IsFiniteSet(1..N)
    <3>1. 1 \in Int /\ N \in Int
      OBVIOUS
    <3> QED
      BY <3>1, FS_Interval
  <2>2. included \subseteq 1..N
    OBVIOUS
  <2> HIDE DEF included
  <2> QED
    BY <2>1, <2>2, FS_Subset
<1>3. ASSUME NEW n \in 1..N, NEW q, ranked[n].position = q,
             Cardinality({m \in {k \in DOMAIN ranked : ranked[k].position = q} : m < n})
                < MinPerPosition
      PROVE  n \in included
  <2>1. {m \in {k \in DOMAIN ranked : ranked[k].position = q} : m < n}
           = {m \in 1..(n - 1) : ranked[m].position = ranked[n].position}
    BY <1>3
  <2> QED
    BY <1>3, <2>1
<1> HIDE DEF included
<1>7. /\ Cardinality(included) \in Nat /\ order \in [1..Cardinality(included) -> included]
      /\ \A x \in included : \E k \in DOMAIN order : order[k] = x
      /\ \A m, n \in DOMAIN order : m < n => order[m] < order[n]
  <2>1. included \in SUBSET (1..N)
    BY <1>2
  <2> QED
    BY <2>1, KeptInOrder
<1> HIDE DEF order
<1>8. \A m, n \in DOMAIN order : m < n => order[m] < order[n]
  BY <1>7
<1>9. DOMAIN sent = DOMAIN order /\ \A k \in DOMAIN sent : sent[k] = ranked[order[k]]
  BY <1>1
<1> HIDE DEF sent
<1>10. ASSUME NEW q
       PROVE  Cardinality({n \in DOMAIN sent : sent[n].position = q})
                 >= Min({MinPerPosition, Cardinality({n \in DOMAIN ranked : ranked[n].position = q})})
  <2> DEFINE P   == {n \in DOMAIN ranked : ranked[n].position = q}
             few == {n \in P : Cardinality({m \in P : m < n}) < MinPerPosition}
             K   == {k \in DOMAIN sent : sent[k].position = q}
             I   == {n \in included : ranked[n].position = q}
             f   == [k \in K |-> order[k]]
  <2>1. P \in SUBSET (1..N) /\ MinPerPosition \in Nat
    BY SessionAssumption
  <2>2. few \subseteq I
    BY <1>3
  <2>3. IsFiniteSet(K)
    <3>1. IsFiniteSet(DOMAIN sent)
      <4>1. /\ DOMAIN sent = 1..Cardinality(included)
            /\ 1 \in Int /\ Cardinality(included) \in Int
        BY <1>7, <1>9
      <4> QED
        BY <4>1, FS_Interval
    <3> QED
      BY <3>1, FS_Subset
  <2>4. f \in Surjection(K, I)
    <3>1. f \in [K -> I]
      BY <1>7, <1>9
    <3>2. ASSUME NEW n \in I PROVE \E k \in K : f[k] = n
      <4>1. PICK k \in DOMAIN order : order[k] = n
        BY <1>7
      <4>2. k \in K /\ f[k] = n
        BY <1>9, <4>1
      <4> QED
        BY <4>2
    <3> QED
      BY <3>1, <3>2 DEF Surjection
  <2>5. Min({MinPerPosition, Cardinality(P)}) \in Nat
        /\ Cardinality(few) >= Min({MinPerPosition, Cardinality(P)})
    <3> HIDE DEF P
    <3> QED
      BY <2>1, FirstFew
  <2> HIDE DEF P, few, K, I, f
  <2>6. IsFiniteSet(I) /\ Cardinality(I) <= Cardinality(K)
    BY <2>3, <2>4, FS_Surjection
  <2>7. Cardinality(few) <= Cardinality(I)
    BY <2>2, <2>6, FS_Subset
  <2>8. Cardinality(I) \in Nat /\ Cardinality(K) \in Nat /\ Cardinality(few) \in Nat
    BY <2>2, <2>3, <2>6, FS_Subset, FS_CardinalityType
  <2> QED
    BY <2>5, <2>6, <2>7, <2>8 DEF P, K
<1>11. order \in [DOMAIN sent -> 1..N] /\ DOMAIN sent \subseteq Nat
  <2>1. DOMAIN sent = 1..Cardinality(included) /\ order \in [DOMAIN sent -> included]
    BY <1>7, <1>9
  <2> QED
    <3>1. \A k \in DOMAIN sent : order[k] \in 1..N
      BY <1>2, <2>1
    <3>2. DOMAIN sent \subseteq Nat
      BY <1>7, <2>1
    <3> QED
      BY <2>1, <3>1, <3>2
<1> QED
  BY <1>8, <1>9, <1>10, <1>11 DEF sent

\* A client can look for any position the board has: nobody sent is out of order,
\* and a position with players is never empty, whatever is on the board.
THEOREM PositionsAreShown == BoardSpec => []NoPositionLooksEmpty
<1>1. BoardInv => NoPositionLooksEmpty
  <2> SUFFICES ASSUME BoardInv PROVE NoPositionLooksEmpty
    OBVIOUS
  <2> DEFINE sent == Transmitted(board.ranked)
  <2>1. PICK N \in Nat :
           /\ DOMAIN board.ranked = 1..N
           /\ \A r \in 1..N :
                 \E n \in DOMAIN pool, prior \in Int :
                    board.ranked[r] = Recommendation(pool[n], OnScale(board.context), r, prior)
    BY RankedFromThePool
  <2>2. ASSUME NEW r \in 1..N PROVE board.ranked[r].rank = r
    <3>1. PICK n \in DOMAIN pool, prior \in Int :
             board.ranked[r] = Recommendation(pool[n], OnScale(board.context), r, prior)
      BY <2>1
    <3> QED
      BY <3>1 DEF Recommendation
  <2>3. PICK order \in [DOMAIN sent -> 1..N] :
           /\ \A k \in DOMAIN sent : sent[k] = board.ranked[order[k]]
           /\ \A m, n \in DOMAIN sent : m < n => order[m] < order[n]
    BY <2>1, SentInOrder
  <2>4. \A m, n \in DOMAIN sent : m < n => sent[m].rank < sent[n].rank
    <3> HIDE DEF sent
    <3> QED
      BY <2>2, <2>3
  <2>5. \A q : Cardinality({n \in DOMAIN sent : sent[n].position = q})
                 >= Min({MinPerPosition,
                         Cardinality({n \in DOMAIN board.ranked : board.ranked[n].position = q})})
    BY <2>1, SentInOrder
  <2>6. BuildBoardPayload(board, draft, pool, seat, lineup, hash).sent = sent
    BY DEF BuildBoardPayload
  <2> QED
    BY <2>4, <2>5, <2>6 DEF NoPositionLooksEmpty
<1> QED
  BY <1>1, BoardIsOfThePool, PTL DEF BoardSpec

-----------------------------------------------------------------------------
(* Filling a lineup *)

\* A set that holds zero, and with each number below N the next, holds all up to N.
LEMMA Along ==
    ASSUME NEW N \in Nat, NEW S, 0 \in S, \A n \in 1..N : n - 1 \in S => n \in S
    PROVE  0..N \subseteq S
<1> DEFINE T == {n \in Nat : n <= N => n \in S}
<1>1. T \in SUBSET Nat /\ 0 \in T
  OBVIOUS
<1>2. \A n \in T : n + 1 \in T
  <2> SUFFICES ASSUME NEW n \in Nat, n <= N => n \in S, n + 1 <= N PROVE n + 1 \in S
    OBVIOUS
  <2>1. n + 1 \in 1..N /\ (n + 1) - 1 = n /\ n \in S
    OBVIOUS
  <2> QED
    BY <2>1
<1>3. T = Nat
  BY <1>1, <1>2, AllOfNat
<1> QED
  BY <1>3

\* N steps of a machine.
HasSteps(N, X, first, next) ==
    \E step \in [0..N -> X] :
       /\ step[0] = first
       /\ \A n \in 1..N : step[n] = next[<<n, step[n - 1]>>]

\* A machine that never stops has a run of N steps.
LEMMA RunExists ==
    ASSUME NEW N \in Nat, NEW X, NEW first \in X, NEW next \in [(1..N) \X X -> X]
    PROVE  HasSteps(N, X, first, next)
<1> DEFINE Runs(n) == {step \in [0..n -> X] : /\ step[0] = first
                            /\ \A k \in 1..n : step[k] = next[<<k, step[k - 1]>>]}
           S == {n \in Nat : Runs(n) # {}}
<1>1. 0 \in S
  <2>1. [n \in 0..0 |-> first] \in Runs(0)
    OBVIOUS
  <2> QED
    BY <2>1
<1>2. ASSUME NEW n \in 1..N, n - 1 \in S
      PROVE  n \in S
  <2>1. PICK step \in Runs(n - 1) : TRUE
    BY <1>2
  <2> DEFINE more == [k \in 0..n |-> IF k = n THEN next[<<n, step[n - 1]>>] ELSE step[k]]
  <2>2. n - 1 \in 0..(n - 1) /\ step[n - 1] \in X
    BY <2>1
  <2>3. next[<<n, step[n - 1]>>] \in X
    BY <2>2
  <2>4. more \in [0..n -> X]
    <3>1. \A k \in 0..n : k # n => k \in 0..(n - 1)
      OBVIOUS
    <3> QED
      BY <2>1, <2>3, <3>1
  <2>5. more[0] = first
    BY <2>1
  <2>6. ASSUME NEW k \in 1..n PROVE more[k] = next[<<k, more[k - 1]>>]
    <3>1. k - 1 \in 0..n /\ k - 1 # n /\ more[k - 1] = step[k - 1]
      OBVIOUS
    <3>2. CASE k = n
      <4>1. more[k] = next[<<n, step[n - 1]>>]
        BY <3>2
      <4> QED
        BY <3>1, <3>2, <4>1
    <3>3. CASE k # n
      <4>1. more[k] = step[k] /\ k \in 1..(n - 1)
        BY <3>3
      <4>2. step[k] = next[<<k, step[k - 1]>>]
        BY <2>1, <4>1
      <4> QED
        BY <3>1, <4>1, <4>2
    <3> QED
      BY <3>2, <3>3
  <2> HIDE DEF more
  <2>7. more \in Runs(n)
    BY <2>4, <2>5, <2>6
  <2>8. n \in Nat
    OBVIOUS
  <2> QED
    BY <2>7, <2>8
<1>3. 0..N \subseteq S
  <2> HIDE DEF S
  <2> QED
    BY <1>1, <1>2, Along
<1>4. N \in S
  <2>1. N \in 0..N
    OBVIOUS
  <2> QED
    BY <1>3, <2>1
<1> QED
  BY <1>4 DEF HasSteps

-----------------------------------------------------------------------------
(* A run of a fill: in the order of the slots, each takes a player who is left and *)
(* whom it may take, as long as there is one.                                      *)

IsRun(left, at, N, may) ==
    /\ left \in [0..N -> SUBSET DOMAIN at] /\ left[0] = DOMAIN at
    /\ \A k \in 1..N :
          LET able == {n \in left[k - 1] : at[n] \in may[k]}
          IN  IF able = {} THEN left[k] = left[k - 1]
              ELSE \E n \in able : left[k] = left[k - 1] \ {n}

Filled(left, at, N, may) == {k \in 1..N : \E n \in left[k - 1] : at[n] \in may[k]}

\* Nobody comes back.
LEMMA NobodyComesBack ==
    ASSUME NEW at, NEW N \in Nat, NEW may, NEW left, IsRun(left, at, N, may)
    PROVE  \A j, k \in 0..N : j <= k => left[k] \subseteq left[j]
<1> SUFFICES ASSUME NEW j \in 0..N
             PROVE  0..N \subseteq {k \in 0..N : j <= k => left[k] \subseteq left[j]}
  OBVIOUS
<1> DEFINE S == {k \in 0..N : j <= k => left[k] \subseteq left[j]}
<1>1. 0 \in S
  OBVIOUS
<1>2. ASSUME NEW k \in 1..N, k - 1 \in S
      PROVE  k \in S
  <2>1. left[k] \subseteq left[k - 1]
    BY DEF IsRun
  <2>2. j = k \/ j > k \/ j <= k - 1
    OBVIOUS
  <2> QED
    BY <1>2, <2>1, <2>2
<1> HIDE DEF S
<1>3. 0..N \subseteq S
  BY <1>1, <1>2, Along
<1> QED
  BY <1>3 DEF S

\* Whom each filled slot has taken: each a player of its own whom it may take, who was
\* left before it, and these are all who are gone.
AreTaken(take, left, at, N, may) ==
    LET F == Filled(left, at, N, may)
    IN  /\ take \in [F -> DOMAIN at]
        /\ \A k \in F : at[take[k]] \in may[k]
        /\ \A k \in F : \A m \in 0..N : take[k] \in left[m] <=> m < k
        /\ \A j, k \in F : take[j] = take[k] => j = k
        /\ \A m \in 0..N : \A n \in DOMAIN at \ left[m] :
              \E k \in F : k <= m /\ take[k] = n

\* Every run takes someone for each slot it fills.
LEMMA EachTakesOne ==
    ASSUME NEW at, NEW N \in Nat, NEW may, NEW left, IsRun(left, at, N, may)
    PROVE  \E take : AreTaken(take, left, at, N, may)
<1> DEFINE F == Filled(left, at, N, may)
           Gone(k) == {n \in left[k - 1] : at[n] \in may[k] /\ left[k] = left[k - 1] \ {n}}
           take == [k \in F |-> CHOOSE n \in Gone(k) : TRUE]
<1>1. ASSUME NEW k \in F
      PROVE  /\ k \in 1..N /\ take[k] \in DOMAIN at /\ take[k] \in left[k - 1]
             /\ at[take[k]] \in may[k]
             /\ left[k] = left[k - 1] \ {take[k]}
  <2>1. k \in 1..N /\ {n \in left[k - 1] : at[n] \in may[k]} # {}
    BY DEF Filled
  <2>2. Gone(k) # {}
    BY <2>1 DEF IsRun
  <2>3. take[k] \in Gone(k)
    BY <2>2
  <2>4. left[k - 1] \subseteq DOMAIN at
    <3>1. k - 1 \in 0..N
      BY <2>1
    <3> QED
      BY <3>1 DEF IsRun
  <2> QED
    BY <2>1, <2>3, <2>4
<1> HIDE DEF take
<1>2. DOMAIN take = F
  BY DEF take
<1>3. ASSUME NEW k \in F, NEW m \in 0..N
      PROVE  take[k] \in left[m] <=> m < k
  <2>1. k \in 1..N /\ k - 1 \in 0..N /\ k \in 0..N
    BY <1>1
  <2>2. m < k => m <= k - 1
    BY <2>1
  <2>3. m < k => left[k - 1] \subseteq left[m]
    BY <2>1, <2>2, NobodyComesBack
  <2>4. ~(m < k) => left[m] \subseteq left[k]
    <3>1. ~(m < k) => k <= m
      BY <2>1
    <3> QED
      BY <2>1, <3>1, NobodyComesBack
  <2> QED
    BY <1>1, <2>3, <2>4
<1>4. ASSUME NEW j \in F, NEW k \in F, take[j] = take[k]
      PROVE  j = k
  <2>1. j \in 1..N /\ k \in 1..N
    BY <1>1
  <2>2. j \in 0..N /\ k \in 0..N /\ ~(j < j) /\ ~(k < k)
    BY <2>1
  <2>3. ~(j < k) /\ ~(k < j)
    BY <1>3, <1>4, <2>2
  <2> QED
    BY <2>1, <2>3
<1>5. \A m \in 0..N : \A n \in DOMAIN at \ left[m] : \E k \in F : k <= m /\ take[k] = n
  <2> DEFINE S == {m \in 0..N : \A n \in DOMAIN at \ left[m] :
                                   \E k \in F : k <= m /\ take[k] = n}
  <2>1. 0 \in S
    BY DEF IsRun
  <2>2. ASSUME NEW m \in 1..N, m - 1 \in S
        PROVE  m \in S
    <3> SUFFICES ASSUME NEW n \in DOMAIN at \ left[m]
                 PROVE  \E k \in F : k <= m /\ take[k] = n
      OBVIOUS
    <3>1. CASE n \notin left[m - 1]
      <4>1. PICK k \in F : k <= m - 1 /\ take[k] = n
        BY <2>2, <3>1
      <4>2. k <= m
        BY <1>1, <4>1
      <4> QED
        BY <4>1, <4>2
    <3>2. CASE n \in left[m - 1]
      <4>1. m \in F
        BY <3>2 DEF IsRun, Filled
      <4>2. take[m] = n
        BY <1>1, <3>2, <4>1
      <4>3. m <= m
        OBVIOUS
      <4> QED
        BY <4>1, <4>2, <4>3
    <3> QED
      BY <3>1, <3>2
  <2> HIDE DEF S
  <2>3. 0..N \subseteq S
    BY <2>1, <2>2, Along
  <2> QED
    BY <2>3 DEF S
<1>6. take \in [F -> DOMAIN at]
  BY <1>1, <1>2 DEF take
<1> HIDE DEF F
<1>7. \A k \in F : at[take[k]] \in may[k]
  BY <1>1
<1>8. \A k \in F : \A m \in 0..N : take[k] \in left[m] <=> m < k
  BY <1>3
<1>9. \A j, k \in F : take[j] = take[k] => j = k
  BY <1>4
<1>10. AreTaken(take, left, at, N, may)
  <2> HIDE DEF Gone
  <2> QED
    BY <1>5, <1>6, <1>7, <1>8, <1>9 DEF AreTaken, F
<1> QED
  BY <1>10

\* Slots in an order in which of two that could take the same player the earlier one
\* takes nobody the later could not.
Innermost(may, N) ==
    \A i, j \in 1..N : i < j /\ may[i] \cap may[j] # {} => may[i] \subseteq may[j]

\* Filled in this order, a slot stays open when those within it have taken all it
\* could have: no matter whom they took.
LEMMA WhenASlotIsFilled ==
    ASSUME NEW at, IsFiniteSet(DOMAIN at), NEW N \in Nat, NEW may, Innermost(may, N),
           NEW left, IsRun(left, at, N, may), NEW k \in 1..N
    PROVE  LET within == {j \in Filled(left, at, N, may) : j < k /\ may[j] \subseteq may[k]}
               able   == {n \in DOMAIN at : at[n] \in may[k]}
           IN  k \in Filled(left, at, N, may) <=> Cardinality(within) < Cardinality(able)
<1> DEFINE F == Filled(left, at, N, may)
           within == {j \in F : j < k /\ may[j] \subseteq may[k]}
           able == {n \in DOMAIN at : at[n] \in may[k]}
           gone == able \ left[k - 1]
<1>1. k - 1 \in 0..N /\ F \subseteq 1..N
  BY DEF Filled
<1> HIDE DEF F
<1>taken. PICK take : AreTaken(take, left, at, N, may)
  BY EachTakesOne
<1>2. /\ take \in [F -> DOMAIN at]
      /\ \A j \in F : at[take[j]] \in may[j]
      /\ \A j \in F : \A m \in 0..N : take[j] \in left[m] <=> m < j
      /\ \A i, j \in F : take[i] = take[j] => i = j
      /\ \A m \in 0..N : \A n \in DOMAIN at \ left[m] : \E j \in F : j <= m /\ take[j] = n
  BY <1>taken DEF AreTaken, F
<1> USE DEF F
<1> DEFINE f == [j \in within |-> take[j]]
<1>3. f \in Bijection(within, gone)
  <2>1. ASSUME NEW j \in within PROVE f[j] \in gone
    <3>1. j \in F /\ j \in 1..N /\ ~(k - 1 < j)
      BY <1>1
    <3>2. at[take[j]] \in may[k] /\ take[j] \in DOMAIN at
      BY <1>2, <3>1
    <3>3. take[j] \notin left[k - 1]
      BY <1>1, <1>2, <3>1
    <3> QED
      BY <3>2, <3>3
  <2>2. ASSUME NEW n \in gone PROVE \E j \in within : f[j] = n
    <3>1. PICK j \in F : j <= k - 1 /\ take[j] = n
      BY <1>1, <1>2
    <3>2. j < k /\ j \in 1..N
      BY <1>1, <3>1
    <3>3. at[n] \in may[j] /\ at[n] \in may[k]
      BY <1>2, <3>1
    <3>4. may[j] \subseteq may[k]
      BY <3>2, <3>3 DEF Innermost
    <3> QED
      BY <3>1, <3>2, <3>4
  <2>3. ASSUME NEW i \in within, NEW j \in within, f[i] = f[j] PROVE i = j
    BY <1>2, <2>3
  <2> HIDE DEF within, gone
  <2>4. f \in [within -> gone]
    BY <2>1
  <2> HIDE DEF f
  <2> QED
    BY <2>1, <2>2, <2>3, <2>4, Zenon DEF Bijection, Injection, Surjection, IsInjective
<1>4. IsFiniteSet(able) /\ IsFiniteSet(gone) /\ gone \subseteq able
  BY FS_Subset
<1>5. /\ Cardinality(able) \in Nat /\ Cardinality(gone) \in Nat
      /\ Cardinality(gone) <= Cardinality(able)
      /\ Cardinality(gone) = Cardinality(able) => gone = able
  <2> HIDE DEF able, gone
  <2> QED
    BY <1>4, FS_Subset, FS_CardinalityType
<1>6. IsFiniteSet(within) /\ Cardinality(within) = Cardinality(gone)
  <2>1. IsFiniteSet(within)
    <3>1. IsFiniteSet(1..N)
      <4>1. 1 \in Int /\ N \in Int
        OBVIOUS
      <4> QED
        BY <4>1, FS_Interval
    <3>2. within \subseteq 1..N
      BY <1>1
    <3> HIDE DEF within
    <3> QED
      BY <3>1, <3>2, FS_Subset
  <2>2. ExistsBijection(within, gone)
    <3> HIDE DEF within, gone, f
    <3> QED
      BY <1>3 DEF ExistsBijection
  <2> HIDE DEF within, gone
  <2> QED
    BY <2>1, <2>2, FS_Bijection
<1>7. k \in F <=> gone # able
  <2>1. left[k - 1] \subseteq DOMAIN at
    BY <1>1 DEF IsRun
  <2> QED
    BY <2>1 DEF Filled
<1>8. k \in F <=> Cardinality(within) < Cardinality(able)
  <2> HIDE DEF F, within, gone, able
  <2> QED
    BY <1>5, <1>6, <1>7
<1> QED
  BY <1>8

\* So which slots stay open does not depend on whom the others took.
LEMMA ChoiceDoesNotMatter ==
    ASSUME NEW at, IsFiniteSet(DOMAIN at), NEW N \in Nat, NEW may, Innermost(may, N),
           NEW one, IsRun(one, at, N, may), NEW other, IsRun(other, at, N, may)
    PROVE  Filled(one, at, N, may) = Filled(other, at, N, may)
<1> DEFINE F == Filled(one, at, N, may)
           G == Filled(other, at, N, may)
           S == {k \in 0..N : \A j \in 1..k : j \in F <=> j \in G}
<1>1. F \subseteq 1..N /\ G \subseteq 1..N
  BY DEF Filled
<1>2. 0 \in S
  OBVIOUS
<1>3. ASSUME NEW k \in 1..N, k - 1 \in S
      PROVE  k \in S
  <2> DEFINE within(H) == {j \in H : j < k /\ may[j] \subseteq may[k]}
             able == {n \in DOMAIN at : at[n] \in may[k]}
  <2>1. \A j \in 1..(k - 1) : j \in F <=> j \in G
    BY <1>3
  <2>2. within(F) = within(G)
    <3>1. \A j \in 1..N : j < k => j \in 1..(k - 1)
      OBVIOUS
    <3> HIDE DEF F, G
    <3> QED
      BY <1>1, <2>1, <3>1
  <2>3. k \in F <=> Cardinality(within(F)) < Cardinality(able)
    BY WhenASlotIsFilled
  <2>4. k \in G <=> Cardinality(within(G)) < Cardinality(able)
    BY WhenASlotIsFilled
  <2>5. k \in F <=> k \in G
    BY <2>2, <2>3, <2>4
  <2>6. \A j \in 1..k : j = k \/ j \in 1..(k - 1)
    OBVIOUS
  <2> HIDE DEF F, G
  <2> QED
    BY <2>1, <2>5, <2>6
<1> HIDE DEF S
<1>4. 0..N \subseteq S
  BY <1>2, <1>3, Along
<1>5. N \in S
  BY <1>4
<1> HIDE DEF F, G
<1>6. \A j \in 1..N : j \in F <=> j \in G
  BY <1>5 DEF S
<1>7. F = G
  BY <1>1, <1>6
<1> QED
  BY <1>7 DEF F, G

\* Whatever positions one asks about: each filled slot has taken a player of another
\* position, or could take one of those.
LEMMA NoFillIsLarger ==
    ASSUME NEW at, IsFiniteSet(DOMAIN at), NEW N \in Nat, NEW may,
           NEW left, IsRun(left, at, N, may), NEW P
    PROVE  Cardinality(Filled(left, at, N, may))
              <= Cardinality({n \in DOMAIN at : at[n] \notin P})
                   + Cardinality({k \in 1..N : may[k] \cap P # {}})
<1> DEFINE F == Filled(left, at, N, may)
           outside == {n \in DOMAIN at : at[n] \notin P}
           touching == {k \in 1..N : may[k] \cap P # {}}
<1>1. F \subseteq 1..N /\ IsFiniteSet(1..N)
  <2>1. 1 \in Int /\ N \in Int
    OBVIOUS
  <2> QED
    BY <2>1, FS_Interval DEF Filled
<1> HIDE DEF F
<1>taken. PICK take : AreTaken(take, left, at, N, may)
  BY EachTakesOne
<1>2. /\ take \in [F -> DOMAIN at]
      /\ \A j \in F : at[take[j]] \in may[j]
      /\ \A j \in F : \A m \in 0..N : take[j] \in left[m] <=> m < j
      /\ \A i, j \in F : take[i] = take[j] => i = j
      /\ \A m \in 0..N : \A n \in DOMAIN at \ left[m] : \E j \in F : j <= m /\ take[j] = n
  BY <1>taken DEF AreTaken, F
<1> USE DEF F
<1> DEFINE out == {k \in F : at[take[k]] \notin P}
           f == [k \in out |-> take[k]]
<1>3. IsFiniteSet(outside) /\ IsFiniteSet(touching) /\ IsFiniteSet(out)
      /\ F \ out \subseteq touching
  <2>1. outside \subseteq DOMAIN at /\ touching \subseteq 1..N /\ out \subseteq 1..N
    BY <1>1
  <2>2. F \ out \subseteq touching
    BY <1>1, <1>2
  <2> HIDE DEF outside, touching, out, F
  <2> QED
    BY <1>1, <2>1, <2>2, FS_Subset
<1>4. Cardinality(out) <= Cardinality(outside)
  <2>1. f \in Injection(out, outside)
    <3>1. f \in [out -> outside]
      BY <1>2
    <3>2. \A i, j \in out : f[i] = f[j] => i = j
      BY <1>2
    <3> HIDE DEF f
    <3> QED
      BY <3>1, <3>2, Zenon DEF Injection, IsInjective
  <2> HIDE DEF f, out, outside
  <2> QED
    BY <1>3, <2>1, FS_Injection
<1>5. /\ IsFiniteSet(F \ out) /\ Cardinality(F \ out) <= Cardinality(touching)
  <2> HIDE DEF F, out, touching
  <2> QED
    BY <1>3, FS_Subset
<1>6. Cardinality(F) = Cardinality(out) + Cardinality(F \ out)
  <2>1. IsFiniteSet(F) /\ F \cap out = out
    <3> HIDE DEF F
    <3> QED
      BY <1>1, FS_Subset
  <2>2. Cardinality(F \ out) = Cardinality(F) - Cardinality(F \cap out)
    <3> HIDE DEF F, out
    <3> QED
      BY <2>1, FS_Difference
  <2>3. Cardinality(F) \in Nat /\ Cardinality(out) \in Nat
    <3> HIDE DEF F, out
    <3> QED
      BY <1>3, <2>1, FS_CardinalityType
  <2>4. Cardinality(F \cap out) = Cardinality(out)
    BY <2>1
  <2> HIDE DEF F, out
  <2> QED
    BY <2>2, <2>3, <2>4
<1>7. /\ Cardinality(outside) \in Nat /\ Cardinality(touching) \in Nat
      /\ Cardinality(out) \in Nat /\ Cardinality(F \ out) \in Nat
  <2> HIDE DEF F, out, outside, touching
  <2> QED
    BY <1>3, <1>5, FS_CardinalityType
<1>8. Cardinality(F) <= Cardinality(outside) + Cardinality(touching)
  <2> HIDE DEF F, out, outside, touching
  <2> QED
    BY <1>4, <1>5, <1>6, <1>7
<1> QED
  BY <1>8

\* No fill is larger than this one.
IsLargest(left, at, N, may) ==
    \E P \in SUBSET {at[n] : n \in DOMAIN at} :
       Cardinality(Filled(left, at, N, may))
          = Cardinality({n \in DOMAIN at : at[n] \notin P})
               + Cardinality({k \in 1..N : may[k] \cap P # {}})

\* Filled innermost first, nothing is lost: of the positions an open slot could take
\* everybody is gone, and who is gone of them went to slots that could take nobody else.
LEMMA NestedFillIsLargest ==
    ASSUME NEW at, IsFiniteSet(DOMAIN at), NEW N \in Nat, NEW may, Innermost(may, N),
           NEW left, IsRun(left, at, N, may)
    PROVE  IsLargest(left, at, N, may)
<1> DEFINE F == Filled(left, at, N, may)
           open == (1..N) \ F
           P == {at[n] : n \in {m \in DOMAIN at : \A k \in open : at[m] \notin may[k]}}
           outside == {n \in DOMAIN at : at[n] \notin P}
           touching == {k \in 1..N : may[k] \cap P # {}}
<1>1. F \subseteq 1..N /\ IsFiniteSet(1..N)
  <2>1. 1 \in Int /\ N \in Int
    OBVIOUS
  <2> QED
    BY <2>1, FS_Interval DEF Filled
<1> HIDE DEF F
<1>taken. PICK take : AreTaken(take, left, at, N, may)
  BY EachTakesOne
<1>2. /\ take \in [F -> DOMAIN at]
      /\ \A j \in F : at[take[j]] \in may[j]
      /\ \A j \in F : \A m \in 0..N : take[j] \in left[m] <=> m < j
      /\ \A i, j \in F : take[i] = take[j] => i = j
      /\ \A m \in 0..N : \A n \in DOMAIN at \ left[m] : \E j \in F : j <= m /\ take[j] = n
  BY <1>taken DEF AreTaken, F
<1> USE DEF F
<1>3. \A n \in DOMAIN at : at[n] \in P <=> \A k \in open : at[n] \notin may[k]
  OBVIOUS
<1>4. ASSUME NEW k \in open, NEW n \in DOMAIN at, at[n] \in may[k]
      PROVE  \E j \in F : j < k /\ take[j] = n
  <2>1. k \in 1..N /\ k - 1 \in 0..N /\ k \notin F
    OBVIOUS
  <2>2. n \notin left[k - 1]
    BY <1>4, <2>1 DEF Filled
  <2>3. PICK j \in F : j <= k - 1 /\ take[j] = n
    <3> HIDE DEF P
    <3> QED
      BY <1>2, <2>1, <2>2
  <2>4. j < k
    BY <1>1, <2>1, <2>3
  <2> QED
    BY <2>3, <2>4
<1>5. ASSUME NEW j \in F, at[take[j]] \notin P
      PROVE  may[j] \cap P = {}
  <2>1. PICK k \in open : at[take[j]] \in may[k]
    BY <1>2, <1>3, <1>5
  <2>2. PICK i \in F : i < k /\ take[i] = take[j]
    <3>1. take[j] \in DOMAIN at
      BY <1>2
    <3> QED
      BY <1>4, <2>1, <3>1
  <2>3. j < k
    BY <1>2, <2>2
  <2>4. at[take[j]] \in may[j]
    BY <1>2
  <2>5. may[j] \subseteq may[k]
    BY <1>1, <2>1, <2>3, <2>4 DEF Innermost
  <2> QED
    BY <1>3, <2>5
<1>6. touching = {j \in F : at[take[j]] \in P}
  <2>1. ASSUME NEW j \in F, at[take[j]] \in P PROVE j \in touching
    BY <1>1, <1>2, <2>1
  <2>2. ASSUME NEW j \in touching PROVE j \in F /\ at[take[j]] \in P
    <3>1. j \in F
      BY <1>3
    <3> QED
      BY <1>5, <3>1
  <2>3. touching \subseteq 1..N
    OBVIOUS
  <2> HIDE DEF touching, P, F
  <2> QED
    BY <2>1, <2>2, <2>3
<1> DEFINE out == {j \in F : at[take[j]] \notin P}
           f == [j \in out |-> take[j]]
<1>7. f \in Bijection(out, outside)
  <2>1. \A j \in out : f[j] \in outside
    BY <1>2
  <2>2. ASSUME NEW n \in outside PROVE \E j \in out : f[j] = n
    <3>1. PICK k \in open : at[n] \in may[k]
      BY <1>3
    <3>2. PICK j \in F : take[j] = n
      BY <1>4, <3>1
    <3>3. j \in out /\ f[j] = n
      BY <3>2
    <3> QED
      BY <3>3
  <2>3. \A i, j \in out : f[i] = f[j] => i = j
    BY <1>2
  <2> HIDE DEF out, outside
  <2>4. f \in [out -> outside]
    BY <2>1
  <2> HIDE DEF f
  <2> QED
    BY <2>2, <2>3, <2>4, Zenon DEF Bijection, Injection, Surjection, IsInjective
<1> HIDE DEF P
<1>8. out \subseteq F /\ touching = F \ out
  BY <1>6
<1>9. IsFiniteSet(F) /\ IsFiniteSet(out) /\ Cardinality(outside) = Cardinality(out)
  <2> HIDE DEF F, out, outside, f
  <2>1. ExistsBijection(out, outside)
    BY <1>7 DEF ExistsBijection
  <2>2. IsFiniteSet(F)
    BY <1>1, FS_Subset
  <2>3. IsFiniteSet(out)
    BY <1>8, <2>2, FS_Subset
  <2> QED
    BY <2>1, <2>2, <2>3, FS_Bijection
<1>10. Cardinality(F) = Cardinality(outside) + Cardinality(touching)
  <2> HIDE DEF F, out, outside, touching
  <2>1. Cardinality(F \ out) = Cardinality(F) - Cardinality(F \cap out) /\ F \cap out = out
    BY <1>8, <1>9, FS_Difference
  <2>2. Cardinality(F) \in Nat /\ Cardinality(out) \in Nat
    BY <1>9, FS_CardinalityType
  <2>3. Cardinality(F \cap out) = Cardinality(out)
    BY <2>1
  <2>4. Cardinality(touching) = Cardinality(F) - Cardinality(out)
    BY <1>8, <2>1, <2>3
  <2> QED
    BY <1>9, <2>2, <2>4
<1>11. P \in SUBSET {at[n] : n \in DOMAIN at}
  BY DEF P
<1> QED
  BY <1>10, <1>11 DEF IsLargest, F, outside, touching

\* In a finite set that is not empty, somebody has the most.
LEMMA SomeoneHasMost ==
    ASSUME NEW S, IsFiniteSet(S), S # {}, NEW f \in [S -> Int]
    PROVE  \E x \in S : \A y \in S : f[y] <= f[x]
<1> DEFINE R == {f[x] : x \in S}
<1>1. f \in Surjection(S, R)
  BY DEF Surjection
<1>2. IsFiniteSet(R) /\ R \in SUBSET Int /\ R # {}
  <2>1. IsFiniteSet(R)
    BY <1>1, FS_Surjection
  <2> QED
    BY <2>1
<1>3. Max(R) \in R /\ \A r \in R : Max(R) >= r
  <2> HIDE DEF R
  <2> QED
    BY <1>2, MaxOfInts
<1>4. PICK x \in S : f[x] = Max(R)
  BY <1>3
<1>5. \A y \in S : f[y] \in R /\ f[y] \in Int /\ Max(R) \in Int
  BY <1>2, <1>3
<1> HIDE DEF R
<1> QED
  BY <1>3, <1>4, <1>5

\* What a fill shows as open: the slots that are not filled, in their order.
IsShown(open, F, N, slots) ==
    \E shown : /\ DOMAIN shown = 0..N /\ shown[0] = <<>> /\ shown[N] = open
               /\ \A k \in 1..N : /\ shown[k] \in Seq({slots[j] : j \in 1..N})
                                  /\ shown[k] = IF k \in F THEN shown[k - 1]
                                                ELSE Append(shown[k - 1], slots[k])

\* It is one list.
LEMMA ShownIsOne ==
    ASSUME NEW N \in Nat, NEW F, NEW slots, NEW u, NEW v,
           IsShown(u, F, N, slots), IsShown(v, F, N, slots)
    PROVE  u = v
<1>1. PICK a : /\ a[0] = <<>> /\ a[N] = u
               /\ \A k \in 1..N : a[k] = IF k \in F THEN a[k - 1] ELSE Append(a[k - 1], slots[k])
  BY DEF IsShown
<1>2. PICK b : /\ b[0] = <<>> /\ b[N] = v
               /\ \A k \in 1..N : b[k] = IF k \in F THEN b[k - 1] ELSE Append(b[k - 1], slots[k])
  BY DEF IsShown
<1> DEFINE S == {k \in 0..N : a[k] = b[k]}
<1>3. 0 \in S
  BY <1>1, <1>2
<1>4. ASSUME NEW k \in 1..N, k - 1 \in S PROVE k \in S
  BY <1>1, <1>2, <1>4
<1> HIDE DEF S
<1>5. 0..N \subseteq S
  BY <1>3, <1>4, Along
<1>6. N \in S
  BY <1>5
<1> QED
  BY <1>1, <1>2, <1>6 DEF S

\* And as long as there are open slots.
LEMMA ShownLength ==
    ASSUME NEW N \in Nat, NEW F \in SUBSET (1..N), NEW slots, NEW u, IsShown(u, F, N, slots)
    PROVE  Len(u) = N - Cardinality(F)
<1> DEFINE T == {slots[j] : j \in 1..N}
<1>0. \A j \in F : j \in 1..N
  OBVIOUS
<1>1. PICK a : /\ a[0] = <<>> /\ a[N] = u
               /\ \A k \in 1..N : /\ a[k] \in Seq(T)
                                  /\ a[k] = IF k \in F THEN a[k - 1]
                                            ELSE Append(a[k - 1], slots[k])
  BY DEF IsShown
<1>2. \A k \in 0..N : a[k] \in Seq(T)
  <2>1. \A k \in 0..N : k = 0 \/ k \in 1..N
    OBVIOUS
  <2>2. <<>> \in Seq(T)
    OBVIOUS
  <2> HIDE DEF T
  <2> QED
    BY <1>1, <2>1, <2>2
<1> DEFINE S == {k \in 0..N : Len(a[k]) = k - Cardinality({j \in F : j <= k})}
<1>3. IsFiniteSet(F) /\ \A k \in 0..N : IsFiniteSet({j \in F : j <= k})
  <2>1. IsFiniteSet(1..N)
    <3>1. 1 \in Int /\ N \in Int
      OBVIOUS
    <3> QED
      BY <3>1, FS_Interval
  <2>2. IsFiniteSet(F)
    BY <2>1, FS_Subset
  <2>3. \A k \in 0..N : {j \in F : j <= k} \subseteq F
    OBVIOUS
  <2> QED
    BY <2>2, <2>3, FS_Subset
<1>4. 0 \in S
  <2>0. \A j \in F : ~(j <= 0)
    BY <1>0
  <2>1. {j \in F : j <= 0} = {}
    BY <2>0
  <2>2. Cardinality({j \in F : j <= 0}) = 0 /\ Len(a[0]) = 0
    BY <1>1, <2>1, FS_EmptySet
  <2> QED
    BY <2>2
<1>5. ASSUME NEW k \in 1..N, k - 1 \in S PROVE k \in S
  <2> DEFINE A == {j \in F : j <= k - 1}
             B == {j \in F : j <= k}
  <2>1. k - 1 \in 0..N /\ k \in 0..N /\ Len(a[k - 1]) = (k - 1) - Cardinality(A)
    BY <1>5
  <2>2. IsFiniteSet(A) /\ Cardinality(A) \in Nat
    <3>1. IsFiniteSet(A)
      BY <1>3, <2>1
    <3> HIDE DEF A
    <3> QED
      BY <3>1, FS_CardinalityType
  <2>3. CASE k \in F
    <3>0. \A j \in F : (j <= k <=> j <= k - 1 \/ j = k) /\ ~(k <= k - 1)
      BY <1>0
    <3>1. B = A \cup {k} /\ k \notin A
      BY <2>3, <3>0
    <3>2. Cardinality(B) = Cardinality(A) + 1
      <4> HIDE DEF A, B
      <4> QED
        BY <2>2, <3>1, FS_AddElement
    <3>3. Len(a[k]) = Len(a[k - 1])
      BY <1>1, <2>3
    <3>4. Len(a[k]) = k - Cardinality(B)
      <4> HIDE DEF A, B
      <4> QED
        BY <2>1, <2>2, <3>2, <3>3
    <3> QED
      BY <2>1, <3>4
  <2>4. CASE k \notin F
    <3>0. \A j \in F : j <= k <=> j <= k - 1
      BY <1>0, <2>4
    <3>1. B = A
      BY <3>0
    <3>3. Cardinality(B) = Cardinality(A)
      BY <3>1
    <3>2. Len(a[k]) = Len(a[k - 1]) + 1
      <4>1. a[k - 1] \in Seq(T) /\ slots[k] \in T
        BY <1>2, <2>1
      <4>2. a[k] = Append(a[k - 1], slots[k])
        BY <1>1, <2>4
      <4> HIDE DEF T
      <4> QED
        BY <4>1, <4>2
    <3>4. Len(a[k]) = k - Cardinality(B)
      <4> HIDE DEF A, B
      <4> QED
        BY <2>1, <2>2, <3>2, <3>3
    <3> QED
      BY <2>1, <3>4
  <2> QED
    BY <2>3, <2>4
<1>6. 0..N \subseteq S
  <2> HIDE DEF S
  <2> QED
    BY <1>4, <1>5, Along
<1>7. N \in S
  <2> HIDE DEF S
  <2> QED
    BY <1>6
<1>8. {j \in F : j <= N} = F
  <2>1. \A j \in F : j <= N
    BY <1>0
  <2> QED
    BY <2>1
<1>9. Len(a[N]) = N - Cardinality({j \in F : j <= N})
  BY <1>7
<1> QED
  BY <1>1, <1>8, <1>9

-----------------------------------------------------------------------------
(* Whom the engine takes *)

\* Somebody of those with the most is taken.
LEMMA ConsumedIsLeft ==
    ASSUME NEW left \in [Rosterable -> Nat], NEW order \in [Rosterable -> Int], NEW slot,
           \E p \in Eligible(slot) : left[p] # 0
    PROVE  /\ Consumed(slot, left, order) \in Eligible(slot)
           /\ left[Consumed(slot, left, order)] > 0
<1> DEFINE able == {p \in Eligible(slot) : left[p] > 0}
           most == {p \in able : \A q \in able : left[q] <= left[p]}
<1>1. Eligible(slot) \subseteq Rosterable /\ IsFiniteSet(Rosterable)
  <2>1. Eligible(slot) \subseteq Rosterable
    BY DEF Eligible, Rosterable, Valued
  <2>2. IsFiniteSet({"QB"}) /\ IsFiniteSet({"QB", "RB"}) /\ IsFiniteSet({"QB", "RB", "WR"})
    <3>1. IsFiniteSet({"QB"})
      BY FS_Singleton
    <3>2. IsFiniteSet({"QB"} \cup {"RB"})
      BY <3>1, FS_AddElement
    <3>3. IsFiniteSet(({"QB"} \cup {"RB"}) \cup {"WR"})
      BY <3>2, FS_AddElement
    <3> QED
      BY <3>1, <3>2, <3>3
  <2>3. IsFiniteSet({"QB", "RB", "WR"} \cup {"TE"})
    BY <2>2, FS_AddElement
  <2>4. IsFiniteSet(({"QB", "RB", "WR"} \cup {"TE"}) \cup {"K"})
    BY <2>3, FS_AddElement
  <2>5. IsFiniteSet((({"QB", "RB", "WR"} \cup {"TE"}) \cup {"K"}) \cup {"DEF"})
    BY <2>4, FS_AddElement
  <2>6. Rosterable = (({"QB", "RB", "WR"} \cup {"TE"}) \cup {"K"}) \cup {"DEF"}
    BY DEF Rosterable, Valued
  <2> QED
    BY <2>1, <2>5, <2>6
<1>2. able # {} /\ able \subseteq Rosterable /\ IsFiniteSet(able)
  <2>1. able \subseteq Rosterable /\ able # {}
    BY <1>1
  <2> HIDE DEF able
  <2> QED
    BY <1>1, <2>1, FS_Subset
<1>3. most # {}
  <2> DEFINE f == [p \in able |-> left[p]]
  <2>1. f \in [able -> Int]
    BY <1>2
  <2>2. PICK x \in able : \A y \in able : f[y] <= f[x]
    <3> HIDE DEF able, f
    <3> QED
      BY <1>2, <2>1, SomeoneHasMost
  <2>3. x \in most
    <3> HIDE DEF able
    <3> QED
      BY <2>2
  <2> QED
    BY <2>3
<1>4. most \subseteq able /\ IsFiniteSet(most)
  <2>1. most \subseteq able
    OBVIOUS
  <2> HIDE DEF able, most
  <2> QED
    BY <1>2, <2>1, FS_Subset
<1>5. \E p \in most : \A q \in most : order[p] <= order[q]
  <2> DEFINE f == [p \in most |-> -order[p]]
  <2> HIDE DEF most, able
  <2>1. \A p \in most : order[p] \in Int
    BY <1>2, <1>4
  <2>2. f \in [most -> Int]
    BY <2>1
  <2>3. PICK x \in most : \A y \in most : f[y] <= f[x]
    <3> HIDE DEF f
    <3> QED
      BY <1>3, <1>4, <2>2, SomeoneHasMost
  <2>4. \A y \in most : order[x] <= order[y]
    BY <2>1, <2>3
  <2> QED
    BY <2>4
<1>6. Consumed(slot, left, order) \in most
  <2>1. Consumed(slot, left, order) = CHOOSE p \in most : \A q \in most : order[p] <= order[q]
    BY DEF Consumed
  <2> HIDE DEF most, able
  <2> QED
    BY <1>5, <2>1
<1> QED
  BY <1>6

-----------------------------------------------------------------------------
(* The slots, in the order they are filled in *)

\* The places of a lineup that start, in the order they are filled in.
FillPlaces(some) ==
    [k \in 1..Cardinality(Starting(some)) |->
        CHOOSE n \in Starting(some) :
            Cardinality({m \in Starting(some) : FillsBefore(some, m, n)}) = k - 1]

\* Each starting slot is filled once, the more restrictive first.
LEMMA SlotsInOrder ==
    ASSUME NEW some \in Lineups
    PROVE  LET N == Cardinality(Starting(some))
               b == FillPlaces(some)
           IN  /\ N \in Nat /\ b \in Bijection(1..N, Starting(some))
               /\ InFillOrder(some) = [k \in 1..N |-> some[b[k]]]
               /\ Len(InFillOrder(some)) = N
               /\ \A i, j \in 1..N : i < j => FillsBefore(some, b[i], b[j])
<1> DEFINE S == Starting(some)
           N == Cardinality(S)
           b == FillPlaces(some)
           pre == [n \in S |-> {m \in S : FillsBefore(some, m, n)}]
<1>1. IsFiniteSet(S) /\ S \in SUBSET Int
  <2>1. DOMAIN some \in SUBSET Int
    BY SessionAssumption
  <2> QED
    BY <2>1, SlotsAreFinite DEF Starting
<1>2. \A slot : FillPriority(slot) \in Int
  BY DEF FillPriority
<1>3. /\ \A x \in S : ~FillsBefore(some, x, x)
      /\ \A x, y \in S : x = y \/ FillsBefore(some, x, y) \/ FillsBefore(some, y, x)
      /\ \A x, y, z \in S :
            FillsBefore(some, x, y) /\ FillsBefore(some, y, z) => FillsBefore(some, x, z)
  <2> HIDE DEF S
  <2>1. ASSUME NEW x \in S, NEW y \in S, NEW z \in S
        PROVE  /\ ~FillsBefore(some, x, x)
               /\ x = y \/ FillsBefore(some, x, y) \/ FillsBefore(some, y, x)
               /\ FillsBefore(some, x, y) /\ FillsBefore(some, y, z) => FillsBefore(some, x, z)
    <3>1. x \in Int /\ y \in Int /\ z \in Int
      BY <1>1
    <3>2. /\ FillPriority(some[x]) \in Int /\ FillPriority(some[y]) \in Int
          /\ FillPriority(some[z]) \in Int
      BY <1>2
    <3> QED
      BY <3>1, <3>2 DEF FillsBefore
  <2> QED
    BY <2>1
<1>4. /\ pre \in [S -> SUBSET S]
      /\ \A x, y \in S : x \in pre[y] <=> FillsBefore(some, x, y)
      /\ \A x \in S : pre[x] = {m \in S : FillsBefore(some, m, x)}
  OBVIOUS
<1>5. /\ \A x \in S : x \notin pre[x]
      /\ \A x, y \in S : x = y \/ x \in pre[y] \/ y \in pre[x]
  <2> HIDE DEF pre, S
  <2> QED
    BY <1>3, <1>4
<1>6. \A x, y \in S : x \in pre[y] => pre[x] \subseteq pre[y]
  <2> HIDE DEF pre, S
  <2> SUFFICES ASSUME NEW x \in S, NEW y \in S, x \in pre[y], NEW z \in pre[x]
               PROVE  z \in pre[y]
    OBVIOUS
  <2>1. z \in S
    BY <1>4
  <2> QED
    BY <1>3, <1>4, <2>1
<1> HIDE DEF pre
<1>7. /\ N \in Nat
      /\ \A x \in S : Cardinality(pre[x]) \in 0..(N - 1)
      /\ \A x, y \in S : x \in pre[y] <=> Cardinality(pre[x]) < Cardinality(pre[y])
      /\ \A n \in 1..N : \E x \in S : Cardinality(pre[x]) = n - 1
  <2> HIDE DEF S
  <2> QED
    BY <1>1, <1>4, <1>5, <1>6, PlacesAreTaken
<1>8. DOMAIN b = 1..N /\ \A n \in 1..N : b[n] =
         CHOOSE x \in S : Cardinality({m \in S : FillsBefore(some, m, x)}) = n - 1
  BY DEF FillPlaces
<1>9. InFillOrder(some) = [k \in 1..Len(b) |-> some[b[k]]] /\ Len(b) = N
  <2>1. InFillOrder(some) = [k \in 1..Len(b) |-> some[b[k]]]
    BY DEF InFillOrder, InOrder, FillPlaces
  <2>2. b = [n \in 1..N |-> b[n]]
    BY DEF FillPlaces
  <2>3. b \in Seq({b[k] : k \in 1..N})
    <3> HIDE DEF b, N
    <3> QED
      BY <1>7, <2>2
  <2>4. Len(b) = N
    <3> HIDE DEF b, N
    <3> QED
      BY <1>7, <1>8, <2>3
  <2> QED
    BY <2>1, <2>4
<1> HIDE DEF b, S
<1>10. ASSUME NEW n \in 1..N
       PROVE  b[n] \in S /\ Cardinality(pre[b[n]]) = n - 1
  <2>1. \E x \in S : Cardinality({m \in S : FillsBefore(some, m, x)}) = n - 1
    BY <1>4, <1>7
  <2>2. b[n] \in S /\ Cardinality({m \in S : FillsBefore(some, m, b[n])}) = n - 1
    BY <1>8, <2>1
  <2> QED
    BY <1>4, <2>2
<1>11. \A i, j \in 1..N : i < j => FillsBefore(some, b[i], b[j])
  <2> SUFFICES ASSUME NEW i \in 1..N, NEW j \in 1..N, i < j
               PROVE  FillsBefore(some, b[i], b[j])
    OBVIOUS
  <2>1. Cardinality(pre[b[i]]) < Cardinality(pre[b[j]])
    BY <1>7, <1>10
  <2> QED
    BY <1>4, <1>7, <1>10, <2>1
<1>12. \A x \in S : \E k \in 1..N : b[k] = x
  <2> SUFFICES ASSUME NEW x \in S PROVE \E k \in 1..N : b[k] = x
    OBVIOUS
  <2> DEFINE k == Cardinality(pre[x]) + 1
  <2>1. k \in 1..N /\ k - 1 = Cardinality(pre[x])
    BY <1>7
  <2> HIDE DEF k
  <2>2. b[k] \in S /\ Cardinality(pre[b[k]]) = Cardinality(pre[x])
    BY <1>10, <2>1
  <2>3. ~(Cardinality(pre[x]) < Cardinality(pre[x]))
    BY <1>7
  <2>4. b[k] \notin pre[x] /\ x \notin pre[b[k]]
    BY <1>7, <2>2, <2>3
  <2>5. b[k] = x
    BY <1>5, <2>2, <2>4
  <2> QED
    BY <2>1, <2>5
<1>13. \A i, j \in 1..N : b[i] = b[j] => i = j
  <2> SUFFICES ASSUME NEW i \in 1..N, NEW j \in 1..N, b[i] = b[j] PROVE i = j
    OBVIOUS
  <2>1. i - 1 = j - 1
    BY <1>10
  <2> QED
    BY <1>7, <2>1
<1>14. b \in [1..N -> S]
  <2>1. b = [n \in 1..N |-> b[n]]
    BY DEF b, FillPlaces, S
  <2> QED
    BY <1>10, <2>1
<1>15. b \in Bijection(1..N, S)
  <2> HIDE DEF N
  <2> QED
    BY <1>12, <1>13, <1>14, Zenon DEF Bijection, Injection, Surjection, IsInjective
<1>16. InFillOrder(some) = [k \in 1..N |-> some[b[k]]] /\ Len(InFillOrder(some)) = N
  <2>1. InFillOrder(some) = [k \in 1..N |-> some[b[k]]]
    BY <1>9
  <2>2. InFillOrder(some) \in Seq({some[b[k]] : k \in 1..N})
    BY <1>7, <2>1
  <2> QED
    BY <1>7, <2>1, <2>2
<1> QED
  BY <1>7, <1>11, <1>15, <1>16 DEF b, S

\* The slots of a lineup.
MaySlots(some) ==
    [k \in 1..Cardinality(Starting(some)) |-> Eligible(some[FillPlaces(some)[k]])]

\* A slot that holds another's positions and more is filled after it.
LEMMA Restrictive ==
    ASSUME NEW s, NEW t, IsStarting(s), IsStarting(t),
           Eligible(s) # {}, Eligible(s) \subseteq Eligible(t), Eligible(s) # Eligible(t)
    PROVE  FillPriority(s) < FillPriority(t)
<1>1. ASSUME NEW u, IsStarting(u), Eligible(u) # {}
      PROVE  u \in Rosterable \cup {"FLEX", "REC_FLEX", "WRRB_FLEX", "SUPER_FLEX"}
  BY <1>1 DEF Eligible, IsStarting
<1>2. /\ s \in Rosterable \cup {"FLEX", "REC_FLEX", "WRRB_FLEX", "SUPER_FLEX"}
      /\ t \in Rosterable \cup {"FLEX", "REC_FLEX", "WRRB_FLEX", "SUPER_FLEX"}
  BY <1>1
<1>3. \A u \in Rosterable : Eligible(u) = {u} /\ FillPriority(u) = 0
  BY DEF Eligible, FillPriority, Rosterable, Valued
<1>4. /\ Eligible("FLEX") = {"RB", "WR", "TE"} /\ FillPriority("FLEX") = 2
      /\ Eligible("REC_FLEX") = {"WR", "TE"} /\ FillPriority("REC_FLEX") = 1
      /\ Eligible("WRRB_FLEX") = {"WR", "RB"} /\ FillPriority("WRRB_FLEX") = 1
      /\ Eligible("SUPER_FLEX") = {"QB", "RB", "WR", "TE"} /\ FillPriority("SUPER_FLEX") = 3
  BY DEF Eligible, FillPriority, Rosterable, Valued
<1>5. CASE t \in Rosterable
  BY <1>3, <1>5
<1>6. CASE s \in Rosterable /\ t \notin Rosterable
  BY <1>2, <1>3, <1>4, <1>6
<1>7. CASE s \notin Rosterable /\ t \notin Rosterable
  <2>1. /\ s \in {"FLEX", "REC_FLEX", "WRRB_FLEX", "SUPER_FLEX"}
        /\ t \in {"FLEX", "REC_FLEX", "WRRB_FLEX", "SUPER_FLEX"}
    BY <1>2, <1>7
  <2>2. "RB" \notin {"WR", "TE"} /\ "TE" \notin {"WR", "RB"} /\ "QB" \notin {"RB", "WR", "TE"}
        /\ "QB" \notin {"WR", "TE"} /\ "QB" \notin {"WR", "RB"}
    OBVIOUS
  <2> QED
    BY <1>4, <2>1, <2>2
<1> QED
  BY <1>5, <1>6, <1>7

\* Where no two slots overlap, this fills the innermost first.
LEMMA NestedIsInnermost ==
    ASSUME NEW some \in Lineups,
           \A m, n \in DOMAIN some :
              /\ IsStarting(some[m]) /\ IsStarting(some[n])
              /\ Eligible(some[m]) \cap Eligible(some[n]) # {}
              => \/ Eligible(some[m]) \subseteq Eligible(some[n])
                 \/ Eligible(some[n]) \subseteq Eligible(some[m])
    PROVE  Innermost(MaySlots(some), Cardinality(Starting(some)))
<1> DEFINE N == Cardinality(Starting(some))
           b == FillPlaces(some)
           may == MaySlots(some)
<1>1. /\ N \in Nat /\ b \in [1..N -> Starting(some)]
      /\ \A i, j \in 1..N : i < j => FillsBefore(some, b[i], b[j])
  <2>1. b \in Bijection(1..N, Starting(some))
    BY SlotsInOrder
  <2>2. b \in [1..N -> Starting(some)]
    <3> HIDE DEF N, b
    <3> QED
      BY <2>1, Zenon DEF Bijection, Injection
  <2> QED
    BY <2>2, SlotsInOrder
<1>2. \A k \in 1..N : may[k] = Eligible(some[b[k]])
  BY DEF MaySlots
<1> HIDE DEF N, b, may
<1>3. ASSUME NEW i \in 1..N, NEW j \in 1..N, i < j, may[i] \cap may[j] # {}
      PROVE  may[i] \subseteq may[j]
  <2> DEFINE s == some[b[i]]
             t == some[b[j]]
  <2>1. b[i] \in DOMAIN some /\ b[j] \in DOMAIN some /\ IsStarting(s) /\ IsStarting(t)
    <3>1. b[i] \in Starting(some) /\ b[j] \in Starting(some)
      BY <1>1
    <3> QED
      BY <3>1 DEF Starting
  <2>2. Eligible(s) \cap Eligible(t) # {}
    BY <1>2, <1>3
  <2>3. Eligible(s) \subseteq Eligible(t) \/ Eligible(t) \subseteq Eligible(s)
    BY <2>1, <2>2
  <2>4. FillPriority(s) <= FillPriority(t)
    <3>1. FillsBefore(some, b[i], b[j])
      BY <1>1, <1>3
    <3>2. FillPriority(s) \in Int /\ FillPriority(t) \in Int
      BY DEF FillPriority
    <3> HIDE DEF s, t
    <3> QED
      BY <3>1, <3>2 DEF FillsBefore, s, t
  <2>5. ~(FillPriority(t) < FillPriority(s))
    <3>1. FillPriority(s) \in Int /\ FillPriority(t) \in Int
      BY DEF FillPriority
    <3> QED
      BY <2>4, <3>1
  <2>6. Eligible(s) \subseteq Eligible(t)
    <3> HIDE DEF s, t
    <3> SUFFICES ASSUME Eligible(t) \subseteq Eligible(s), Eligible(t) # Eligible(s)
                 PROVE  FALSE
      BY <2>3
    <3>1. Eligible(t) # {}
      BY <2>2
    <3> QED
      BY <2>1, <2>5, <3>1, Restrictive
  <2> QED
    BY <1>2, <2>6
<1> QED
  BY <1>3 DEF Innermost, N, may

-----------------------------------------------------------------------------
(* The engine's fill is a run *)

\* How many of a set of players are of each position.
Counts(drafted, S) == [q \in Rosterable |-> Cardinality({n \in S : drafted[n] = q})]

\* What one slot does to the counts of those who are left.
TakesOne(drafted, order, slot, S) ==
    LET able  == {n \in S : drafted[n] \in Eligible(slot)}
        count == Counts(drafted, S)
    IN  /\ count \in [Rosterable -> Nat]
        /\ able = {} <=> \A p \in Eligible(slot) : count[p] = 0
        /\ able # {} => \E n \in able : drafted[n] = Consumed(slot, count, order)
        /\ \A n \in S : Counts(drafted, S \ {n}) = [count EXCEPT ![drafted[n]] = @ - 1]

\* A slot that takes one of a position leaves one less of it, and one that is left open
\* is for positions nobody is left of.
LEMMA SlotTakesOne ==
    ASSUME NEW drafted, IsFiniteSet(DOMAIN drafted),
           \A n \in DOMAIN drafted : drafted[n] \in Rosterable,
           NEW order \in [Rosterable -> Int], NEW slot, NEW S \in SUBSET DOMAIN drafted
    PROVE  TakesOne(drafted, order, slot, S)
<1> DEFINE able  == {n \in S : drafted[n] \in Eligible(slot)}
           count == Counts(drafted, S)
           OfPosition(q) == {n \in S : drafted[n] = q}
<1>1. IsFiniteSet(S) /\ \A q : IsFiniteSet(OfPosition(q)) /\ Cardinality(OfPosition(q)) \in Nat
  <2>1. IsFiniteSet(S)
    BY FS_Subset
  <2>2. \A q : OfPosition(q) \subseteq S
    OBVIOUS
  <2> HIDE DEF OfPosition
  <2> QED
    BY <2>1, <2>2, FS_Subset, FS_CardinalityType
<1>2. Eligible(slot) \subseteq Rosterable
  BY DEF Eligible, Rosterable, Valued
<1>3. \A q \in Rosterable : count[q] = Cardinality(OfPosition(q))
  BY DEF Counts
<1>4. count \in [Rosterable -> Nat]
  <2> HIDE DEF OfPosition
  <2>1. count = [q \in Rosterable |-> count[q]]
    BY DEF Counts
  <2> HIDE DEF count
  <2> QED
    BY <1>1, <1>3, <2>1
<1>5. \A q \in Rosterable : count[q] = 0 <=> OfPosition(q) = {}
  <2> HIDE DEF OfPosition, count
  <2> QED
    BY <1>1, <1>3, FS_EmptySet
<1>6. able = {} <=> \A p \in Eligible(slot) : count[p] = 0
  <2> HIDE DEF count
  <2>1. able = {} <=> \A p \in Eligible(slot) : OfPosition(p) = {}
    OBVIOUS
  <2> HIDE DEF able, OfPosition
  <2> QED
    BY <1>2, <1>5, <2>1
<1>7. ASSUME able # {}
      PROVE  /\ Consumed(slot, count, order) \in Eligible(slot)
             /\ count[Consumed(slot, count, order)] > 0
             /\ \E n \in able : drafted[n] = Consumed(slot, count, order)
  <2>1. /\ Consumed(slot, count, order) \in Eligible(slot)
        /\ count[Consumed(slot, count, order)] > 0
    <3> HIDE DEF able, count
    <3> QED
      BY <1>4, <1>6, <1>7, ConsumedIsLeft
  <2> DEFINE q == Consumed(slot, count, order)
  <2> HIDE DEF q, count, able
  <2>2. q \in Eligible(slot) /\ count[q] > 0 /\ q \in Rosterable
    BY <1>2, <2>1 DEF q
  <2>3. OfPosition(q) # {}
    <3> HIDE DEF OfPosition
    <3> QED
      BY <1>5, <2>2
  <2>4. \E n \in able : drafted[n] = q
    BY <2>2, <2>3 DEF able
  <2> QED
    BY <2>1, <2>4 DEF q
<1>8. ASSUME NEW n \in S
      PROVE  Counts(drafted, S \ {n}) = [count EXCEPT ![drafted[n]] = @ - 1]
  <2> DEFINE less == Counts(drafted, S \ {n})
             After(q) == {m \in S \ {n} : drafted[m] = q}
  <2>1. \A q \in Rosterable : less[q] = Cardinality(After(q))
    BY DEF Counts
  <2>2. less = [q \in Rosterable |-> less[q]]
    BY DEF Counts
  <2>3. ASSUME NEW q \in Rosterable
        PROVE  less[q] = IF q = drafted[n] THEN count[q] - 1 ELSE count[q]
    <3>1. CASE q = drafted[n]
      <4>1. After(q) = OfPosition(q) \ {n} /\ n \in OfPosition(q)
        BY <3>1
      <4>2. Cardinality(After(q)) = Cardinality(OfPosition(q)) - 1
        <5> HIDE DEF After, OfPosition
        <5> QED
          BY <1>1, <4>1, FS_RemoveElement
      <4> QED
        BY <1>3, <2>1, <3>1, <4>2
    <3>2. CASE q # drafted[n]
      <4>1. After(q) = OfPosition(q)
        BY <3>2
      <4>2. Cardinality(After(q)) = Cardinality(OfPosition(q))
        BY <4>1
      <4> QED
        BY <1>3, <2>1, <3>2, <4>2
    <3> QED
      BY <3>1, <3>2
  <2> HIDE DEF less, count
  <2>4. drafted[n] \in Rosterable
    OBVIOUS
  <2>5. less = [count EXCEPT ![drafted[n]] = @ - 1]
    BY <1>4, <2>2, <2>3, <2>4
  <2> QED
    BY <2>5 DEF less
<1> HIDE DEF count, able
<1> QED
  BY <1>4, <1>6, <1>7, <1>8 DEF TakesOne, count, able

\* One slot of the engine's fill leaves counts and a list of slots.
LEMMA FillSlotIsTyped ==
    ASSUME NEW T, NEW before \in [left : [Rosterable -> Nat], unfilled : Seq(T)],
           NEW slot \in T, NEW order \in [Rosterable -> Int]
    PROVE  FillSlot(before, slot, order) \in [left : [Rosterable -> Nat], unfilled : Seq(T)]
<1>1. CASE \A p \in Eligible(slot) : before.left[p] = 0
  <2>1. FillSlot(before, slot, order) = [before EXCEPT !.unfilled = Append(@, slot)]
    BY <1>1 DEF FillSlot
  <2>2. Append(before.unfilled, slot) \in Seq(T)
    OBVIOUS
  <2> QED
    BY <2>1, <2>2
<1>2. CASE ~ \A p \in Eligible(slot) : before.left[p] = 0
  <2> DEFINE q == Consumed(slot, before.left, order)
  <2>1. q \in Eligible(slot) /\ before.left[q] > 0
    <3>1. before.left \in [Rosterable -> Nat]
      OBVIOUS
    <3> QED
      BY <1>2, <3>1, ConsumedIsLeft
  <2>2. q \in Rosterable
    BY <2>1 DEF Eligible, Rosterable, Valued
  <2>3. FillSlot(before, slot, order) = [before EXCEPT !.left[q] = @ - 1]
    BY <1>2 DEF FillSlot
  <2> HIDE DEF q
  <2>4. before.left \in [Rosterable -> Nat] /\ before.left[q] - 1 \in Nat
    BY <2>1, <2>2
  <2>5. [before.left EXCEPT ![q] = @ - 1] \in [Rosterable -> Nat]
    BY <2>4
  <2> QED
    BY <2>3, <2>5
<1> QED
  BY <1>1, <1>2

\* The steps of the engine's fill.
GoesThrough(some, drafted, order) ==
    LET N == Cardinality(Starting(some))
        slots == InFillOrder(some)
        T == {slots[j] : j \in 1..N}
    IN  \E step \in [0..N -> [left : [Rosterable -> Nat], unfilled : Seq(T)]] :
           /\ step[0] = [left |-> Counts(drafted, DOMAIN drafted), unfilled |-> <<>>]
           /\ \A n \in 1..N : step[n] = FillSlot(step[n - 1], slots[n], order)
           /\ Fill(some, drafted, order) = step[N]

\* The engine goes through the slots one by one.
LEMMA FillHasSteps ==
    ASSUME NEW some \in Lineups, NEW drafted, IsFiniteSet(DOMAIN drafted),
           NEW order \in [Rosterable -> Int]
    PROVE  GoesThrough(some, drafted, order)
<1> DEFINE N == Cardinality(Starting(some))
           slots == InFillOrder(some)
           T == {slots[j] : j \in 1..N}
           X == [left : [Rosterable -> Nat], unfilled : Seq(T)]
           first == [left |-> [p \in Rosterable |-> Held(drafted, p)], unfilled |-> <<>>]
           next == [p \in (1..N) \X X |-> FillSlot(p[2], slots[p[1]], order)]
<1>1. N \in Nat /\ Len(slots) = N
  BY SlotsInOrder
<1>2. first \in X /\ first.left = Counts(drafted, DOMAIN drafted)
  <2>1. \A p : Held(drafted, p) \in Nat
    BY FS_Subset, FS_CardinalityType DEF Held
  <2>2. <<>> \in Seq(T)
    OBVIOUS
  <2>3. first.left = Counts(drafted, DOMAIN drafted)
    BY DEF Held, Counts
  <2> HIDE DEF T
  <2> QED
    BY <2>1, <2>2, <2>3
<1>3. next \in [(1..N) \X X -> X]
  <2> SUFFICES ASSUME NEW k \in 1..N, NEW x \in X
               PROVE  FillSlot(x, slots[k], order) \in X
    OBVIOUS
  <2>1. slots[k] \in T
    OBVIOUS
  <2> HIDE DEF T
  <2> QED
    BY <2>1, FillSlotIsTyped
<1>4. \A k \in 1..N : \A x \in X : next[<<k, x>>] = FillSlot(x, slots[k], order)
  OBVIOUS
<1>5. PICK step \in [0..N -> X] :
         step[0] = first /\ \A n \in 1..N : step[n] = next[<<n, step[n - 1]>>]
  <2>1. N \in Nat /\ first \in X
    BY <1>1, <1>2
  <2> HIDE DEF N, X, first, next
  <2>2. HasSteps(N, X, first, next)
    BY <1>3, <2>1, RunExists
  <2> QED
    BY <2>2 DEF HasSteps
<1>6. \A n \in 1..N : step[n - 1] \in X
  <2>1. \A n \in 1..N : n - 1 \in 0..N
    BY <1>1
  <2> HIDE DEF N, X
  <2> QED
    BY <2>1
<1>7. \A n \in 1..N : step[n] = FillSlot(step[n - 1], slots[n], order)
  <2> HIDE DEF N, X, next, slots
  <2> QED
    BY <1>4, <1>5, <1>6
<1> HIDE DEF next, X, N, slots, first
<1> DEFINE Is(g) == g = [n \in 0..Len(slots) |->
                            IF n = 0 THEN first ELSE FillSlot(g[n - 1], slots[n], order)]
           run == CHOOSE g : Is(g)
<1>8. Is(step)
  <2>1. \A n \in 0..N : step[n] = IF n = 0 THEN first
                                  ELSE FillSlot(step[n - 1], slots[n], order)
    <3>1. \A n \in 0..N : n = 0 \/ n \in 1..N
      BY <1>1
    <3> QED
      BY <1>5, <1>7, <3>1
  <2> QED
    BY <1>1, <1>5, <2>1
<1>9. Is(run)
  <2> HIDE DEF Is
  <2> QED
    BY <1>8
<1>10. Fill(some, drafted, order) = run[Len(slots)]
  BY DEF Fill, first, slots
<1> HIDE DEF run
<1>11. \A n \in 0..N : run[n] = IF n = 0 THEN first ELSE FillSlot(run[n - 1], slots[n], order)
  BY <1>1, <1>9
<1>12. \A n \in 0..N : run[n] = step[n]
  <2> DEFINE S == {n \in 0..N : run[n] = step[n]}
  <2>1. 0 \in S
    BY <1>1, <1>5, <1>11
  <2>2. ASSUME NEW n \in 1..N, n - 1 \in S PROVE n \in S
    BY <1>1, <1>7, <1>11, <2>2
  <2> HIDE DEF S
  <2>3. 0..N \subseteq S
    BY <1>1, <2>1, <2>2, Along
  <2> QED
    BY <2>3 DEF S
<1>13. Fill(some, drafted, order) = step[N]
  BY <1>1, <1>10, <1>12
<1>14. step[0] = [left |-> Counts(drafted, DOMAIN drafted), unfilled |-> <<>>]
  BY <1>2, <1>5 DEF first
<1> QED
  BY <1>7, <1>13, <1>14 DEF GoesThrough, N, X, slots

\* The engine counts positions; players it could have counted make a run of the fill,
\* and the slots the run leaves open are those it reports.
LEMMA FillIsRun ==
    ASSUME NEW some \in Lineups, NEW drafted, IsFiniteSet(DOMAIN drafted),
           \A n \in DOMAIN drafted : drafted[n] \in Rosterable,
           NEW order \in [Rosterable -> Int]
    PROVE  LET N == Cardinality(Starting(some))
               may == MaySlots(some)
           IN  \E left : /\ IsRun(left, drafted, N, may)
                         /\ IsShown(Fill(some, drafted, order).unfilled,
                                    Filled(left, drafted, N, may), N, InFillOrder(some))
<1> DEFINE N == Cardinality(Starting(some))
           may == MaySlots(some)
           slots == InFillOrder(some)
           T == {slots[j] : j \in 1..N}
           D == DOMAIN drafted
           able(S, k) == {n \in S : drafted[n] \in may[k]}
           taken(S, k) == {n \in able(S, k) :
                              drafted[n] = Consumed(slots[k], Counts(drafted, S), order)}
           after(S, k) == IF able(S, k) = {} THEN S ELSE S \ {CHOOSE n \in taken(S, k) : TRUE}
           next == [p \in (1..N) \X SUBSET D |-> after(p[2], p[1])]
<1>1. N \in Nat
  BY SlotsInOrder
<1>2. \A k \in 1..N : may[k] = Eligible(slots[k])
  <2>1. slots = [k \in 1..N |-> some[FillPlaces(some)[k]]]
    BY SlotsInOrder
  <2> HIDE DEF slots
  <2> QED
    BY <2>1 DEF MaySlots
<1>3. PICK step : /\ step \in [0..N -> [left : [Rosterable -> Nat], unfilled : Seq(T)]]
                  /\ step[0] = [left |-> Counts(drafted, D), unfilled |-> <<>>]
                  /\ \A n \in 1..N : step[n] = FillSlot(step[n - 1], slots[n], order)
                  /\ Fill(some, drafted, order) = step[N]
  <2>1. \E step \in [0..N -> [left : [Rosterable -> Nat], unfilled : Seq(T)]] :
                  /\ step[0] = [left |-> Counts(drafted, D), unfilled |-> <<>>]
                  /\ \A n \in 1..N : step[n] = FillSlot(step[n - 1], slots[n], order)
                  /\ Fill(some, drafted, order) = step[N]
    <3>1. GoesThrough(some, drafted, order)
      BY FillHasSteps
    <3> QED
      BY <3>1 DEF GoesThrough
  <2> HIDE DEF N, T, D, slots
  <2> QED
    BY <2>1
<1> HIDE DEF N, may, slots, T
<1>4. \A S \in SUBSET D : \A k \in 1..N : after(S, k) \in SUBSET D
  <2> HIDE DEF taken, able
  <2> QED
    OBVIOUS
<1>5. HasSteps(N, SUBSET D, D, next)
  <2>1. next \in [(1..N) \X SUBSET D -> SUBSET D]
    <3> HIDE DEF after
    <3> QED
      BY <1>4
  <2>2. D \in SUBSET D
    OBVIOUS
  <2> HIDE DEF next, D
  <2> QED
    BY <1>1, <2>1, <2>2, RunExists
<1>6. PICK left \in [0..N -> SUBSET D] :
         left[0] = D /\ \A k \in 1..N : left[k] = after(left[k - 1], k)
  <2>1. PICK left \in [0..N -> SUBSET D] :
           left[0] = D /\ \A k \in 1..N : left[k] = next[<<k, left[k - 1]>>]
    <3> HIDE DEF next, D
    <3> QED
      BY <1>5 DEF HasSteps
  <2>2. ASSUME NEW k \in 1..N PROVE left[k] = after(left[k - 1], k)
    <3>1. k - 1 \in 0..N
      BY <1>1
    <3>2. left[k - 1] \in SUBSET D
      BY <3>1
    <3>3. next[<<k, left[k - 1]>>] = after(left[k - 1], k)
      <4> HIDE DEF after, D
      <4> QED
        BY <3>2
    <3> HIDE DEF after, next
    <3> QED
      BY <2>1, <3>3
  <2> HIDE DEF after, next, D
  <2> QED
    BY <2>1, <2>2
<1> HIDE DEF next
<1>7. ASSUME NEW k \in 1..N, step[k - 1].left = Counts(drafted, left[k - 1])
      PROVE  /\ able(left[k - 1], k) = {} => left[k] = left[k - 1]
             /\ able(left[k - 1], k) # {} =>
                   \E n \in able(left[k - 1], k) : left[k] = left[k - 1] \ {n}
             /\ step[k].left = Counts(drafted, left[k])
             /\ step[k].unfilled = IF able(left[k - 1], k) # {} THEN step[k - 1].unfilled
                                   ELSE Append(step[k - 1].unfilled, slots[k])
  <2> DEFINE S == left[k - 1]
             count == Counts(drafted, S)
             q == Consumed(slots[k], count, order)
  <2>1. k - 1 \in 0..N /\ k \in 0..N /\ S \in SUBSET D
    BY <1>1, <1>6
  <2>2. able(S, k) = {n \in S : drafted[n] \in Eligible(slots[k])}
    BY <1>2
  <2>3. /\ count \in [Rosterable -> Nat]
        /\ able(S, k) = {} <=> \A p \in Eligible(slots[k]) : count[p] = 0
        /\ able(S, k) # {} => \E n \in able(S, k) : drafted[n] = q
        /\ \A n \in S : Counts(drafted, S \ {n}) = [count EXCEPT ![drafted[n]] = @ - 1]
    <3>1. S \in SUBSET DOMAIN drafted
      BY <2>1
    <3>2. TakesOne(drafted, order, slots[k], S)
      <4> HIDE DEF S
      <4> QED
        BY <3>1, SlotTakesOne
    <3> HIDE DEF S, able
    <3> QED
      BY <2>2, <3>2 DEF TakesOne
  <2>4. /\ step[k] = FillSlot(step[k - 1], slots[k], order)
        /\ step[k - 1] \in [left : [Rosterable -> Nat], unfilled : Seq(T)]
        /\ step[k - 1].left = count
        /\ left[k] = after(S, k)
    <3> HIDE DEF after
    <3> QED
      BY <1>3, <1>6, <1>7, <2>1
  <2>5. CASE able(S, k) = {}
    <3>1. step[k] = [step[k - 1] EXCEPT !.unfilled = Append(@, slots[k])]
      <4> HIDE DEF able, count
      <4> QED
        BY <2>3, <2>4, <2>5 DEF FillSlot
    <3>2. left[k] = S
      <4> HIDE DEF able, S
      <4> QED
        BY <2>4, <2>5
    <3>3. /\ step[k].left = step[k - 1].left
          /\ step[k].unfilled = Append(step[k - 1].unfilled, slots[k])
      BY <2>4, <3>1
    <3>4. step[k].left = Counts(drafted, left[k])
      <4> HIDE DEF able
      <4> QED
        BY <2>4, <3>2, <3>3
    <3> HIDE DEF able, count
    <3> QED
      BY <2>5, <3>2, <3>3, <3>4
  <2>6. CASE able(S, k) # {}
    <3>1. step[k] = [step[k - 1] EXCEPT !.left[q] = @ - 1]
      <4> HIDE DEF able, count
      <4>1. ~ \A p \in Eligible(slots[k]) : step[k - 1].left[p] = 0
        BY <2>3, <2>4, <2>6
      <4> QED
        BY <2>4, <4>1 DEF FillSlot
    <3>2. taken(S, k) # {}
      <4>1. taken(S, k) = {n \in able(S, k) : drafted[n] = q}
        OBVIOUS
      <4> HIDE DEF able, taken, q, S
      <4> QED
        BY <2>3, <2>6, <4>1
    <3> DEFINE n == CHOOSE m \in taken(S, k) : TRUE
    <3>3. n \in taken(S, k) /\ left[k] = S \ {n}
      <4> HIDE DEF taken, able, S
      <4> QED
        BY <2>4, <2>6, <3>2
    <3> HIDE DEF n
    <3>4. n \in able(S, k) /\ drafted[n] = q /\ n \in S
      BY <3>3
    <3>5. Counts(drafted, left[k]) = [count EXCEPT ![q] = @ - 1]
      <4> HIDE DEF able, taken, q, count, S
      <4> QED
        BY <2>3, <3>3, <3>4
    <3>6. /\ step[k].left = [step[k - 1].left EXCEPT ![q] = @ - 1]
          /\ step[k].unfilled = step[k - 1].unfilled
      <4> HIDE DEF q
      <4> QED
        BY <2>4, <3>1
    <3>7. step[k].left = Counts(drafted, left[k])
      <4> HIDE DEF able, q, count
      <4> QED
        BY <2>4, <3>5, <3>6
    <3> HIDE DEF able, count, taken
    <3> QED
      BY <2>6, <3>3, <3>4, <3>6, <3>7
  <2> QED
    BY <2>5, <2>6
<1> HIDE DEF after, able, taken
<1>8. \A k \in 0..N : step[k].left = Counts(drafted, left[k])
  <2> DEFINE A == {k \in 0..N : step[k].left = Counts(drafted, left[k])}
  <2>1. 0 \in A
    BY <1>1, <1>3, <1>6
  <2>2. ASSUME NEW k \in 1..N, k - 1 \in A PROVE k \in A
    BY <1>1, <1>7, <2>2
  <2> HIDE DEF A
  <2>3. 0..N \subseteq A
    BY <1>1, <2>1, <2>2, Along
  <2> QED
    BY <2>3 DEF A
<1>9. \A k \in 1..N : step[k - 1].left = Counts(drafted, left[k - 1])
  <2>1. \A k \in 1..N : k - 1 \in 0..N
    BY <1>1
  <2> QED
    BY <1>8, <2>1
<1>10. IsRun(left, drafted, N, may)
  <2>1. ASSUME NEW k \in 1..N
        PROVE  LET able_k == {n \in left[k - 1] : drafted[n] \in may[k]}
               IN  IF able_k = {} THEN left[k] = left[k - 1]
                   ELSE \E n \in able_k : left[k] = left[k - 1] \ {n}
    <3>1. able(left[k - 1], k) = {n \in left[k - 1] : drafted[n] \in may[k]}
      BY DEF able
    <3> QED
      BY <1>7, <1>9, <3>1
  <2> QED
    BY <1>6, <2>1 DEF IsRun, D
<1>11. \A k \in 1..N : k \in Filled(left, drafted, N, may) <=> able(left[k - 1], k) # {}
  BY DEF Filled, able
<1> DEFINE shown == [k \in 0..N |-> step[k].unfilled]
<1>12. IsShown(step[N].unfilled, Filled(left, drafted, N, may), N, slots)
  <2>1. DOMAIN shown = 0..N /\ shown[0] = <<>> /\ shown[N] = step[N].unfilled
    BY <1>1, <1>3
  <2>2. ASSUME NEW k \in 1..N
        PROVE  /\ shown[k] \in Seq({slots[j] : j \in 1..N})
               /\ shown[k] = IF k \in Filled(left, drafted, N, may) THEN shown[k - 1]
                             ELSE Append(shown[k - 1], slots[k])
    <3>1. k \in 0..N /\ k - 1 \in 0..N
      BY <1>1
    <3>2. shown[k] = step[k].unfilled /\ shown[k - 1] = step[k - 1].unfilled
      BY <3>1
    <3>3. step[k].unfilled \in Seq(T)
      BY <1>3, <3>1
    <3> HIDE DEF shown
    <3>4. shown[k] \in Seq({slots[j] : j \in 1..N})
      BY <3>2, <3>3 DEF T
    <3> QED
      BY <1>7, <1>9, <1>11, <3>2, <3>4
  <2> HIDE DEF shown
  <2> QED
    BY <2>1, <2>2 DEF IsShown
<1> QED
  BY <1>3, <1>10, <1>12 DEF N, may, slots

-----------------------------------------------------------------------------
(* The lineup a client is shown is a run *)

\* Players some slot can be filled with: one of them is the best, the first of equals.
LEMMA SomeoneIsBest ==
    ASSUME NEW able, IsFiniteSet(able), able # {}, able \in SUBSET Int,
           NEW worth \in [able -> Int]
    PROVE  \E n \in able : \A m \in able :
              ~(worth[m] > worth[n] \/ (worth[m] = worth[n] /\ m < n))
<1>1. PICK x \in able : \A y \in able : worth[y] <= worth[x]
  BY SomeoneHasMost
<1> DEFINE most == {y \in able : worth[y] = worth[x]}
           minus == [y \in most |-> -y]
<1>2. most # {} /\ IsFiniteSet(most) /\ most \subseteq able
  BY FS_Subset
<1>3. minus \in [most -> Int]
  <2> HIDE DEF most
  <2>1. \A y \in most : y \in Int /\ -y \in Int
    BY <1>2
  <2> QED
    BY <2>1
<1>4. PICK n \in most : \A m \in most : minus[m] <= minus[n]
  <2> HIDE DEF most, minus
  <2> QED
    BY <1>2, <1>3, SomeoneHasMost
<1>5. \A m \in most : ~(m < n)
  <2>1. \A m \in most : m \in Int /\ minus[m] = -m
    BY <1>2
  <2> HIDE DEF minus
  <2> QED
    BY <1>4, <2>1
<1>6. \A m \in able : worth[m] \in Int /\ worth[n] = worth[x] /\ worth[x] \in Int
  BY <1>2
<1>7. \A m \in able : ~(worth[m] > worth[n])
  BY <1>1, <1>6
<1>8. \A m \in able : worth[m] = worth[n] => m \in most
  BY <1>6
<1> QED
  BY <1>2, <1>5, <1>7, <1>8

\* What one slot of the lineup does to the players who are left.
SeatsOne(roster, slot, before) ==
    LET able == {n \in before.left : roster[n].position \in Eligible(slot)}
        after == SeatSlot(before, slot, roster)
    IN  /\ able = {} => after = [before EXCEPT !.unfilled = Append(@, slot)]
        /\ able # {} => \E n \in able : after = [before EXCEPT !.left = @ \ {n}]

\* A slot of the lineup takes one of the players left whom it may take, if there is one.
LEMMA SlotSeatsOne ==
    ASSUME NEW roster, IsFiniteSet(DOMAIN roster), DOMAIN roster \subseteq Int,
           \A n \in DOMAIN roster : IsPlayer(roster[n]),
           NEW slot, NEW before, before.left \in SUBSET DOMAIN roster
    PROVE  SeatsOne(roster, slot, before)
<1> DEFINE able == {n \in before.left : roster[n].position \in Eligible(slot)}
           Worth(n) == IF HasProjection(roster[n]) THEN roster[n].projected ELSE 0
           Before(m, n) == Worth(m) > Worth(n) \/ (Worth(m) = Worth(n) /\ m < n)
           best == CHOOSE n \in able : \A m \in able : ~Before(m, n)
           worth == [n \in able |-> Worth(n)]
<1>1. able \subseteq DOMAIN roster /\ IsFiniteSet(able) /\ able \in SUBSET Int
  <2>1. able \subseteq DOMAIN roster
    OBVIOUS
  <2> HIDE DEF able
  <2> QED
    BY <2>1, FS_Subset
<1>2. \A n \in able : Worth(n) \in Int
  <2> HIDE DEF able
  <2> SUFFICES ASSUME NEW n \in able PROVE Worth(n) \in Int
    OBVIOUS
  <2>1. IsPlayer(roster[n])
    BY <1>1
  <2> QED
    BY <2>1 DEF IsPlayer, HasProjection
<1>3. worth \in [able -> Int] /\ \A n \in able : worth[n] = Worth(n)
  <2> HIDE DEF able, Worth
  <2> QED
    BY <1>2
<1>4. ASSUME able # {} PROVE best \in able
  <2>1. \E n \in able : \A m \in able :
           ~(worth[m] > worth[n] \/ (worth[m] = worth[n] /\ m < n))
    <3> HIDE DEF able, worth
    <3> QED
      BY <1>1, <1>3, <1>4, SomeoneIsBest
  <2>2. \E n \in able : \A m \in able : ~Before(m, n)
    <3> HIDE DEF able, worth, Worth
    <3> QED
      BY <1>3, <2>1
  <2> HIDE DEF Before, able
  <2> QED
    BY <2>2
<1>5. SeatSlot(before, slot, roster)
         = IF able = {} THEN [before EXCEPT !.unfilled = Append(@, slot)]
           ELSE [before EXCEPT !.left = @ \ {best}]
  BY DEF SeatSlot
<1> HIDE DEF best, able
<1> QED
  BY <1>4, <1>5 DEF SeatsOne, able

\* What filling a lineup with players makes: the players left and the slots open.
Seating(D, T) == [left : SUBSET D, unfilled : Seq(T)]

\* One slot of the lineup leaves players and a list of slots.
LEMMA SeatSlotIsTyped ==
    ASSUME NEW roster, IsFiniteSet(DOMAIN roster), DOMAIN roster \subseteq Int,
           \A n \in DOMAIN roster : IsPlayer(roster[n]),
           NEW T, NEW slot \in T, NEW before \in Seating(DOMAIN roster, T)
    PROVE  SeatSlot(before, slot, roster) \in Seating(DOMAIN roster, T)
<1> DEFINE D == DOMAIN roster
           able == {n \in before.left : roster[n].position \in Eligible(slot)}
           after == SeatSlot(before, slot, roster)
<1>1. before.left \in SUBSET D /\ before.unfilled \in Seq(T)
  BY DEF Seating
<1>2. /\ able = {} => after = [before EXCEPT !.unfilled = Append(@, slot)]
      /\ able # {} => \E n \in able : after = [before EXCEPT !.left = @ \ {n}]
  <2>1. SeatsOne(roster, slot, before)
    BY <1>1, SlotSeatsOne
  <2> QED
    BY <2>1 DEF SeatsOne
<1> HIDE DEF able, after, D
<1>3. CASE able = {}
  <2>1. Append(before.unfilled, slot) \in Seq(T)
    BY <1>1
  <2> QED
    BY <1>1, <1>2, <1>3, <2>1 DEF Seating, after, D
<1>4. CASE able # {}
  <2>1. PICK n \in able : after = [before EXCEPT !.left = @ \ {n}]
    BY <1>2, <1>4
  <2>2. before.left \ {n} \in SUBSET D
    BY <1>1
  <2> QED
    BY <1>1, <2>1, <2>2 DEF Seating, after, D
<1> QED
  BY <1>3, <1>4

\* The steps of filling a lineup with players.
SeatsThrough(some, roster) ==
    LET N == Cardinality(Starting(some))
        slots == InFillOrder(some)
        T == {slots[j] : j \in 1..N}
    IN  \E step \in [0..N -> Seating(DOMAIN roster, T)] :
           /\ step[0] = [left |-> DOMAIN roster, unfilled |-> <<>>]
           /\ \A n \in 1..N : step[n] = SeatSlot(step[n - 1], slots[n], roster)
           /\ Arranged(some, roster) = step[N]

\* The lineup is filled slot by slot.
LEMMA RosterHasSteps ==
    ASSUME NEW some \in Lineups, NEW roster, IsFiniteSet(DOMAIN roster),
           DOMAIN roster \subseteq Int, \A n \in DOMAIN roster : IsPlayer(roster[n])
    PROVE  SeatsThrough(some, roster)
<1> DEFINE N == Cardinality(Starting(some))
           slots == InFillOrder(some)
           T == {slots[j] : j \in 1..N}
           X == Seating(DOMAIN roster, T)
           first == [left |-> DOMAIN roster, unfilled |-> <<>>]
           next == [p \in (1..N) \X X |-> SeatSlot(p[2], slots[p[1]], roster)]
<1>1. N \in Nat /\ Len(slots) = N
  BY SlotsInOrder
<1>2. first \in X
  <2>1. <<>> \in Seq(T)
    OBVIOUS
  <2> HIDE DEF T
  <2> QED
    BY <2>1 DEF Seating
<1>3. next \in [(1..N) \X X -> X]
  <2> SUFFICES ASSUME NEW k \in 1..N, NEW x \in X
               PROVE  SeatSlot(x, slots[k], roster) \in X
    OBVIOUS
  <2>1. slots[k] \in T
    OBVIOUS
  <2> HIDE DEF T
  <2> QED
    BY <2>1, SeatSlotIsTyped
<1>4. \A k \in 1..N : \A x \in X : next[<<k, x>>] = SeatSlot(x, slots[k], roster)
  OBVIOUS
<1>5. PICK step \in [0..N -> X] :
         step[0] = first /\ \A n \in 1..N : step[n] = next[<<n, step[n - 1]>>]
  <2>1. N \in Nat /\ first \in X
    BY <1>1, <1>2
  <2> HIDE DEF N, X, first, next
  <2>2. HasSteps(N, X, first, next)
    BY <1>3, <2>1, RunExists
  <2> QED
    BY <2>2 DEF HasSteps
<1>6. \A n \in 1..N : step[n - 1] \in X
  <2>1. \A n \in 1..N : n - 1 \in 0..N
    BY <1>1
  <2> HIDE DEF N, X
  <2> QED
    BY <2>1
<1>7. \A n \in 1..N : step[n] = SeatSlot(step[n - 1], slots[n], roster)
  <2> HIDE DEF N, X, next, slots
  <2> QED
    BY <1>4, <1>5, <1>6
<1> HIDE DEF next, X, N, slots, first
<1> DEFINE Is(g) == g = [n \in 0..Len(slots) |->
                            IF n = 0 THEN first ELSE SeatSlot(g[n - 1], slots[n], roster)]
           run == CHOOSE g : Is(g)
<1>8. Is(step)
  <2>1. \A n \in 0..N : step[n] = IF n = 0 THEN first
                                  ELSE SeatSlot(step[n - 1], slots[n], roster)
    <3>1. \A n \in 0..N : n = 0 \/ n \in 1..N
      BY <1>1
    <3> QED
      BY <1>5, <1>7, <3>1
  <2> QED
    BY <1>1, <1>5, <2>1
<1>9. Is(run)
  <2> HIDE DEF Is
  <2> QED
    BY <1>8
<1>10. Arranged(some, roster) = run[Len(slots)]
  BY DEF Arranged, first, slots
<1> HIDE DEF run
<1>11. \A n \in 0..N : run[n] = IF n = 0 THEN first ELSE SeatSlot(run[n - 1], slots[n], roster)
  BY <1>1, <1>9
<1>12. \A n \in 0..N : run[n] = step[n]
  <2> DEFINE S == {n \in 0..N : run[n] = step[n]}
  <2>1. 0 \in S
    BY <1>1, <1>5, <1>11
  <2>2. ASSUME NEW n \in 1..N, n - 1 \in S PROVE n \in S
    BY <1>1, <1>7, <1>11, <2>2
  <2> HIDE DEF S
  <2>3. 0..N \subseteq S
    BY <1>1, <2>1, <2>2, Along
  <2> QED
    BY <2>3 DEF S
<1>13. Arranged(some, roster) = step[N]
  BY <1>1, <1>10, <1>12
<1>14. step[0] = [left |-> DOMAIN roster, unfilled |-> <<>>]
  BY <1>5 DEF first
<1> QED
  BY <1>7, <1>13, <1>14 DEF SeatsThrough, N, X, slots

\* The players seated are a run of the fill, and the slots it leaves open those shown.
LEMMA ArrangedIsRun ==
    ASSUME NEW some \in Lineups, NEW roster, IsFiniteSet(DOMAIN roster),
           DOMAIN roster \subseteq Int, \A n \in DOMAIN roster : IsPlayer(roster[n])
    PROVE  LET N == Cardinality(Starting(some))
               may == MaySlots(some)
           IN  \E left : /\ IsRun(left, Positions(roster), N, may)
                         /\ IsShown(Arranged(some, roster).unfilled,
                                    Filled(left, Positions(roster), N, may), N,
                                    InFillOrder(some))
<1> DEFINE N == Cardinality(Starting(some))
           may == MaySlots(some)
           slots == InFillOrder(some)
           T == {slots[j] : j \in 1..N}
           D == DOMAIN roster
           at == Positions(roster)
           able(S, k) == {n \in S : at[n] \in may[k]}
<1>1. N \in Nat
  BY SlotsInOrder
<1>2. /\ DOMAIN at = D /\ \A n \in D : at[n] = roster[n].position
      /\ \A k \in 1..N : may[k] = Eligible(slots[k])
  <2>1. slots = [k \in 1..N |-> some[FillPlaces(some)[k]]]
    BY SlotsInOrder
  <2>2. DOMAIN at = D /\ \A n \in D : at[n] = roster[n].position
    BY DEF Positions
  <2> HIDE DEF slots, at
  <2> QED
    BY <2>1, <2>2 DEF MaySlots
<1>3. PICK step : /\ step \in [0..N -> Seating(D, T)]
                  /\ step[0] = [left |-> D, unfilled |-> <<>>]
                  /\ \A n \in 1..N : step[n] = SeatSlot(step[n - 1], slots[n], roster)
                  /\ Arranged(some, roster) = step[N]
  <2>1. \E step \in [0..N -> Seating(D, T)] :
                  /\ step[0] = [left |-> D, unfilled |-> <<>>]
                  /\ \A n \in 1..N : step[n] = SeatSlot(step[n - 1], slots[n], roster)
                  /\ Arranged(some, roster) = step[N]
    <3>1. SeatsThrough(some, roster)
      BY RosterHasSteps
    <3> QED
      BY <3>1 DEF SeatsThrough
  <2> HIDE DEF N, T, D, slots
  <2> QED
    BY <2>1
<1> HIDE DEF N, may, slots, T, at
<1>4. \A k \in 0..N : step[k].left \in SUBSET D /\ step[k].unfilled \in Seq(T)
  <2> SUFFICES ASSUME NEW k \in 0..N
               PROVE  step[k].left \in SUBSET D /\ step[k].unfilled \in Seq(T)
    OBVIOUS
  <2>1. step[k] \in Seating(D, T)
    BY <1>3
  <2> QED
    BY <2>1 DEF Seating
<1>5. ASSUME NEW k \in 1..N
      PROVE  /\ able(step[k - 1].left, k) = {} => step[k].left = step[k - 1].left
             /\ able(step[k - 1].left, k) # {} =>
                   \E n \in able(step[k - 1].left, k) : step[k].left = step[k - 1].left \ {n}
             /\ step[k].unfilled = IF able(step[k - 1].left, k) # {} THEN step[k - 1].unfilled
                                   ELSE Append(step[k - 1].unfilled, slots[k])
  <2>1. k - 1 \in 0..N /\ step[k - 1].left \in SUBSET D /\ step[k - 1] \in Seating(D, T)
    <3>1. k - 1 \in 0..N
      BY <1>1
    <3> QED
      BY <1>3, <1>4, <3>1
  <2>2. able(step[k - 1].left, k)
           = {n \in step[k - 1].left : roster[n].position \in Eligible(slots[k])}
    BY <1>2, <2>1
  <2> DEFINE A == {n \in step[k - 1].left : roster[n].position \in Eligible(slots[k])}
  <2>3. /\ A = {} => step[k] = [step[k - 1] EXCEPT !.unfilled = Append(@, slots[k])]
        /\ A # {} => \E n \in A : step[k] = [step[k - 1] EXCEPT !.left = @ \ {n}]
    <3>1. SeatsOne(roster, slots[k], step[k - 1])
      BY <2>1, SlotSeatsOne
    <3>2. step[k] = SeatSlot(step[k - 1], slots[k], roster)
      BY <1>3
    <3> QED
      BY <3>1, <3>2 DEF SeatsOne
  <2> HIDE DEF A
  <2>4. CASE A = {}
    <3>1. /\ step[k].left = step[k - 1].left
          /\ step[k].unfilled = Append(step[k - 1].unfilled, slots[k])
      BY <2>1, <2>3, <2>4 DEF Seating
    <3> HIDE DEF able
    <3> QED
      BY <2>2, <2>4, <3>1 DEF A
  <2>5. CASE A # {}
    <3>1. PICK n \in A : step[k] = [step[k - 1] EXCEPT !.left = @ \ {n}]
      BY <2>3, <2>5
    <3>2. /\ step[k].left = step[k - 1].left \ {n}
          /\ step[k].unfilled = step[k - 1].unfilled
      BY <2>1, <3>1 DEF Seating
    <3>3. able(step[k - 1].left, k) = A
      BY <2>2 DEF A
    <3> HIDE DEF able
    <3> QED
      BY <2>5, <3>1, <3>2, <3>3
  <2> QED
    BY <2>4, <2>5
<1> DEFINE left == [k \in 0..N |-> step[k].left]
           shown == [k \in 0..N |-> step[k].unfilled]
<1>6. \A k \in 0..N : left[k] = step[k].left /\ shown[k] = step[k].unfilled
  OBVIOUS
<1>7. \A k \in 1..N : k \in 0..N /\ k - 1 \in 0..N
  BY <1>1
<1>8. IsRun(left, at, N, may)
  <2>1. left \in [0..N -> SUBSET DOMAIN at] /\ left[0] = DOMAIN at
    <3>1. left[0] = D
      BY <1>1, <1>3
    <3> HIDE DEF D
    <3> QED
      BY <1>2, <1>4, <3>1
  <2> HIDE DEF left, shown
  <2>2. ASSUME NEW k \in 1..N
        PROVE  LET able_k == {n \in left[k - 1] : at[n] \in may[k]}
               IN  IF able_k = {} THEN left[k] = left[k - 1]
                   ELSE \E n \in able_k : left[k] = left[k - 1] \ {n}
    <3>1. left[k] = step[k].left /\ left[k - 1] = step[k - 1].left
      BY <1>6, <1>7
    <3>2. able(step[k - 1].left, k) = {n \in left[k - 1] : at[n] \in may[k]}
      BY <3>1
    <3> HIDE DEF able
    <3> QED
      BY <1>5, <3>1, <3>2
  <2> QED
    BY <2>1, <2>2 DEF IsRun
<1>9. \A k \in 1..N : k \in Filled(left, at, N, may) <=> able(step[k - 1].left, k) # {}
  <2>1. \A k \in 1..N : left[k - 1] = step[k - 1].left
    BY <1>6, <1>7
  <2> HIDE DEF left
  <2> QED
    BY <2>1 DEF Filled
<1>10. IsShown(step[N].unfilled, Filled(left, at, N, may), N, slots)
  <2>1. DOMAIN shown = 0..N /\ shown[0] = <<>> /\ shown[N] = step[N].unfilled
    BY <1>1, <1>3
  <2> HIDE DEF left, shown, able
  <2>2. ASSUME NEW k \in 1..N
        PROVE  /\ shown[k] \in Seq({slots[j] : j \in 1..N})
               /\ shown[k] = IF k \in Filled(left, at, N, may) THEN shown[k - 1]
                             ELSE Append(shown[k - 1], slots[k])
    <3>1. shown[k] = step[k].unfilled /\ shown[k - 1] = step[k - 1].unfilled
      BY <1>6, <1>7
    <3>2. step[k].unfilled \in Seq(T)
      BY <1>4, <1>7
    <3>3. shown[k] \in Seq({slots[j] : j \in 1..N})
      BY <3>1, <3>2 DEF T
    <3> QED
      BY <1>5, <1>9, <3>1, <3>3
  <2> QED
    BY <2>1, <2>2 DEF IsShown
<1> HIDE DEF left
<1> QED
  BY <1>3, <1>8, <1>10 DEF N, may, slots, at

-----------------------------------------------------------------------------
(* Nested slots *)

\* The property Overlapping denies, of any lineup.
Nested(some) ==
    \A m, n \in DOMAIN some :
       /\ IsStarting(some[m]) /\ IsStarting(some[n])
       /\ Eligible(some[m]) \cap Eligible(some[n]) # {}
       => \/ Eligible(some[m]) \subseteq Eligible(some[n])
          \/ Eligible(some[n]) \subseteq Eligible(some[m])

\* Where the slots are nested the engine's fill leaves open none the roster could cover.
LEMMA NestedFillsAll ==
    ASSUME NEW some \in Lineups, Nested(some), NEW drafted, IsFiniteSet(DOMAIN drafted),
           \A n \in DOMAIN drafted : drafted[n] \in Rosterable,
           NEW order \in [Rosterable -> Int]
    PROVE  FillsAll(some, drafted, order)
<1> DEFINE N == Cardinality(Starting(some))
           may == MaySlots(some)
           b == FillPlaces(some)
           Outside(P) == Cardinality({n \in DOMAIN drafted : drafted[n] \notin P})
           Reached(P) == {n \in Starting(some) : Eligible(some[n]) \cap P # {}}
           Met(P) == {k \in 1..N : may[k] \cap P # {}}
           Drafted == {drafted[n] : n \in DOMAIN drafted}
           V == {Outside(P) + Cardinality(Reached(P)) : P \in SUBSET Drafted}
<1>1. N \in Nat /\ b \in Bijection(1..N, Starting(some)) /\ IsFiniteSet(1..N)
  <2>1. N \in Nat /\ b \in Bijection(1..N, Starting(some))
    BY SlotsInOrder
  <2>2. 1 \in Int /\ N \in Int
    BY <2>1
  <2> QED
    BY <2>1, <2>2, FS_Interval
<1>2. Innermost(may, N)
  BY NestedIsInnermost DEF Nested
<1>3. PICK left : /\ IsRun(left, drafted, N, may)
                  /\ IsShown(Fill(some, drafted, order).unfilled,
                             Filled(left, drafted, N, may), N, InFillOrder(some))
  BY FillIsRun
<1> DEFINE F == Filled(left, drafted, N, may)
<1>4. Len(Fill(some, drafted, order).unfilled) = N - Cardinality(F)
  <2>1. F \in SUBSET (1..N)
    BY DEF Filled
  <2> HIDE DEF F, N
  <2> QED
    BY <1>1, <1>3, <2>1, ShownLength DEF F, N
<1>5. ASSUME NEW P
      PROVE  Outside(P) \in Nat /\ Cardinality(Met(P)) = Cardinality(Reached(P))
             /\ Cardinality(Met(P)) \in Nat
  <2>1. Outside(P) \in Nat
    BY FS_Subset, FS_CardinalityType
  <2>2. IsFiniteSet(Met(P)) /\ Cardinality(Met(P)) \in Nat
    <3>1. Met(P) \subseteq 1..N
      OBVIOUS
    <3> HIDE DEF Met
    <3> QED
      BY <1>1, <3>1, FS_Subset, FS_CardinalityType
  <2>3. /\ b \in [1..N -> Starting(some)]
        /\ \A i, j \in 1..N : b[i] = b[j] => i = j
        /\ \A x \in Starting(some) : \E k \in 1..N : b[k] = x
    <3> HIDE DEF N, b
    <3> QED
      BY <1>1, Zenon DEF Bijection, Injection, Surjection, IsInjective
  <2>4. \A k \in 1..N : may[k] = Eligible(some[b[k]])
    BY DEF MaySlots
  <2> HIDE DEF N, b, may
  <2> DEFINE f == [k \in Met(P) |-> b[k]]
  <2>5. f \in [Met(P) -> Reached(P)]
    BY <2>3, <2>4
  <2>6. \A i, j \in Met(P) : f[i] = f[j] => i = j
    BY <2>3
  <2>7. \A x \in Reached(P) : \E k \in Met(P) : f[k] = x
    BY <2>3, <2>4
  <2> HIDE DEF f, Met, Reached
  <2>8. f \in Bijection(Met(P), Reached(P))
    BY <2>5, <2>6, <2>7, Zenon DEF Bijection, Injection, Surjection, IsInjective
  <2>9. Cardinality(Met(P)) = Cardinality(Reached(P))
    <3>1. ExistsBijection(Met(P), Reached(P))
      BY <2>8 DEF ExistsBijection
    <3> QED
      BY <2>2, <3>1, FS_Bijection
  <2> QED
    BY <2>1, <2>2, <2>9
<1>6. \A P : Cardinality(F) <= Outside(P) + Cardinality(Met(P))
  <2> TAKE P
  <2> HIDE DEF N, may
  <2> QED
    BY <1>1, <1>3, NoFillIsLarger
<1>7. PICK P \in SUBSET Drafted : Cardinality(F) = Outside(P) + Cardinality(Met(P))
  <2>1. IsLargest(left, drafted, N, may)
    <3> HIDE DEF N, may
    <3> QED
      BY <1>1, <1>2, <1>3, NestedFillIsLargest
  <2> QED
    BY <2>1 DEF IsLargest
<1> HIDE DEF F, Met, Reached, Outside, Drafted
<1>8. V \in SUBSET Nat /\ Cardinality(F) \in V /\ \A v \in V : Cardinality(F) <= v
  BY <1>5, <1>6, <1>7
<1>9. Min(V) = Cardinality(F)
  <2> HIDE DEF V
  <2>1. Min(V) \in V /\ \A v \in V : Min(V) <= v
    BY <1>8, MinOfNaturals
  <2>2. Min(V) \in Nat /\ Cardinality(F) \in Nat
    BY <1>8, <2>1
  <2>3. Min(V) <= Cardinality(F) /\ Cardinality(F) <= Min(V)
    BY <1>8, <2>1
  <2> QED
    BY <2>2, <2>3
<1>10. Coverable(some, drafted) = Min(V)
  BY DEF Coverable, V, Outside, Reached, Drafted
<1> QED
  BY <1>4, <1>9, <1>10 DEF FillsAll

\* Nor does the lineup a client is shown have another hole.
LEMMA NestedFillsAgree ==
    ASSUME NEW some \in Lineups, Nested(some), NEW roster, IsFiniteSet(DOMAIN roster),
           DOMAIN roster \subseteq Int, \A n \in DOMAIN roster : IsPlayer(roster[n]),
           NEW order \in [Rosterable -> Int]
    PROVE  Arranged(some, roster).unfilled = Fill(some, Positions(roster), order).unfilled
<1> DEFINE N == Cardinality(Starting(some))
           may == MaySlots(some)
           at == Positions(roster)
<1>1. N \in Nat /\ Innermost(may, N)
  <2>1. N \in Nat
    BY SlotsInOrder
  <2> QED
    BY <2>1, NestedIsInnermost DEF Nested
<1>2. IsFiniteSet(DOMAIN at) /\ \A n \in DOMAIN at : at[n] \in Rosterable
  <2>1. DOMAIN at = DOMAIN roster /\ \A n \in DOMAIN roster : at[n] = roster[n].position
    BY DEF Positions
  <2>2. \A n \in DOMAIN roster : roster[n].position \in Rosterable
    BY DEF IsPlayer
  <2> HIDE DEF at
  <2> QED
    BY <2>1, <2>2
<1>3. PICK one : /\ IsRun(one, at, N, may)
                 /\ IsShown(Arranged(some, roster).unfilled, Filled(one, at, N, may), N,
                            InFillOrder(some))
  BY ArrangedIsRun
<1>4. PICK other : /\ IsRun(other, at, N, may)
                   /\ IsShown(Fill(some, at, order).unfilled, Filled(other, at, N, may), N,
                              InFillOrder(some))
  <2> HIDE DEF at
  <2> QED
    BY <1>2, FillIsRun
<1> HIDE DEF N, may, at
<1>5. Filled(one, at, N, may) = Filled(other, at, N, may)
  BY <1>1, <1>2, <1>3, <1>4, ChoiceDoesNotMatter
<1>6. Arranged(some, roster).unfilled = Fill(some, at, order).unfilled
  BY <1>1, <1>3, <1>4, <1>5, ShownIsOne
<1> QED
  BY <1>6 DEF at

\* Where no two flexes overlap, the need the engine goes by is the least any lineup of
\* the roster leaves, in every process, and what a client is shown of it the same:
\* whoever is drafted, and however a set is iterated.
THEOREM NeedIsExactWhenNestedHolds == BoardSpec => []NeedIsExactWhenNested
<1>1. BoardInv => NeedIsExactWhenNested
  <2> SUFFICES ASSUME BoardInv, ~Overlapping
               PROVE  /\ FillsAll(lineup, Roster, hash)
                      /\ LET shown == RosterOut(lineup, Mine(draft, pool, seat), hash)
                         IN  /\ shown.holes = board.context.unfilled
                             /\ shown.unfilled = shown.holes
    BY DEF NeedIsExactWhenNested
  <2> DEFINE roster == Mine(draft, pool, seat)
             uuids == IF seat = Unknown THEN <<>> ELSE draft.rosters[seat]
             With(u) == {p \in Range(pool) : p.uuid = u}
             c == DraftContext(draft, pool, seat, baseline, lineup, hash)
  <2>1. /\ lineup \in Lineups /\ hash \in [Rosterable -> Int] /\ Nested(lineup)
        /\ pool \in Pools
    <3>1. Nested(lineup)
      BY DEF Overlapping, Nested
    <3> QED
      BY <3>1, SessionAssumption DEF BoardInv
  <2>2. IsFiniteSet(DOMAIN uuids) /\ DOMAIN uuids \subseteq Int
    <3>1. uuids \in Seq(Named)
      <4>1. CASE seat = Unknown
        <5>1. <<>> \in Seq(Named)
          OBVIOUS
        <5> QED
          BY <4>1, <5>1
      <4>2. CASE seat # Unknown
        <5>1. seat \in Seats(TheLeague)
          BY <4>2, SessionAssumption DEF BoardInv
        <5> QED
          BY <4>2, <5>1 DEF BoardInv
      <4> QED
        BY <4>1, <4>2
    <3> HIDE DEF uuids
    <3>2. DOMAIN uuids = 1..Len(uuids) /\ 1 \in Int /\ Len(uuids) \in Int
      BY <3>1
    <3>3. IsFiniteSet(1..Len(uuids)) /\ 1..Len(uuids) \subseteq Int
      BY <3>2, FS_Interval
    <3> QED
      BY <3>2, <3>3
  <2>3. /\ DOMAIN roster \subseteq DOMAIN uuids
        /\ \A n \in DOMAIN roster : /\ With(uuids[n]) # {}
                                    /\ roster[n] = CHOOSE p \in With(uuids[n]) : TRUE
    <3>1. roster = [n \in {m \in DOMAIN uuids : With(uuids[m]) # {}} |->
                       CHOOSE p \in With(uuids[n]) : TRUE]
      BY DEF Mine
    <3> HIDE DEF roster, uuids, With
    <3> QED
      BY <3>1
  <2>4. \A p \in Range(pool) : IsPlayer(p)
    <3>1. \A n \in DOMAIN pool : IsPlayer(pool[n])
      BY <2>1, PoolsAssumption
    <3> QED
      BY <3>1 DEF Range
  <2>5. /\ IsFiniteSet(DOMAIN roster) /\ DOMAIN roster \subseteq Int
        /\ \A n \in DOMAIN roster : IsPlayer(roster[n])
    <3>1. \A n \in DOMAIN roster : roster[n] \in Range(pool)
      <4> HIDE DEF roster, uuids
      <4> QED
        BY <2>3
    <3>2. IsFiniteSet(DOMAIN roster)
      <4> HIDE DEF roster, uuids
      <4> QED
        BY <2>2, <2>3, FS_Subset
    <3> HIDE DEF roster, uuids
    <3> QED
      BY <2>2, <2>3, <2>4, <3>1, <3>2
  <2>6. FillsAll(lineup, Positions(roster), hash)
    <3> DEFINE at == Positions(roster)
    <3>1. DOMAIN at = DOMAIN roster /\ \A n \in DOMAIN at : at[n] \in Rosterable
      <4>1. DOMAIN at = DOMAIN roster /\ \A n \in DOMAIN roster : at[n] = roster[n].position
        BY DEF Positions
      <4>2. \A n \in DOMAIN roster : roster[n].position \in Rosterable
        BY <2>5 DEF IsPlayer
      <4> HIDE DEF at, roster
      <4> QED
        BY <4>1, <4>2
    <3>2. IsFiniteSet(DOMAIN at)
      BY <2>5, <3>1
    <3> HIDE DEF at
    <3> QED
      BY <2>1, <3>1, <3>2, NestedFillsAll DEF at
  <2>7. board.context.unfilled = Fill(lineup, Positions(roster), hash).unfilled
    <3>1. board \in {BuildBoard(ranked, c) : ranked \in {RankBoard(c)}}
      BY DEF BoardInv, Evaluated, EvaluateDraft
    <3>2. board.context = c
      <4> HIDE DEF c
      <4>1. board = BuildBoard(RankBoard(c), c)
        BY <3>1
      <4> QED
        BY <4>1 DEF BuildBoard
    <3>3. c.unfilled = ComputeRosterNeed(lineup, Positions(roster), hash).unfilled
      BY DEF DraftContext
    <3> QED
      BY <3>2, <3>3 DEF ComputeRosterNeed
  <2>8. Arranged(lineup, roster).unfilled = Fill(lineup, Positions(roster), hash).unfilled
    <3> HIDE DEF roster
    <3> QED
      BY <2>1, <2>5, NestedFillsAgree
  <2> DEFINE shown == RosterOut(lineup, roster, hash)
  <2>9. shown.holes = board.context.unfilled /\ shown.unfilled = shown.holes
    <3> HIDE DEF roster
    <3>1. ComputeRosterNeed(lineup, Positions(roster), hash).unfilled
             = Fill(lineup, Positions(roster), hash).unfilled
      BY DEF ComputeRosterNeed
    <3> QED
      BY <2>7, <2>8, <3>1 DEF RosterOut
  <2> QED
    BY <2>6, <2>9 DEF Roster
<1> QED
  BY <1>1, BoardIsOfThePool, PTL DEF BoardSpec
=============================================================================
