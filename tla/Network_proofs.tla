--------------------------- MODULE Network_proofs ---------------------------
(***************************************************************************)
(* What holds over the network, for any number of callers and addresses,   *)
(* any rate, capacity, lockout and queue: no stretch of time holds more    *)
(* requests than the limiter allows or more guesses than the gate does, a  *)
(* cookie is a session, and a quiet stream shows the board announced.      *)
(***************************************************************************)
EXTENDS ProviderCalls, AccessGate, EventStream, FiniteSetTheorems, TLAPS

-----------------------------------------------------------------------------
(* Numbers, and sequences of ages *)

\* Min picks the smaller of two.
LEMMA MinOfTwo ==
    ASSUME NEW m \in Int, NEW n \in Int
    PROVE  Min({m, n}) = IF m <= n THEN m ELSE n
<1>1. PICK k \in {m, n} : \A y \in {m, n} : k <= y
  OBVIOUS
<1>2. Min({m, n}) \in {m, n} /\ \A y \in {m, n} : Min({m, n}) <= y
  BY <1>1 DEF Min
<1> QED
  BY <1>2

\* Of ages from the oldest to the youngest, those at a limit or over it come first, so
\* their number is where the others begin.
LEMMA YoungerBeginAfterTheOld ==
    ASSUME NEW ages \in Seq(Nat), NEW Old \in SUBSET DOMAIN ages
    PROVE  /\ Cardinality(Old) \in 0..Len(ages)
           /\ (\A i, j \in DOMAIN ages : i <= j /\ j \in Old => i \in Old) =>
                 \A i \in Old : i <= Cardinality(Old)
<1>0. Len(ages) \in Nat /\ DOMAIN ages = 1..Len(ages)
  OBVIOUS
<1>1. \A n \in Nat : IsFiniteSet(1..n) /\ Cardinality(1..n) = n
  BY FS_Interval
<1>2. IsFiniteSet(Old) /\ Cardinality(Old) <= Len(ages) /\ Cardinality(Old) \in Nat
  BY <1>0, <1>1, FS_Subset, FS_CardinalityType
<1>3. ASSUME \A i, j \in DOMAIN ages : i <= j /\ j \in Old => i \in Old, NEW i \in Old
      PROVE  i <= Cardinality(Old)
  <2>1. i \in Nat /\ 1..i \subseteq Old
    BY <1>0, <1>3
  <2> QED
    BY <1>1, <1>2, <2>1, FS_Subset
<1> QED
  BY <1>0, <1>2, <1>3

\* A tick forgets the oldest requests and makes the others a tick older.
LEMMA RememberedAges ==
    ASSUME NEW ages \in Seq(Nat)
    PROVE  /\ Remembered(ages) \in Seq(Nat)
           /\ \E old \in Nat :
                 /\ Len(ages) = Len(Remembered(ages)) + old
                 /\ \A i \in DOMAIN Remembered(ages) : Remembered(ages)[i] = ages[i + old] + 1
<1> DEFINE old == Cardinality({i \in DOMAIN ages : ages[i] >= Window})
<1>1. old \in 0..Len(ages)
  BY YoungerBeginAfterTheOld
<1>2. Remembered(ages) = [i \in 1..(Len(ages) - old) |-> ages[i + old] + 1]
  BY DEF Remembered
<1> HIDE DEF old
<1>3. \A i \in 1..(Len(ages) - old) : ages[i + old] + 1 \in Nat
  BY <1>1
<1> QED
  BY <1>1, <1>2, <1>3

\* The guesses a tick leaves are those younger than the lockout.
LEMMA OlderAges ==
    ASSUME NEW ages \in Seq(Nat),
           \A i, j \in DOMAIN ages : i <= j => ages[i] >= ages[j]
    PROVE  /\ Older(ages) \in Seq(Nat)
           /\ Len(Older(ages)) <= Len(ages)
           /\ \A i \in DOMAIN Older(ages) : Older(ages)[i] < Lockout
           /\ \A i, j \in DOMAIN Older(ages) : i <= j => Older(ages)[i] >= Older(ages)[j]
           /\ Older(ages) # <<>> =>
                 ages # <<>> /\ Older(ages)[Len(Older(ages))] = ages[Len(ages)] + 1
<1> DEFINE Old == {i \in DOMAIN ages : ages[i] + 1 >= Lockout}
           old == Cardinality(Old)
<1>1. \A i, j \in DOMAIN ages : i <= j /\ j \in Old => i \in Old
  <2>1. Lockout \in Nat /\ \A i \in DOMAIN ages : ages[i] \in Nat
    BY GateAssumption
  <2> QED
    BY <2>1
<1>2. old \in 0..Len(ages) /\ \A i \in Old : i <= old
  <2> HIDE DEF Old
  <2>1. Old \in SUBSET DOMAIN ages
    BY DEF Old
  <2> QED
    BY <1>1, <2>1, YoungerBeginAfterTheOld
<1>3. Older(ages) = [i \in 1..(Len(ages) - old) |-> ages[i + old] + 1]
  BY DEF Older
<1>4. \A i \in DOMAIN ages : i > old => ages[i] \in Nat /\ ages[i] + 1 < Lockout
  <2> HIDE DEF old
  <2>1. Lockout \in Nat /\ \A i \in DOMAIN ages : ages[i] \in Nat /\ i \in Nat
    BY GateAssumption
  <2> QED
    BY <1>2, <2>1
<1> HIDE DEF old, Old
<1>5. \A i \in 1..(Len(ages) - old) : ages[i + old] + 1 \in Nat
  BY <1>2
<1>6. \A i \in 1..(Len(ages) - old) : i + old \in DOMAIN ages /\ i + old > old
  BY <1>2
<1>7. \A i \in 1..(Len(ages) - old) : ages[i + old] + 1 < Lockout
  BY <1>4, <1>6
<1>8. Older(ages) \in Seq(Nat) /\ Len(ages) = Len(Older(ages)) + old
  BY <1>2, <1>3, <1>5
<1>9. /\ DOMAIN Older(ages) = 1..(Len(ages) - old)
      /\ \A i \in DOMAIN Older(ages) :
            Older(ages)[i] = ages[i + old] + 1 /\ Older(ages)[i] < Lockout
  BY <1>2, <1>3, <1>7
<1>10. \A i, j \in DOMAIN Older(ages) : i <= j => Older(ages)[i] >= Older(ages)[j]
  <2> SUFFICES ASSUME NEW i \in 1..(Len(ages) - old), NEW j \in 1..(Len(ages) - old), i <= j
               PROVE  ages[i + old] + 1 >= ages[j + old] + 1
    BY <1>9
  <2>1. i + old <= j + old /\ i + old \in DOMAIN ages /\ j + old \in DOMAIN ages
    BY <1>2
  <2>2. ages[i + old] >= ages[j + old] /\ ages[i + old] \in Nat /\ ages[j + old] \in Nat
    BY <2>1
  <2> QED
    BY <2>2
<1>11. Older(ages) # <<>> =>
          ages # <<>> /\ Older(ages)[Len(Older(ages))] = ages[Len(ages)] + 1
  <2> SUFFICES ASSUME Older(ages) # <<>>
               PROVE  ages # <<>> /\ Older(ages)[Len(Older(ages))] = ages[Len(ages)] + 1
    OBVIOUS
  <2>1. Len(Older(ages)) \in DOMAIN Older(ages) /\ ages # <<>>
    BY <1>2, <1>8
  <2>2. Len(Older(ages)) + old = Len(ages)
    BY <1>2, <1>8
  <2> QED
    BY <1>9, <2>1, <2>2
<1> QED
  BY <1>2, <1>8, <1>9, <1>10, <1>11

-----------------------------------------------------------------------------
(* The limiter *)

\* Every stretch that begins with a remembered request and ends now: what was sent in
\* it and what could be sent at once are within the burst and the rate.
RateInv ==
    /\ tokens \in Nat /\ idle \in Nat /\ sent \in Seq(Nat)
    /\ \A i \in DOMAIN sent :
          (Len(sent) - i + 1) * Unit + Refilled <= Capacity + sent[i] * Rate

\* The numbers the limiter is set up with.
LEMMA LimiterNumbers ==
    /\ Rate \in Nat /\ Rate > 0 /\ Unit \in Nat /\ Capacity \in Nat /\ Unit <= Capacity
    /\ \A n \in Nat : n * Rate \in Nat /\ (n + 1) * Rate = n * Rate + Rate
    /\ \A n \in Int : n * Unit \in Int /\ (n + 1) * Unit = n * Unit + Unit
<1>1. Rate \in Nat \ {0} /\ Unit \in Nat \ {0} /\ Burst \in Nat \ {0}
  BY LimiterAssumption
<1>2. Capacity \in Nat /\ Unit <= Capacity
  BY <1>1 DEF Capacity
<1> QED
  BY <1>1, <1>2

\* What the bucket holds after a time, and that it grows no faster than the rate.
LEMMA Filling ==
    ASSUME NEW units \in Nat, NEW ticks \in Nat
    PROVE  /\ Min({Capacity, units + ticks * Rate}) \in Nat
           /\ Min({Capacity, units + ticks * Rate}) <= Capacity
           /\ ticks = 0 /\ units <= Capacity => Min({Capacity, units + ticks * Rate}) = units
           /\ \A later \in Nat : later <= ticks + 1 =>
                 Min({Capacity, units + later * Rate})
                    <= Min({Capacity, units + ticks * Rate}) + Rate
<1> DEFINE full(t) == Min({Capacity, units + t * Rate})
<1>1. \A t \in Nat : t * Rate \in Nat /\ units + t * Rate \in Int /\ units + t * Rate >= 0
  BY LimiterNumbers
<1>2. ASSUME NEW t \in Nat
      PROVE  full(t) = IF Capacity <= units + t * Rate THEN Capacity ELSE units + t * Rate
  BY <1>1, LimiterNumbers, MinOfTwo
<1>3. 0 * Rate = 0
  BY LimiterNumbers
<1>4. ASSUME NEW later \in Nat, later <= ticks + 1
      PROVE  later * Rate <= ticks * Rate + Rate
  BY <1>4, LimiterNumbers
<1> HIDE DEF full
<1>5. full(ticks) \in Nat /\ full(ticks) <= Capacity
  BY <1>1, <1>2, LimiterNumbers
<1>6. ticks = 0 /\ units <= Capacity => full(ticks) = units
  BY <1>1, <1>2, <1>3, LimiterNumbers
<1>7. ASSUME NEW later \in Nat, later <= ticks + 1
      PROVE  full(later) <= full(ticks) + Rate
  <2>1. PICK x \in Nat : x = ticks * Rate
    BY <1>1
  <2>2. PICK y \in Nat : y = later * Rate
    BY <1>1
  <2>3. y <= x + Rate
    BY <1>4, <1>7, <2>1, <2>2
  <2>4. full(ticks) = IF Capacity <= units + x THEN Capacity ELSE units + x
    BY <1>2, <2>1
  <2>5. full(later) = IF Capacity <= units + y THEN Capacity ELSE units + y
    BY <1>2, <2>2
  <2> QED
    BY <2>3, <2>4, <2>5, LimiterNumbers
<1> QED
  BY <1>5, <1>6, <1>7 DEF full

\* An empty window and a full bucket hold no stretch.
LEMMA RateInvInit ==
    CallsInit => RateInv /\ NeverAboveTheRate
<1> SUFFICES ASSUME CallsInit PROVE RateInv /\ NeverAboveTheRate
  OBVIOUS
<1> QED
  BY LimiterNumbers DEF CallsInit, RateInv, NeverAboveTheRate

\* A request takes its token out of what every stretch still had.
LEMMA StretchesOneMore ==
    ASSUME NEW ages \in Seq(Nat), NEW units \in Nat, Unit <= units, units <= Capacity,
           \A i \in DOMAIN ages :
              (Len(ages) - i + 1) * Unit + units <= Capacity + ages[i] * Rate
    PROVE  \A i \in DOMAIN Append(ages, 0) :
              (Len(ages) + 1 - i + 1) * Unit + (units - Unit)
                 <= Capacity + Append(ages, 0)[i] * Rate
<1> SUFFICES ASSUME NEW i \in DOMAIN Append(ages, 0)
             PROVE  (Len(ages) + 1 - i + 1) * Unit + (units - Unit)
                       <= Capacity + Append(ages, 0)[i] * Rate
  OBVIOUS
<1>1. Len(ages) \in Nat /\ i \in 1..(Len(ages) + 1)
  OBVIOUS
<1>2. CASE i = Len(ages) + 1
  <2>1. Append(ages, 0)[i] = 0 /\ 0 * Rate = 0
    BY <1>2, LimiterNumbers
  <2>2. Len(ages) + 1 - i + 1 = 1 /\ 1 * Unit = Unit
    BY <1>1, <1>2, LimiterNumbers
  <2>3. (Len(ages) + 1 - i + 1) * Unit = Unit /\ Append(ages, 0)[i] * Rate = 0
    BY <2>1, <2>2
  <2>4. Unit + (units - Unit) <= Capacity + 0
    BY LimiterNumbers
  <2> QED
    BY <2>3, <2>4
<1>3. CASE i \in DOMAIN ages
  <2>1. PICK age \in Nat : age = ages[i] /\ Append(ages, 0)[i] = age
    BY <1>3
  <2>2. PICK n \in Nat : n = Len(ages) - i + 1 /\ Len(ages) + 1 - i + 1 = n + 1
    BY <1>1, <1>3
  <2>3. PICK x \in Int : x = n * Unit /\ (n + 1) * Unit = x + Unit
    BY LimiterNumbers
  <2>4. PICK y \in Nat : y = age * Rate
    BY LimiterNumbers
  <2>5. x + units <= Capacity + y
    BY <1>3, <2>1, <2>2, <2>3, <2>4
  <2>6. x + Unit + (units - Unit) <= Capacity + y
    BY <2>5, LimiterNumbers
  <2> QED
    BY <2>1, <2>2, <2>3, <2>4, <2>6
<1> QED
  BY <1>1, <1>2, <1>3

\* A token is taken only where one is: the request is paid for by the bucket.
LEMMA AcquireKeepsTheRate ==
    ASSUME RateInv, NeverAboveTheRate, NEW c \in Callers, Acquire(c)
    PROVE  RateInv' /\ NeverAboveTheRate'
<1>1. Refilled \in Nat /\ Refilled <= Capacity
  BY Filling DEF RateInv, Refilled
<1>2. idle' = 0 /\ sent \in Seq(Nat)
  BY DEF Acquire, RateInv
<1>3. tokens' \in Nat /\ tokens' <= Capacity => Refilled' = tokens'
  <2>1. \A u \in Nat : u <= Capacity => Min({Capacity, u + 0 * Rate}) = u
    BY Filling
  <2>2. Refilled' = Min({Capacity, tokens' + 0 * Rate})
    BY <1>2 DEF Refilled, Capacity
  <2> QED
    BY <2>1, <2>2
<1>4. CASE /\ Refilled >= Unit /\ tokens' = Refilled - Unit
           /\ sent' = Append(sent, 0)
  <2>1. tokens' \in Nat /\ Refilled' = Refilled - Unit /\ Refilled' \in Nat
    <3>1. tokens' \in Nat /\ tokens' <= Capacity
      BY <1>1, <1>4, LimiterNumbers
    <3> QED
      BY <1>3, <1>4, <3>1
  <2>2. sent' \in Seq(Nat) /\ Len(sent') = Len(sent) + 1 /\ sent'[Len(sent')] = 0
    BY <1>2, <1>4
  <2>3. \A i \in DOMAIN sent' :
           (Len(sent') - i + 1) * Unit + Refilled' <= Capacity + sent'[i] * Rate
    <3>1. \A i \in DOMAIN sent' :
             (Len(sent) + 1 - i + 1) * Unit + (Refilled - Unit) <= Capacity + sent'[i] * Rate
      BY <1>1, <1>2, <1>4, StretchesOneMore DEF RateInv
    <3> QED
      BY <2>1, <2>2, <3>1
  <2>4. RateInv'
    BY <1>2, <2>1, <2>2, <2>3 DEF RateInv, Capacity
  <2>5. ASSUME NEW i \in DOMAIN sent'
        PROVE  (Len(sent') - i + 1) * Unit <= Capacity + (sent'[i] - sent'[Len(sent')]) * Rate
    <3>1. sent'[i] - sent'[Len(sent')] = sent'[i] /\ sent'[i] \in Nat
      BY <2>2, <2>5
    <3>2. PICK x \in Int : x = (Len(sent') - i + 1) * Unit
      BY <2>2, <2>5, LimiterNumbers
    <3>3. PICK y \in Nat : y = sent'[i] * Rate
      BY <3>1, LimiterNumbers
    <3>4. PICK r \in Nat : r = Refilled'
      BY <2>1
    <3>5. x + r <= Capacity + y
      BY <2>3, <2>5, <3>2, <3>3, <3>4
    <3>6. x <= Capacity + y
      BY <3>5, LimiterNumbers
    <3> QED
      BY <3>1, <3>2, <3>3, <3>6
  <2> QED
    BY <2>4, <2>5 DEF NeverAboveTheRate, Capacity
<1>5. CASE Refilled < Unit /\ tokens' = Kept /\ UNCHANGED sent
  <2>1. tokens' \in Nat /\ Refilled' = Refilled
    BY <1>1, <1>3, <1>5 DEF Kept
  <2> QED
    BY <1>2, <1>5, <2>1 DEF RateInv, NeverAboveTheRate, Capacity
<1> QED
  BY <1>4, <1>5 DEF Acquire

\* A place counted from the end does not move when the front is cut off.
LEMMA ShiftedPlace ==
    ASSUME NEW ages \in Seq(Nat), NEW later \in Seq(Nat), NEW old \in Nat,
           Len(ages) = Len(later) + old
    PROVE  \A i \in DOMAIN later :
              /\ i + old \in DOMAIN ages /\ Len(ages) - (i + old) + 1 = Len(later) - i + 1
              /\ Len(later) - i + 1 \in Nat
<1>1. PICK m, n \in Nat : m = Len(ages) /\ n = Len(later)
  OBVIOUS
<1>2. \A i \in 1..n : i + old \in 1..m /\ m - (i + old) + 1 = n - i + 1 /\ n - i + 1 \in Nat
  BY <1>1
<1>3. DOMAIN ages = 1..m /\ DOMAIN later = 1..n
  BY <1>1
<1> QED
  BY <1>1, <1>2, <1>3, Zenon

\* What a tick does to the stretches that begin with the requests it leaves.
LEMMA StretchesATickLater ==
    ASSUME NEW ages \in Seq(Nat), NEW later \in Seq(Nat), NEW old \in Nat,
           Len(ages) = Len(later) + old,
           \A i \in DOMAIN later : later[i] = ages[i + old] + 1,
           NEW limit \in Nat
    PROVE  /\ \A before, after \in Nat :
                 /\ after <= before + Rate
                 /\ \A i \in DOMAIN ages :
                       (Len(ages) - i + 1) * Unit + before <= limit + ages[i] * Rate
                 => \A i \in DOMAIN later :
                       (Len(later) - i + 1) * Unit + after <= limit + later[i] * Rate
           /\ (\A i \in DOMAIN ages : (Len(ages) - i + 1) * Unit
                                     <= limit + (ages[i] - ages[Len(ages)]) * Rate) =>
                 \A i \in DOMAIN later : (Len(later) - i + 1) * Unit
                                       <= limit + (later[i] - later[Len(later)]) * Rate
<1>1. Rate \in Nat /\ Unit \in Nat /\ Len(ages) \in Nat /\ Len(later) \in Nat
  BY LimiterNumbers
<1>2. DOMAIN ages = 1..Len(ages) /\ DOMAIN later = 1..Len(later)
  OBVIOUS
<1>3. ASSUME NEW i \in DOMAIN later
      PROVE  /\ i + old \in DOMAIN ages /\ Len(ages) - (i + old) + 1 = Len(later) - i + 1
             /\ Len(later) - i + 1 \in Nat
             /\ ages[i + old] \in Nat /\ later[i] = ages[i + old] + 1
  <2>1. i + old \in DOMAIN ages /\ Len(ages) - (i + old) + 1 = Len(later) - i + 1
        /\ Len(later) - i + 1 \in Nat
    BY ShiftedPlace
  <2>2. \A j \in DOMAIN ages : ages[j] \in Nat
    OBVIOUS
  <2> QED
    BY <2>1, <2>2
<1>4. \A n \in Nat : (n + 1) * Rate = n * Rate + Rate /\ n * Rate \in Nat /\ n * Unit \in Int
  BY LimiterNumbers
<1>5. ASSUME NEW before \in Nat, NEW after \in Nat, after <= before + Rate,
             \A i \in DOMAIN ages :
                (Len(ages) - i + 1) * Unit + before <= limit + ages[i] * Rate,
             NEW i \in DOMAIN later
      PROVE  (Len(later) - i + 1) * Unit + after <= limit + later[i] * Rate
  <2>1. PICK n \in Nat : n = Len(later) - i + 1
    BY <1>3
  <2>2. PICK age \in Nat : age = ages[i + old]
    BY <1>3
  <2>3. n * Unit + before <= limit + age * Rate
    BY <1>3, <1>5, <2>1, <2>2
  <2>4. n * Unit + after <= limit + (age + 1) * Rate
    <3>1. PICK x \in Int : x = n * Unit
      BY <1>4
    <3>2. PICK y \in Nat : y = age * Rate
      BY <1>4
    <3>3. (age + 1) * Rate = y + Rate
      BY <1>4, <3>2
    <3>4. x + after <= limit + (y + Rate)
      BY <1>1, <1>5, <2>3, <3>1, <3>2
    <3> QED
      BY <3>1, <3>3, <3>4
  <2> QED
    BY <1>3, <2>1, <2>2, <2>4
<1>6. ASSUME \A i \in DOMAIN ages : (Len(ages) - i + 1) * Unit
                                   <= limit + (ages[i] - ages[Len(ages)]) * Rate,
             NEW i \in DOMAIN later
      PROVE  (Len(later) - i + 1) * Unit <= limit + (later[i] - later[Len(later)]) * Rate
  <2>1. Len(later) \in DOMAIN later /\ Len(later) + old = Len(ages)
    BY <1>1, <1>2, <1>6
  <2>2. later[i] - later[Len(later)] = ages[i + old] - ages[Len(ages)]
    <3>1. PICK x \in Nat : x = ages[i + old]
      BY <1>3
    <3>2. PICK y \in Nat : y = ages[Len(ages)]
      BY <1>3, <2>1
    <3>3. later[i] = x + 1 /\ later[Len(later)] = y + 1
      BY <1>3, <2>1, <3>1, <3>2
    <3>4. later[i] - later[Len(later)] = (x + 1) - (y + 1)
      BY <3>3, Zenon
    <3>5. (x + 1) - (y + 1) = x - y
      OBVIOUS
    <3> QED
      BY <3>1, <3>2, <3>4, <3>5, Zenon
  <2>3. i + old \in DOMAIN ages /\ Len(ages) - (i + old) + 1 = Len(later) - i + 1
    BY <1>3
  <2> QED
    BY <1>6, <2>2, <2>3
<1> QED
  BY <1>5, <1>6

\* A tick gives every stretch the rate's share, and the bucket no more than that.
LEMMA TickKeepsTheRate ==
    ASSUME RateInv, NeverAboveTheRate, Tick
    PROVE  RateInv' /\ NeverAboveTheRate'
<1>1. tokens \in Nat /\ tokens' = tokens /\ idle \in Nat /\ sent \in Seq(Nat)
  BY DEF Tick, RateInv
<1>2. idle' \in Nat /\ idle' <= idle + 1
  <2>1. TicksFor(Capacity) \in Nat
    BY LimiterNumbers DEF TicksFor
  <2>2. \A n \in Nat : Min({n, TicksFor(Capacity)}) \in Nat /\ Min({n, TicksFor(Capacity)}) <= n
    BY <2>1, MinOfTwo
  <2>3. idle + 1 \in Nat /\ idle' = Min({idle + 1, TicksFor(Capacity)})
    BY <1>1 DEF Tick
  <2> QED
    BY <2>2, <2>3
<1>3. Refilled \in Nat /\ Refilled' \in Nat /\ Refilled' <= Refilled + Rate
  BY <1>1, <1>2, Filling DEF Refilled, Capacity
<1>4. PICK old \in Nat :
         /\ sent' \in Seq(Nat) /\ Len(sent) = Len(sent') + old
         /\ \A i \in DOMAIN sent' : sent'[i] = sent[i + old] + 1
  BY <1>1, RememberedAges DEF Tick
<1>5. Capacity \in Nat
  BY LimiterNumbers
<1>6. \A i \in DOMAIN sent' :
         (Len(sent') - i + 1) * Unit + Refilled' <= Capacity + sent'[i] * Rate
  BY <1>1, <1>3, <1>4, <1>5, StretchesATickLater DEF RateInv
<1>7. RateInv'
  BY <1>1, <1>2, <1>4, <1>6 DEF RateInv, Capacity
<1>8. \A i \in DOMAIN sent' :
         (Len(sent') - i + 1) * Unit <= Capacity + (sent'[i] - sent'[Len(sent')]) * Rate
  BY <1>1, <1>4, <1>5, StretchesATickLater DEF NeverAboveTheRate
<1> QED
  BY <1>7, <1>8 DEF NeverAboveTheRate, Capacity

\* NeverAboveTheRate for any rate, burst and number of callers: shared as acquire is,
\* the limiter lets no stretch of time hold more requests than the provider counts.
THEOREM NoStretchIsAboveTheRate == CallsSpec => []NeverAboveTheRate
<1>1. RateInv /\ NeverAboveTheRate /\ [CallsNext]_callVars => (RateInv /\ NeverAboveTheRate)'
  <2> SUFFICES ASSUME RateInv, NeverAboveTheRate, [CallsNext]_callVars
               PROVE  (RateInv /\ NeverAboveTheRate)'
    OBVIOUS
  <2>1. ASSUME UNCHANGED <<limiter, sent>> PROVE (RateInv /\ NeverAboveTheRate)'
    BY <2>1 DEF limiter, RateInv, NeverAboveTheRate, Refilled, Capacity
  <2>2. CASE Tick
    BY <2>2, TickKeepsTheRate
  <2>3. ASSUME NEW c \in Callers, Begin(c) PROVE (RateInv /\ NeverAboveTheRate)'
    BY <2>1, <2>3 DEF Begin
  <2>4. ASSUME NEW c \in Callers, CallStep(c) PROVE (RateInv /\ NeverAboveTheRate)'
    <3>1. CASE Acquire(c)
      BY <3>1, AcquireKeepsTheRate
    <3>2. CASE Awake(c)
      BY <2>1, <3>2 DEF Awake
    <3>3. ASSUME NEW o \in Outcomes, Answer(c, o) PROVE (RateInv /\ NeverAboveTheRate)'
      BY <2>1, <3>3 DEF Answer
    <3> QED
      BY <2>4, <3>1, <3>2, <3>3 DEF CallStep
  <2>5. CASE UNCHANGED callVars
    BY <2>1, <2>5 DEF callVars
  <2> QED
    BY <2>2, <2>3, <2>4, <2>5 DEF CallsNext
<1> QED
  BY <1>1, RateInvInit, PTL DEF CallsSpec

-----------------------------------------------------------------------------
(* The gate *)

\* The window a failure opens is as old as the last wrong guess, and counts at least
\* the guesses that are remembered.
GuessInv ==
    /\ failures \in [Addresses -> [count : Nat, left : Nat]]
    /\ guesses \in [Addresses -> Seq(Nat)]
    /\ \A a \in Addresses :
          /\ Len(guesses[a]) <= failures[a].count /\ failures[a].count <= MaxFailures
          /\ \A i, j \in DOMAIN guesses[a] : i <= j => guesses[a][i] >= guesses[a][j]
          /\ guesses[a] # <<>> => failures[a].left = Lockout - guesses[a][Len(guesses[a])]
          /\ \A i \in DOMAIN guesses[a] : guesses[a][i] < Lockout

\* A cookie signed with the password is as old as the sign-in; any other is of no use,
\* now and whatever password comes.
SessionInv ==
    /\ password \in used
    /\ DOMAIN cookie = Addresses /\ DOMAIN since = Addresses
    /\ \A a \in Addresses :
          /\ cookie[a].left \in 0..SessionLife
          /\ cookie[a].key \notin used => cookie[a].left = 0
          /\ since[a] = IF cookie[a].key = password THEN SessionLife - cookie[a].left
                                                    ELSE SessionLife

\* The numbers the gate is set up with.
LEMMA GateNumbers ==
    MaxFailures \in Nat /\ MaxFailures > 0 /\ Lockout \in Nat /\ Lockout > 0
    /\ SessionLife \in Nat /\ SessionLife > 0
BY GateAssumption

\* A wrong guess is remembered last, at age zero.
LEMMA OneMoreAge ==
    ASSUME NEW r \in Seq(Nat)
    PROVE  /\ Len(Append(r, 0)) = Len(r) + 1 /\ Append(r, 0) # <<>>
           /\ Append(r, 0)[Len(Append(r, 0))] = 0
           /\ \A i \in DOMAIN Append(r, 0) : i # Len(Append(r, 0)) =>
                 i \in DOMAIN r /\ Append(r, 0)[i] = r[i]
           /\ \A i \in DOMAIN Append(r, 0) : Append(r, 0)[i] \in Nat
<1>1. Len(Append(r, 0)) = Len(r) + 1 /\ Append(r, 0) \in Seq(Nat) /\ Len(r) \in Nat
  OBVIOUS
<1>2. Append(r, 0)[Len(r) + 1] = 0 /\ DOMAIN Append(r, 0) = 1..(Len(r) + 1)
  OBVIOUS
<1>3. \A i \in 1..Len(r) : i \in DOMAIN r /\ Append(r, 0)[i] = r[i]
  OBVIOUS
<1>4. Append(r, 0) # <<>>
  BY <1>1
<1>5. \A i \in 1..(Len(r) + 1) : i # Len(r) + 1 => i \in 1..Len(r)
  BY <1>1
<1> QED
  BY <1>1, <1>2, <1>3, <1>4, <1>5

\* A gate nobody has tried and a browser without a cookie.
LEMMA GateInvInit ==
    GateInit => GuessInv /\ SessionInv
BY GateNumbers DEF GateInit, GuessInv, SessionInv, Clean, NoCookie

\* A wrong guess: the window it renews, or opens when nothing is remembered, counts it.
LEMMA GuessIsCounted ==
    ASSUME GuessInv, NEW a \in Addresses, ~IsLocked(a),
           failures' = [failures EXCEPT ![a] = AfterFailure(a)],
           guesses' = [guesses EXCEPT ![a] = Append(@, 0)]
    PROVE  GuessInv'
<1>1. failures[a] \in [count : Nat, left : Nat] /\ guesses[a] \in Seq(Nat)
  BY DEF GuessInv
<1>2. AfterFailure(a) \in [count : Nat, left : Nat] /\ AfterFailure(a).left = Lockout
  BY <1>1, GateNumbers DEF AfterFailure
<1>3. guesses'[a] = Append(guesses[a], 0) /\ failures'[a] = AfterFailure(a)
  BY DEF GuessInv
<1>4. failures' \in [Addresses -> [count : Nat, left : Nat]] /\ guesses' \in [Addresses -> Seq(Nat)]
  <2>1. Append(guesses[a], 0) \in Seq(Nat)
    BY <1>1
  <2> QED
    BY <1>2, <2>1 DEF GuessInv
<1>5. Len(guesses[a]) + 1 <= AfterFailure(a).count /\ AfterFailure(a).count <= MaxFailures
  <2>1. CASE failures[a].left = 0
    <3>1. guesses[a] = <<>>
      <4>1. guesses[a] # <<>> => Len(guesses[a]) \in DOMAIN guesses[a]
        BY <1>1
      <4>2. guesses[a] # <<>> => /\ failures[a].left = Lockout - guesses[a][Len(guesses[a])]
                                /\ guesses[a][Len(guesses[a])] < Lockout
        BY <4>1 DEF GuessInv
      <4>3. guesses[a] # <<>> => guesses[a][Len(guesses[a])] \in Nat
        BY <1>1, <4>1
      <4> QED
        BY <2>1, <4>2, <4>3, GateNumbers
    <3> QED
      BY <2>1, <3>1, GateNumbers DEF AfterFailure
  <2>2. CASE failures[a].left # 0
    <3>1. failures[a].count < MaxFailures
      BY <1>1, <2>2, GateNumbers DEF IsLocked
    <3> QED
      BY <1>1, <2>2, <3>1, GateNumbers DEF AfterFailure, GuessInv
  <2> QED
    BY <2>1, <2>2
<1>6. DEFINE g == Append(guesses[a], 0)
<1>7. /\ Len(g) = Len(guesses[a]) + 1 /\ g # <<>> /\ g[Len(g)] = 0
      /\ \A i \in DOMAIN g : i # Len(g) => i \in DOMAIN guesses[a] /\ g[i] = guesses[a][i]
      /\ \A i \in DOMAIN g : g[i] \in Nat
  <2>1. PICK q \in Seq(Nat) : q = guesses[a]
    BY <1>1
  <2> QED
    BY <2>1, OneMoreAge, Zenon
<1>8. \A i, j \in DOMAIN g : i <= j => g[i] >= g[j]
  <2> SUFFICES ASSUME NEW i \in DOMAIN g, NEW j \in DOMAIN g, i <= j PROVE g[i] >= g[j]
    OBVIOUS
  <2>1. CASE j = Len(g)
    BY <1>7, <2>1
  <2>2. CASE j # Len(g)
    <3>1. i # Len(g)
      BY <1>1, <1>7, <2>2
    <3> QED
      BY <1>7, <2>2, <3>1 DEF GuessInv
  <2> QED
    BY <2>1, <2>2
<1>9. \A i \in DOMAIN g : g[i] < Lockout
  BY <1>7, GateNumbers DEF GuessInv
<1>10. ASSUME NEW b \in Addresses, b # a
       PROVE  failures'[b] = failures[b] /\ guesses'[b] = guesses[b]
  BY <1>10 DEF GuessInv
<1>11. Lockout - 0 = Lockout
  BY GateNumbers
<1> HIDE DEF g
<1>12. ASSUME NEW b \in Addresses
       PROVE  /\ Len(guesses'[b]) <= failures'[b].count /\ failures'[b].count <= MaxFailures
              /\ \A i, j \in DOMAIN guesses'[b] : i <= j => guesses'[b][i] >= guesses'[b][j]
              /\ guesses'[b] # <<>> => failures'[b].left = Lockout - guesses'[b][Len(guesses'[b])]
              /\ \A i \in DOMAIN guesses'[b] : guesses'[b][i] < Lockout
  <2>1. CASE b = a
    <3>1. guesses'[b] = g
      BY <1>3, <2>1 DEF g
    <3> QED
      BY <1>2, <1>3, <1>5, <1>7, <1>8, <1>9, <1>11, <2>1, <3>1
  <2>2. CASE b # a
    BY <1>10, <2>2 DEF GuessInv
  <2> QED
    BY <2>1, <2>2
<1> QED
  BY <1>4, <1>12 DEF GuessInv

\* A success or a restart starts afresh.
LEMMA FreshStart ==
    ASSUME GuessInv, NEW A \in SUBSET Addresses,
           failures' = [a \in Addresses |-> IF a \in A THEN Clean ELSE failures[a]],
           guesses' = [a \in Addresses |-> IF a \in A THEN <<>> ELSE guesses[a]]
    PROVE  GuessInv'
<1>1. Clean \in [count : Nat, left : Nat] /\ Clean.count = 0 /\ <<>> \in Seq(Nat)
  BY DEF Clean
<1> QED
  BY <1>1, GateNumbers DEF GuessInv

\* A second makes the window and its guesses a second older, and both end together.
LEMMA SecondOnGuesses ==
    ASSUME GuessInv, Passes
    PROVE  GuessInv'
<1>1. \A a \in Addresses : /\ failures[a] \in [count : Nat, left : Nat]
                            /\ guesses[a] \in Seq(Nat)
  BY DEF GuessInv
<1>2. \A a \in Addresses : /\ failures'[a] = [failures[a] EXCEPT !.left = LessOne(@)]
                            /\ guesses'[a] = Older(guesses[a])
  BY DEF Passes
<1>3. \A a \in Addresses : /\ failures'[a].count = failures[a].count
                            /\ failures'[a].left = LessOne(failures[a].left)
                            /\ failures'[a] \in [count : Nat, left : Nat]
  <2> SUFFICES ASSUME NEW a \in Addresses
               PROVE  /\ failures'[a].count = failures[a].count
                      /\ failures'[a].left = LessOne(failures[a].left)
                      /\ failures'[a] \in [count : Nat, left : Nat]
    OBVIOUS
  <2>1. \A n \in Nat : LessOne(n) \in Nat
    BY DEF LessOne
  <2>2. \A f \in [count : Nat, left : Nat], n \in Nat :
           LET g == [f EXCEPT !.left = n]
           IN  g.count = f.count /\ g.left = n /\ g \in [count : Nat, left : Nat]
    OBVIOUS
  <2>3. failures[a].left \in Nat /\ failures[a] \in [count : Nat, left : Nat]
    BY <1>1
  <2>4. failures'[a] = [failures[a] EXCEPT !.left = LessOne(failures[a].left)]
    BY <1>2
  <2> QED
    BY <2>1, <2>2, <2>3, <2>4
<1>4. ASSUME NEW a \in Addresses
      PROVE  /\ guesses'[a] \in Seq(Nat)
             /\ Len(guesses'[a]) <= failures'[a].count /\ failures'[a].count <= MaxFailures
             /\ \A i, j \in DOMAIN guesses'[a] : i <= j => guesses'[a][i] >= guesses'[a][j]
             /\ guesses'[a] # <<>> => failures'[a].left = Lockout - guesses'[a][Len(guesses'[a])]
             /\ \A i \in DOMAIN guesses'[a] : guesses'[a][i] < Lockout
  <2>1. \A i, j \in DOMAIN guesses[a] : i <= j => guesses[a][i] >= guesses[a][j]
    BY DEF GuessInv
  <2>2. PICK g \in Seq(Nat) : g = guesses'[a]
    BY <1>1, <1>2, <2>1, OlderAges
  <2>3. /\ Len(g) <= Len(guesses[a])
        /\ \A i \in DOMAIN g : g[i] < Lockout
        /\ \A i, j \in DOMAIN g : i <= j => g[i] >= g[j]
        /\ g # <<>> => guesses[a] # <<>> /\ g[Len(g)] = guesses[a][Len(guesses[a])] + 1
    <3>1. g = Older(guesses[a]) /\ guesses[a] \in Seq(Nat)
      BY <1>1, <1>2, <2>2
    <3> QED
      BY <2>1, <3>1, OlderAges
  <2>4. Len(g) <= failures'[a].count /\ failures'[a].count <= MaxFailures
    <3>1. Len(guesses[a]) <= failures[a].count /\ failures[a].count <= MaxFailures
      BY DEF GuessInv
    <3> QED
      BY <1>1, <1>3, <2>3, <3>1, GateNumbers
  <2>5. ASSUME g # <<>>
        PROVE  failures'[a].left = Lockout - g[Len(g)]
    <3>1. Len(g) \in DOMAIN g /\ guesses[a] # <<>> /\ guesses[a][Len(guesses[a])] \in Nat
      BY <1>1, <2>3, <2>5
    <3>2. /\ g[Len(g)] = guesses[a][Len(guesses[a])] + 1 /\ g[Len(g)] < Lockout
          /\ guesses[a][Len(guesses[a])] \in Nat
      BY <2>3, <2>5, <3>1
    <3>3. failures[a].left = Lockout - guesses[a][Len(guesses[a])]
      BY <3>1 DEF GuessInv
    <3>4. PICK age \in Nat : age = guesses[a][Len(guesses[a])]
      BY <3>2
    <3>5. failures[a].left = Lockout - age /\ g[Len(g)] = age + 1 /\ age + 1 < Lockout
      BY <3>2, <3>3, <3>4
    <3>6. LessOne(Lockout - age) = Lockout - (age + 1)
      BY <3>5, GateNumbers DEF LessOne
    <3> QED
      BY <1>3, <3>5, <3>6
  <2> QED
    BY <2>2, <2>3, <2>4, <2>5
<1> QED
  BY <1>3, <1>4 DEF GuessInv, Passes

\* The cookie of one address is replaced, and what is remembered of its sign-in with it.
LEMMA CookieIsReplaced ==
    ASSUME SessionInv, NEW a \in Addresses, NEW key, NEW left \in 0..SessionLife, NEW age,
           UNCHANGED <<password, used>>,
           key \notin used => left = 0,
           age = IF key = password THEN SessionLife - left ELSE SessionLife,
           cookie' = [cookie EXCEPT ![a] = [key |-> key, left |-> left]],
           since' = [since EXCEPT ![a] = age]
    PROVE  SessionInv'
<1>1. DOMAIN cookie' = Addresses /\ DOMAIN since' = Addresses /\ password' \in used'
  BY DEF SessionInv
<1>2. cookie'[a].key = key /\ cookie'[a].left = left /\ since'[a] = age
  BY DEF SessionInv
<1>3. \A b \in Addresses : b # a => cookie'[b] = cookie[b] /\ since'[b] = since[b]
  BY DEF SessionInv
<1>4. ASSUME NEW b \in Addresses
      PROVE  /\ cookie'[b].left \in 0..SessionLife
             /\ cookie'[b].key \notin used' => cookie'[b].left = 0
             /\ since'[b] = IF cookie'[b].key = password' THEN SessionLife - cookie'[b].left
                                                          ELSE SessionLife
  <2>1. CASE b = a
    BY <1>2, <2>1
  <2>2. CASE b # a
    BY <1>3, <2>2 DEF SessionInv
  <2> QED
    BY <2>1, <2>2
<1> QED
  BY <1>1, <1>4 DEF SessionInv

\* No cookie in any browser is good for a password that comes for the first time.
LEMMA PasswordsComeOnce ==
    ASSUME SessionInv, NEW new, RestartWith(new)
    PROVE  SessionInv'
<1>1. \A a \in Addresses : cookie[a].left \in 0..SessionLife /\ cookie' = cookie
  BY DEF SessionInv, RestartWith
<1>2. CASE new = password
  BY <1>2 DEF SessionInv, RestartWith
<1>3. CASE new # password
  <2>1. new \notin used /\ password' = new /\ used' = used \cup {new}
    BY <1>3 DEF RestartWith
  <2>2. since' = [a \in Addresses |-> SessionLife]
    BY <1>3 DEF RestartWith
  <2>3. \A a \in Addresses : cookie[a].key = new => cookie[a].left = 0
    BY <2>1 DEF SessionInv
  <2>4. SessionLife - 0 = SessionLife
    BY GateNumbers
  <2>5. ASSUME NEW a \in Addresses
        PROVE  /\ cookie'[a].left \in 0..SessionLife
               /\ cookie'[a].key \notin used' => cookie'[a].left = 0
               /\ since'[a] = IF cookie'[a].key = password' THEN SessionLife - cookie'[a].left
                                                            ELSE SessionLife
    BY <1>1, <2>1, <2>2, <2>3, <2>4 DEF SessionInv
  <2>6. password' \in used' /\ DOMAIN cookie' = Addresses /\ DOMAIN since' = Addresses
    <3>1. DOMAIN since' = Addresses
      BY <2>2
    <3>2. UNCHANGED cookie /\ DOMAIN cookie = Addresses
      BY DEF SessionInv, RestartWith
    <3> QED
      BY <2>1, <3>1, <3>2
  <2> QED
    BY <2>5, <2>6 DEF SessionInv
<1> QED
  BY <1>2, <1>3

\* A session and its cookie grow old together.
LEMMA SecondOnSessions ==
    ASSUME SessionInv, Passes
    PROVE  SessionInv'
<1>1. /\ DOMAIN cookie' = Addresses /\ DOMAIN since' = Addresses
      /\ password' = password /\ used' = used /\ password \in used
  BY DEF SessionInv, Passes
<1>2. ASSUME NEW a \in Addresses
      PROVE  /\ cookie'[a].left \in 0..SessionLife
             /\ cookie'[a].key \notin used => cookie'[a].left = 0
             /\ since'[a] = IF cookie'[a].key = password THEN SessionLife - cookie'[a].left
                                                         ELSE SessionLife
  <2>1. cookie'[a] = [cookie[a] EXCEPT !.left = LessOne(cookie[a].left)]
    BY DEF Passes
  <2>2. since'[a] = IF since[a] = SessionLife THEN SessionLife ELSE since[a] + 1
    BY DEF Passes
  <2>3. PICK left \in Nat : left = cookie[a].left /\ left <= SessionLife
    BY GateNumbers DEF SessionInv
  <2>4. cookie'[a].left = LessOne(left) /\ cookie'[a].key = cookie[a].key
    BY <2>1, <2>3 DEF SessionInv
  <2>5. since[a] = IF cookie[a].key = password THEN SessionLife - left ELSE SessionLife
    BY <2>3 DEF SessionInv
  <2>6. LessOne(left) \in 0..SessionLife /\ (left = 0 => LessOne(left) = 0)
    BY <2>3, GateNumbers DEF LessOne
  <2>7. cookie[a].key \notin used => left = 0
    BY <2>3 DEF SessionInv
  <2>8. CASE cookie[a].key = password
    <3>1. since[a] = SessionLife - left
      BY <2>5, <2>8
    <3>2. since'[a] = SessionLife - LessOne(left)
      BY <2>2, <2>3, <3>1, GateNumbers DEF LessOne
    <3> QED
      BY <2>4, <2>6, <2>7, <2>8, <3>2
  <2>9. CASE cookie[a].key # password
    BY <2>2, <2>4, <2>5, <2>6, <2>7, <2>9
  <2> QED
    BY <2>8, <2>9
<1> QED
  BY <1>1, <1>2 DEF SessionInv

GateInv == GuessInv /\ SessionInv

\* Time, guesses, sign-ins, sign-outs and restarts keep both halves.
LEMMA GateInvStep ==
    GateInv /\ [GateNext]_gateVars => GateInv'
<1> SUFFICES ASSUME GuessInv, SessionInv, [GateNext]_gateVars
             PROVE  GuessInv' /\ SessionInv'
  BY DEF GateInv
<1>1. ASSUME UNCHANGED <<failures, guesses>> PROVE GuessInv'
  BY <1>1 DEF GuessInv
<1>2. ASSUME UNCHANGED <<password, used, cookie, since>> PROVE SessionInv'
  BY <1>2 DEF SessionInv
<1>3. CASE Passes
  BY <1>3, SecondOnGuesses, SecondOnSessions
<1>4. ASSUME NEW new, RestartWith(new) PROVE GuessInv' /\ SessionInv'
  <2>1. /\ failures' = [a \in Addresses |-> IF a \in Addresses THEN Clean ELSE failures[a]]
        /\ guesses' = [a \in Addresses |-> IF a \in Addresses THEN <<>> ELSE guesses[a]]
    BY <1>4 DEF RestartWith
  <2> QED
    BY <1>4, <2>1, FreshStart, PasswordsComeOnce
<1>5. ASSUME NEW a \in Addresses, NEW candidate \in Passwords, SignIn(a, candidate)
      PROVE  GuessInv' /\ SessionInv'
  <2>1. CASE UNCHANGED <<failures, cookie, since, guesses>>
    BY <1>1, <1>2, <1>5, <2>1 DEF SignIn
  <2>2. CASE /\ ~IsLocked(a) /\ candidate # password
             /\ failures' = [failures EXCEPT ![a] = AfterFailure(a)]
             /\ guesses' = [guesses EXCEPT ![a] = Append(@, 0)]
             /\ UNCHANGED <<cookie, since>>
    BY <1>2, <1>5, <2>2, GuessIsCounted DEF SignIn
  <2>3. CASE /\ failures' = [failures EXCEPT ![a] = Clean]
             /\ guesses' = [guesses EXCEPT ![a] = <<>>]
             /\ cookie' = [cookie EXCEPT ![a] = [key |-> password, left |-> SessionLife]]
             /\ since' = [since EXCEPT ![a] = 0]
    <3>1. GuessInv'
      <4>1. /\ failures' = [b \in Addresses |-> IF b \in {a} THEN Clean ELSE failures[b]]
            /\ guesses' = [b \in Addresses |-> IF b \in {a} THEN <<>> ELSE guesses[b]]
        BY <2>3 DEF GuessInv
      <4> QED
        BY <4>1, FreshStart
    <3>2. SessionInv'
      <4>1. SessionLife \in 0..SessionLife /\ 0 = SessionLife - SessionLife
        BY GateNumbers
      <4>2. password \in used /\ UNCHANGED <<password, used>>
        BY <1>5 DEF SessionInv, SignIn
      <4> QED
        BY <2>3, <4>1, <4>2, CookieIsReplaced
    <3> QED
      BY <3>1, <3>2
  <2> QED
    BY <1>5, <2>1, <2>2, <2>3 DEF SignIn
<1>6. ASSUME NEW a \in Addresses, SignOut(a) PROVE GuessInv' /\ SessionInv'
  <2>1. 0 \in 0..SessionLife /\ SessionLife - 0 = SessionLife
    BY GateNumbers
  <2> QED
    BY <1>1, <1>6, <2>1, CookieIsReplaced DEF SignOut, NoCookie
<1>7. ASSUME NEW a \in Addresses, AskStatus(a) \/ SessionStatus(a) \/ Show(a)
      PROVE  GuessInv' /\ SessionInv'
  BY <1>1, <1>2, <1>7 DEF AskStatus, SessionStatus, Show
<1>8. CASE UNCHANGED gateVars
  BY <1>1, <1>2, <1>8 DEF gateVars
<1> QED
  BY <1>3, <1>4, <1>5, <1>6, <1>7, <1>8 DEF GateNext

\* GuessesAreBounded for any number of addresses, limit and lockout: in no stretch as
\* long as the lockout are more wrong passwords compared than AttemptLimiter allows.
THEOREM GuessesStayBounded == GateSpec => []GuessesAreBounded
<1>1. GateInv => GuessesAreBounded
  <2> SUFFICES ASSUME GuessInv, NEW a \in Addresses PROVE Len(guesses[a]) <= MaxFailures
    BY DEF GateInv, GuessesAreBounded
  <2>1. Len(guesses[a]) <= failures[a].count /\ failures[a].count <= MaxFailures
    BY DEF GuessInv
  <2>2. Len(guesses[a]) \in Nat /\ failures[a].count \in Nat
    BY DEF GuessInv
  <2> QED
    BY <2>1, <2>2, GateNumbers
<1> QED
  BY <1>1, GateInvInit, GateInvStep, PTL DEF GateSpec, GateInv

\* TheCookieIsTheSession for any passwords, session life and number of browsers: across
\* restarts and changed passwords the signature alone admits what the sign-ins did.
THEOREM CookiesAreSessions == GateSpec => []TheCookieIsTheSession
<1>1. GateInv => TheCookieIsTheSession
  <2> SUFFICES ASSUME SessionInv, NEW a \in Addresses, Enabled
               PROVE  Admitted(a) <=> since[a] < SessionLife
    BY DEF GateInv, TheCookieIsTheSession
  <2> QED
    BY GateNumbers DEF SessionInv, Admitted, TokenIsValid
<1> QED
  BY <1>1, GateInvInit, GateInvStep, PTL DEF GateSpec, GateInv

-----------------------------------------------------------------------------
(* The stream *)

Frames == [type : {"pick_made", "board_updated", "remark"}, no : Nat]

\* The types the steps of the stream go by; no read is in flight once one has failed,
\* and only a live room tells of its picks later.
StreamShape ==
    /\ mode \in {"live", "mock"} /\ pending \in BOOLEAN
    /\ version \in Nat /\ announced \in Nat /\ announced <= version
    /\ sequence \in Nat /\ seenNo \in Nat
    /\ subscription \in Seq(Frames)
    /\ onScreen \in Int /\ fetch \in Int /\ fetch >= NoRead
    /\ failed \in BOOLEAN /\ (failed => fetch = NoRead)
    /\ pending => mode = "live"

\* The version the browser ends with if nothing more reaches it.
NextBoard == IF fetch = NoRead THEN onScreen ELSE IF fetch = Asked THEN version ELSE fetch

\* Nothing announced is missing from it, or the screen says that it failed.
UpToDate == failed \/ NextBoard >= announced

\* A number the browser has still to pass that no remark in its queue will take it over.
Tell(n) == /\ n > seenNo /\ n <= sequence
           /\ \A i \in DOMAIN subscription :
                 subscription[i].type = "remark" => subscription[i].no # n

\* Something will show the browser that it missed a change: the number a stream opens
\* at, or the next frame of an open one.  A live room's announcements take two numbers.
Cued ==
    IF socket \in {"open", "silent"}
    THEN \E n \in Nat : Tell(n) /\ (mode = "live" => Tell(n + 1))
    ELSE sequence >= seenNo + (IF mode = "live" THEN 2 ELSE 1)

\* The numbers of a stream go on from the one the browser holds.
Numbered ==
    /\ \A i \in DOMAIN subscription : subscription[i].no >= 1 /\ subscription[i].no <= sequence
    /\ ~Subscribed => subscription = <<>>
    /\ ~blind => seenNo <= sequence
    /\ (socket \in {"open", "silent"} /\ seenNo = 0 /\ sequence > 0) =>
          (subscription # <<>> /\ subscription[1].no = 1)

StreamInv == StreamShape /\ Numbered /\ (blind \/ UpToDate \/ Cued)

\* Nothing is published and nothing is missing.
LEMMA StreamInvInit ==
    StreamInit => StreamInv
<1> SUFFICES ASSUME StreamInit PROVE StreamInv
  OBVIOUS
<1>1. subscription \in Seq(Frames) /\ DOMAIN subscription = {} /\ ~Subscribed
  BY DEF StreamInit, Subscribed
<1>2. StreamShape
  <2>1. version \in Nat /\ announced \in Nat /\ announced <= version /\ sequence \in Nat
    BY DEF StreamInit
  <2>2. onScreen \in Int /\ fetch \in Int /\ fetch >= NoRead
    BY DEF StreamInit, NotLoaded, NoRead, Asked
  <2> QED
    BY <1>1, <2>1, <2>2 DEF StreamInit, StreamShape
<1>3. UpToDate
  BY DEF StreamInit, UpToDate, NextBoard, NoRead, Asked
<1>4. Numbered
  BY <1>1 DEF StreamInit, Numbered
<1> QED
  BY <1>2, <1>3, <1>4 DEF StreamInv

\* What a queue holds was in it or is offered now, and its head stays.
LEMMA OfferedFrames ==
    ASSUME NEW q \in Seq(Frames), NEW events \in Seq(Frames)
    PROVE  /\ Offered(q, events) \in Seq(Frames)
           /\ \A i \in DOMAIN Offered(q, events) :
                 \/ i \in DOMAIN q /\ Offered(q, events)[i] = q[i]
                 \/ \E j \in DOMAIN events : Offered(q, events)[i] = events[j]
           /\ q # <<>> => Offered(q, events) # <<>> /\ Offered(q, events)[1] = q[1]
           /\ (q = <<>> /\ events # <<>>) =>
                 (Offered(q, events) # <<>> /\ Offered(q, events)[1] = events[1])
<1> DEFINE all == q \o events
<1>1. /\ all \in Seq(Frames) /\ Len(all) = Len(q) + Len(events)
      /\ \A i \in 1..Len(q) : all[i] = q[i]
      /\ \A i \in 1..Len(events) : all[Len(q) + i] = events[i]
  OBVIOUS
<1>2. \A i \in 1..Len(all) : \/ i \in DOMAIN q /\ all[i] = q[i]
                             \/ \E j \in DOMAIN events : all[i] = events[j]
  <2> SUFFICES ASSUME NEW i \in 1..Len(all), i \notin 1..Len(q)
               PROVE  \E j \in DOMAIN events : all[i] = events[j]
    BY <1>1
  <2>1. i - Len(q) \in 1..Len(events) /\ i = Len(q) + (i - Len(q))
    BY <1>1
  <2> QED
    BY <1>1, <2>1
<1>3. q # <<>> => all # <<>> /\ all[1] = q[1]
  BY <1>1
<1>4. (q = <<>> /\ events # <<>>) => (all # <<>> /\ all[1] = events[1])
  BY <1>1
<1>5. CASE Len(all) <= QueueSize
  <2>1. Offered(q, events) = all
    BY <1>5 DEF Offered
  <2> QED
    BY <1>1, <1>2, <1>3, <1>4, <2>1
<1>6. CASE ~(Len(all) <= QueueSize)
  <2> DEFINE kept == SubSeq(all, 1, QueueSize)
  <2>1. Offered(q, events) = kept
    BY <1>6 DEF Offered
  <2>2. QueueSize \in Nat /\ QueueSize >= 1 /\ QueueSize <= Len(all)
    BY <1>1, <1>6, QueueAssumption
  <2>3. /\ kept \in Seq(Frames) /\ Len(kept) = QueueSize /\ DOMAIN kept = 1..QueueSize
        /\ \A i \in 1..QueueSize : kept[i] = all[i]
    <3> HIDE DEF all
    <3> QED
      BY <1>1, <2>2
  <2>4. kept # <<>> /\ kept[1] = all[1] /\ \A i \in 1..QueueSize : i \in 1..Len(all)
    BY <2>2, <2>3
  <2> HIDE DEF kept, all
  <2> QED
    BY <1>2, <1>3, <1>4, <2>1, <2>3, <2>4
<1> QED
  BY <1>5, <1>6

\* Publishing adds numbers to pass, and takes from no number what it tells.
LEMMA PublishedFrames ==
    ASSUME StreamShape, Numbered,
           NEW types \in Seq({"pick_made", "board_updated", "remark"}), types # <<>>,
           Published(types), UNCHANGED <<mode, socket, seenNo, blind>>
    PROVE  /\ sequence' = sequence + Len(types)
           /\ subscription' \in Seq(Frames) /\ Numbered'
           /\ \A n \in Nat : Tell(n) => Tell(n)'
           /\ ~blind => \A k \in 1..Len(types) :
                 (\A j \in 1..Len(types) : types[j] # "remark") =>
                    \A n \in Nat : n = sequence + k => Tell(n)'
<1> DEFINE events == [i \in 1..Len(types) |-> [type |-> types[i], no |-> sequence + i]]
<1>1. sequence \in Nat /\ Len(types) \in Nat /\ Len(types) >= 1 /\ seenNo \in Nat
      /\ subscription \in Seq(Frames)
      /\ \A i \in DOMAIN subscription : subscription[i].no \in Nat
  <2>1. \A f \in Frames : f.no \in Nat
    BY DEF Frames
  <2> QED
    BY <2>1 DEF StreamShape
<1>2. sequence' = sequence + Len(types)
  BY DEF Published
<1>3. events \in Seq(Frames) /\ DOMAIN events = 1..Len(types) /\ events # <<>>
      /\ \A i \in 1..Len(types) : events[i].no = sequence + i /\ events[i].type = types[i]
  BY <1>1 DEF Frames
<1>4. subscription' = IF Subscribed THEN Offered(subscription, events) ELSE <<>>
  BY DEF Published
<1> HIDE DEF events
<1>5. /\ subscription' \in Seq(Frames)
      /\ \A i \in DOMAIN subscription' :
            \/ i \in DOMAIN subscription /\ subscription'[i] = subscription[i]
            \/ \E j \in 1..Len(types) : subscription'[i] = events[j]
  <2>1. CASE Subscribed
    <3>1. subscription \in Seq(Frames) /\ subscription' = Offered(subscription, events)
      BY <1>1, <1>4, <2>1
    <3>2. PICK q \in Seq(Frames), e \in Seq(Frames) : q = subscription /\ e = events
      BY <1>3, <3>1
    <3>3. /\ subscription' = Offered(q, e) /\ Offered(q, e) \in Seq(Frames)
          /\ \A i \in DOMAIN Offered(q, e) : \/ i \in DOMAIN q /\ Offered(q, e)[i] = q[i]
                                            \/ \E j \in DOMAIN e : Offered(q, e)[i] = e[j]
      BY <3>1, <3>2, OfferedFrames
    <3> QED
      BY <1>3, <3>2, <3>3
  <2>2. CASE ~Subscribed
    BY <1>4, <2>2
  <2> QED
    BY <2>1, <2>2
<1>6. Numbered'
  <2>1. \A i \in DOMAIN subscription' :
           subscription'[i].no >= 1 /\ subscription'[i].no <= sequence'
    <3> SUFFICES ASSUME NEW i \in DOMAIN subscription'
                 PROVE  subscription'[i].no >= 1 /\ subscription'[i].no <= sequence'
      OBVIOUS
    <3>1. CASE i \in DOMAIN subscription /\ subscription'[i] = subscription[i]
      <4>1. subscription[i].no >= 1 /\ subscription[i].no <= sequence
        BY <3>1 DEF Numbered
      <4>2. subscription[i].no \in Nat
        BY <1>1, <3>1
      <4> QED
        BY <1>1, <1>2, <3>1, <4>1, <4>2
    <3>2. ASSUME NEW j \in 1..Len(types), subscription'[i] = events[j]
          PROVE  subscription'[i].no >= 1 /\ subscription'[i].no <= sequence'
      BY <1>1, <1>2, <1>3, <3>2
    <3> QED
      BY <1>5, <3>1, <3>2
  <2>2. ~Subscribed' => subscription' = <<>>
    BY <1>4 DEF Subscribed
  <2>3. ~blind' => seenNo' <= sequence'
    BY <1>1, <1>2 DEF Numbered
  <2>4. ASSUME socket' \in {"open", "silent"}, seenNo' = 0
        PROVE  subscription' # <<>> /\ subscription'[1].no = 1
    <3>1. Subscribed /\ subscription' = Offered(subscription, events)
      BY <1>4, <2>4 DEF Subscribed
    <3>2. CASE subscription # <<>>
      <4>1. subscription[1].no >= 1 /\ subscription[1].no <= sequence /\ subscription[1].no \in Nat
        BY <1>1, <3>2 DEF Numbered
      <4>2. subscription[1].no = 1
        BY <1>1, <2>4, <3>2, <4>1 DEF Numbered
      <4> QED
        BY <1>1, <1>3, <3>1, <3>2, <4>2, OfferedFrames
    <3>3. CASE subscription = <<>>
      <4>1. sequence = 0
        BY <1>1, <2>4, <3>3 DEF Numbered
      <4>2. subscription' # <<>> /\ subscription'[1] = events[1]
        BY <1>1, <1>3, <3>1, <3>3, OfferedFrames
      <4> QED
        BY <1>1, <1>3, <4>1, <4>2
    <3> QED
      BY <3>2, <3>3
  <2> QED
    BY <2>1, <2>2, <2>3, <2>4 DEF Numbered
<1>7. ASSUME NEW n \in Nat, Tell(n) PROVE Tell(n)'
  <2>1. n > seenNo' /\ n <= sequence'
    BY <1>1, <1>2, <1>7 DEF Tell
  <2>2. ASSUME NEW i \in DOMAIN subscription', subscription'[i].type = "remark"
        PROVE  subscription'[i].no # n
    <3>1. CASE i \in DOMAIN subscription /\ subscription'[i] = subscription[i]
      BY <1>7, <2>2, <3>1 DEF Tell
    <3>2. ASSUME NEW j \in 1..Len(types), subscription'[i] = events[j]
          PROVE  subscription'[i].no # n
      <4>1. subscription'[i].no = sequence + j /\ n <= sequence
        BY <1>3, <1>7, <3>2 DEF Tell
      <4> QED
        BY <1>1, <4>1
    <3> QED
      BY <1>5, <3>1, <3>2
  <2> QED
    BY <2>1, <2>2 DEF Tell
<1>8. ASSUME ~blind, NEW k \in 1..Len(types), \A j \in 1..Len(types) : types[j] # "remark",
             NEW n \in Nat, n = sequence + k
      PROVE  Tell(n)'
  <2>1. n > seenNo' /\ n <= sequence'
    BY <1>1, <1>2, <1>8 DEF Numbered
  <2>2. ASSUME NEW i \in DOMAIN subscription', subscription'[i].type = "remark"
        PROVE  subscription'[i].no # n
    <3>1. i \in DOMAIN subscription /\ subscription'[i] = subscription[i]
      BY <1>3, <1>5, <1>8, <2>2
    <3>2. subscription[i].no \in Nat /\ subscription[i].no <= sequence
      BY <1>1, <3>1 DEF Numbered
    <3> QED
      BY <1>1, <1>8, <3>1, <3>2
  <2> QED
    BY <2>1, <2>2 DEF Tell
<1> QED
  BY <1>2, <1>5, <1>6, <1>7, <1>8

\* What is cued on an open stream stays missed when the connection is lost.
LEMMA CuedMeansMissed ==
    ASSUME StreamShape, Cued
    PROVE  sequence >= seenNo + (IF mode = "live" THEN 2 ELSE 1)
<1>1. sequence \in Nat /\ seenNo \in Nat
  BY DEF StreamShape
<1>2. CASE socket \in {"open", "silent"}
  <2>1. PICK n \in Nat : Tell(n) /\ (mode = "live" => Tell(n + 1))
    BY <1>2 DEF Cued
  <2>2. n > seenNo /\ n <= sequence /\ (mode = "live" => n + 1 <= sequence)
    BY <2>1 DEF Tell
  <2> QED
    BY <1>1, <2>2
<1>3. CASE socket \notin {"open", "silent"}
  BY <1>3 DEF Cued
<1> QED
  BY <1>2, <1>3

\* A board asked for again is current, unless the first read was answered before.
LEMMA ReadIsCurrent ==
    ASSUME StreamShape, ReadsBoard, UNCHANGED <<version, announced>>,
           blind' = (blind \/ FirstReadIsOld)
    PROVE  /\ onScreen' \in Int /\ fetch' \in Int /\ fetch' >= NoRead /\ failed' = FALSE
           /\ blind' \/ UpToDate'
<1>1. /\ onScreen' = onScreen /\ failed' = FALSE
      /\ fetch' = IF onScreen = NotLoaded /\ fetch # NoRead THEN fetch ELSE Asked
  BY DEF ReadsBoard, AskedAgain
<1>2. fetch \in Int /\ fetch >= -2 /\ onScreen \in Int /\ announced <= version
  BY DEF StreamShape, NoRead
<1>3. CASE fetch' = Asked
  <2>1. NextBoard' = version' /\ version' >= announced'
    BY <1>2, <1>3 DEF NextBoard, NoRead, Asked, StreamShape
  <2> QED
    BY <1>1, <1>2, <1>3, <2>1 DEF UpToDate, NoRead, Asked
<1>4. CASE onScreen = NotLoaded /\ fetch # NoRead /\ fetch # Asked
  <2>1. fetch >= 0
    BY <1>2, <1>4 DEF NoRead, Asked
  <2> QED
    BY <1>1, <1>2, <1>4, <2>1 DEF FirstReadIsOld, NoRead
<1> QED
  BY <1>1, <1>3, <1>4

\* The stream stays what it is when the room, the screen or the reads move on.
LEMMA SameStream ==
    ASSUME Numbered, UNCHANGED <<mode, sequence, socket, subscription, seenNo, blind>>
    PROVE  Numbered' /\ (Cued => Cued')
<1>1. Numbered'
  BY DEF Numbered, Subscribed
<1>2. \A n \in Nat : Tell(n) => Tell(n)'
  BY DEF Tell
<1>3. Cued => Cued'
  <2>1. CASE socket \in {"open", "silent"}
    <3> SUFFICES ASSUME NEW n \in Nat, Tell(n), mode = "live" => Tell(n + 1) PROVE Cued'
      BY <2>1 DEF Cued
    <3>1. n + 1 \in Nat
      OBVIOUS
    <3>2. Tell(n)' /\ (mode' = "live" => Tell(n + 1)')
      BY DEF Tell
    <3> QED
      BY <2>1, <3>2 DEF Cued
  <2>2. CASE socket \notin {"open", "silent"}
    BY <2>2 DEF Cued
  <2> QED
    BY <2>1, <2>2
<1> QED
  BY <1>1, <1>3

\* An announcement of a room that is not followed blindly is cued, whatever the queue
\* holds and drops.
LEMMA AnnouncedIsCued ==
    ASSUME StreamShape, Numbered, ~blind,
           NEW types \in Seq({"pick_made", "board_updated"}), types # <<>>,
           mode = "live" => Len(types) = 2,
           Published(types), UNCHANGED <<mode, socket, seenNo, blind>>
    PROVE  Cued'
<1>1. types \in Seq({"pick_made", "board_updated", "remark"})
      /\ \A j \in 1..Len(types) : types[j] # "remark"
  OBVIOUS
<1>2. /\ sequence' = sequence + Len(types) /\ sequence \in Nat /\ seenNo \in Nat
      /\ Len(types) \in Nat /\ Len(types) >= 1 /\ seenNo <= sequence
  BY DEF Published, StreamShape, Numbered
<1>3. CASE socket \in {"open", "silent"}
  <2>1. PICK n \in Nat : n = sequence + 1
    BY <1>2
  <2>2. \A k \in 1..Len(types) : \A m \in Nat : m = sequence + k => Tell(m)'
    BY <1>1, PublishedFrames
  <2>3. Tell(n)'
    BY <1>2, <2>1, <2>2
  <2>4. ASSUME mode = "live" PROVE Tell(n + 1)'
    <3>1. 2 \in 1..Len(types) /\ n + 1 \in Nat /\ n + 1 = sequence + 2
      BY <1>2, <2>1, <2>4
    <3> QED
      BY <2>2, <3>1
  <2> QED
    BY <1>3, <2>3, <2>4 DEF Cued
<1>4. CASE socket \notin {"open", "silent"}
  <2>1. sequence' >= seenNo' + (IF mode' = "live" THEN 2 ELSE 1)
    <3>1. PICK k \in Nat : k = Len(types) /\ sequence' = sequence + k
      BY <1>2
    <3>2. k >= 1 /\ (mode = "live" => k >= 2)
      BY <1>2, <3>1
    <3>3. CASE mode = "live"
      BY <1>2, <3>1, <3>2, <3>3
    <3>4. CASE mode # "live"
      BY <1>2, <3>1, <3>2, <3>4
    <3> QED
      BY <3>3, <3>4
  <2> QED
    BY <1>4, <2>1 DEF Cued
<1> QED
  BY <1>3, <1>4

\* What the server does - a change, its announcement, a remark, a restart - is seen or cued.
LEMMA RoomKeepsTheStream ==
    ASSUME StreamInv, Server
    PROVE  StreamInv'
<1> USE DEF room, client, query
<1>1. StreamShape /\ Numbered /\ (blind \/ UpToDate \/ Cued)
  BY DEF StreamInv
<1>2. version \in Nat /\ announced \in Nat /\ announced <= version /\ fetch \in Int
      /\ onScreen \in Int /\ mode \in {"live", "mock"}
  BY <1>1 DEF StreamShape
<1>3. ASSUME version' = version + 1 \/ version' = version,
             UNCHANGED <<announced, query>>, UpToDate
      PROVE  UpToDate'
  BY <1>2, <1>3 DEF UpToDate, NextBoard, Asked, NoRead
<1>4. CASE LivePicks \/ Merge
  <2>1. UNCHANGED <<mode, sequence, socket, subscription, seenNo, blind, announced, query>>
    BY <1>4 DEF LivePicks, Merge
  <2>2. version' = version + 1 /\ pending' \in BOOLEAN /\ mode = "live"
    BY <1>1, <1>4 DEF LivePicks, Merge, VersionGrows, StreamShape
  <2>3. StreamShape'
    <3>1. version' \in Nat /\ announced' <= version'
      BY <1>2, <2>1, <2>2
    <3> QED
      BY <1>1, <2>1, <2>2, <3>1 DEF StreamShape
  <2>4. Numbered' /\ (Cued => Cued') /\ (UpToDate => UpToDate')
    BY <1>1, <1>3, <2>1, <2>2, SameStream
  <2> QED
    BY <1>1, <2>1, <2>3, <2>4 DEF StreamInv
<1>5. ASSUME NEW types \in Seq({"pick_made", "board_updated"}), types # <<>>,
             mode = "live" => Len(types) = 2, Published(types),
             announced' = version', version' \in Nat, pending' = FALSE \/ pending' = pending,
             UNCHANGED <<mode, socket, client, query, breaks, blind>>
      PROVE  StreamInv'
  <2>1. types \in Seq({"pick_made", "board_updated", "remark"})
    BY <1>5
  <2>2. subscription' \in Seq(Frames) /\ Numbered' /\ sequence' \in Nat
    BY <1>1, <1>5, <2>1, PublishedFrames DEF StreamShape
  <2>3. StreamShape'
    <3>1. version' \in Nat /\ announced' \in Nat /\ announced' <= version'
      BY <1>5
    <3>2. pending' \in BOOLEAN /\ (pending' => mode' = "live")
      <4>1. pending \in BOOLEAN /\ (pending => mode = "live") /\ mode' = mode
        BY <1>1, <1>5 DEF StreamShape
      <4>2. CASE pending' = FALSE
        BY <4>2
      <4>3. CASE pending' = pending
        BY <4>1, <4>3, Zenon
      <4> QED
        BY <1>5, <4>2, <4>3
    <3>3. mode' \in {"live", "mock"} /\ seenNo' \in Nat /\ failed' \in BOOLEAN
          /\ onScreen' \in Int /\ fetch' \in Int /\ fetch' >= NoRead
          /\ (failed' => fetch' = NoRead)
      BY <1>1, <1>5 DEF StreamShape
    <3> QED
      BY <2>2, <3>1, <3>2, <3>3 DEF StreamShape
  <2>4. ~blind => Cued'
    BY <1>1, <1>5, AnnouncedIsCued
  <2> QED
    BY <1>5, <2>2, <2>3, <2>4 DEF StreamInv
<1>6. CASE LiveTells
  <2>1. <<"pick_made", "board_updated">> \in Seq({"pick_made", "board_updated"})
        /\ <<"pick_made", "board_updated">> # <<>> /\ Len(<<"pick_made", "board_updated">>) = 2
    OBVIOUS
  <2>2. /\ Published(<<"pick_made", "board_updated">>) /\ pending' = FALSE
        /\ announced' = version' /\ version' \in Nat
        /\ UNCHANGED <<mode, socket, client, query, breaks, blind>>
    BY <1>2, <1>6 DEF LiveTells
  <2> QED
    BY <1>5, <2>1, <2>2
<1>7. CASE MockChanges
  <2>1. /\ <<"pick_made", "board_updated">> \in Seq({"pick_made", "board_updated"})
        /\ <<"board_updated">> \in Seq({"pick_made", "board_updated"})
        /\ <<"pick_made", "board_updated">> # <<>> /\ <<"board_updated">> # <<>>
    OBVIOUS
  <2>2. /\ Published(<<"pick_made", "board_updated">>) \/ Published(<<"board_updated">>)
        /\ announced' = version' /\ version' \in Nat /\ mode = "mock" /\ pending' = pending
        /\ UNCHANGED <<mode, socket, client, query, breaks, blind>>
    BY <1>2, <1>7 DEF MockChanges, VersionGrows
  <2>3. mode # "live"
    BY <2>2
  <2> QED
    BY <1>5, <2>1, <2>2, <2>3
<1>8. CASE Remarks
  <2>1. <<"remark">> \in Seq({"pick_made", "board_updated", "remark"}) /\ <<"remark">> # <<>>
        /\ Len(<<"remark">>) = 1
    OBVIOUS
  <2>2. Published(<<"remark">>) /\ UNCHANGED <<room, socket, client, query, breaks, blind>>
    BY <1>8 DEF Remarks
  <2>3. /\ subscription' \in Seq(Frames) /\ Numbered' /\ sequence' = sequence + 1
        /\ \A n \in Nat : Tell(n) => Tell(n)'
    BY <1>1, <2>1, <2>2, PublishedFrames
  <2>4. sequence \in Nat /\ seenNo \in Nat
    BY <1>1 DEF StreamShape
  <2>5. StreamShape'
    BY <1>1, <2>2, <2>3, <2>4 DEF StreamShape
  <2>6. UpToDate => UpToDate'
    BY <1>3, <2>2
  <2>7. Cued => Cued'
    <3>1. CASE socket \in {"open", "silent"}
      <4> SUFFICES ASSUME NEW n \in Nat, Tell(n), mode = "live" => Tell(n + 1) PROVE Cued'
        BY <3>1 DEF Cued
      <4>1. PICK m \in Nat : m = n + 1
        OBVIOUS
      <4>2. Tell(n)' /\ (mode' = "live" => Tell(m)')
        BY <2>2, <2>3, <4>1
      <4> QED
        BY <2>2, <3>1, <4>1, <4>2 DEF Cued
    <3>2. CASE socket \notin {"open", "silent"}
      BY <2>2, <2>3, <2>4, <3>2 DEF Cued
    <3> QED
      BY <3>1, <3>2
  <2> QED
    BY <1>1, <2>2, <2>3, <2>5, <2>6, <2>7 DEF StreamInv
<1>9. CASE Subscribes
  <2>1. /\ socket = "opening" /\ socket' = "subscribed" /\ subscription = <<>>
        /\ UNCHANGED <<room, sequence, subscription, client, query, blind>>
    BY <1>1, <1>9 DEF Subscribes, Numbered, Subscribed
  <2>2. StreamShape'
    BY <1>1, <2>1 DEF StreamShape
  <2>3. Numbered'
    BY <1>1, <2>1 DEF Numbered, Subscribed
  <2>4. (Cued => Cued') /\ (UpToDate => UpToDate')
    BY <1>3, <2>1 DEF Cued
  <2> QED
    BY <1>1, <2>1, <2>2, <2>3, <2>4 DEF StreamInv
<1> QED
  BY <1>4, <1>6, <1>7, <1>8, <1>9 DEF Server

\* A frame that arrives is in order, shows a gap, or is a remark that moves the number on.
LEMMA DeliveryKeepsTheStream ==
    ASSUME StreamInv, Deliver
    PROVE  StreamInv'
<1> USE DEF room, client, query
<1>1. StreamShape /\ Numbered /\ (blind \/ UpToDate \/ Cued)
  BY DEF StreamInv
<1>2. /\ socket = "open" /\ subscription # <<>> /\ subscription' = Tail(subscription)
      /\ UNCHANGED <<room, sequence, socket, breaks>>
  BY DEF Deliver
<1>3. PICK e \in Frames : e = Head(subscription) /\ e = subscription[1]
  BY <1>1, <1>2 DEF StreamShape
<1>4. /\ e.no \in Nat /\ e.no >= 1 /\ e.no <= sequence
      /\ sequence \in Nat /\ seenNo \in Nat /\ subscription \in Seq(Frames)
  <2>1. e.no \in Nat
    BY <1>3 DEF Frames
  <2>2. 1 \in DOMAIN subscription
    BY <1>1, <1>2 DEF StreamShape
  <2> QED
    BY <1>1, <1>3, <2>1, <2>2 DEF StreamShape, Numbered
<1>5. seenNo' = IF e.no > seenNo THEN e.no ELSE seenNo
  BY <1>3 DEF Deliver, Advanced
<1>6. /\ subscription' \in Seq(Frames) /\ Len(subscription') = Len(subscription) - 1
      /\ \A i \in DOMAIN subscription' :
            i + 1 \in DOMAIN subscription /\ subscription'[i] = subscription[i + 1]
  BY <1>2, <1>4
<1>7. Numbered'
  <2>1. \A i \in DOMAIN subscription' :
           subscription'[i].no >= 1 /\ subscription'[i].no <= sequence'
    BY <1>1, <1>2, <1>6 DEF Numbered
  <2>2. ~blind' => ~blind
    BY DEF Deliver
  <2>3. ~blind' => seenNo' <= sequence'
    BY <1>1, <1>2, <1>4, <1>5, <2>2 DEF Numbered
  <2>4. seenNo' # 0
    BY <1>4, <1>5
  <2> QED
    BY <1>2, <2>1, <2>3, <2>4 DEF Numbered, Subscribed
<1>8. CASE Rereads(e)
  <2>1. ReadsBoard /\ blind' = (blind \/ FirstReadIsOld)
    BY <1>3, <1>8 DEF Deliver
  <2>2. /\ onScreen' \in Int /\ fetch' \in Int /\ fetch' >= NoRead /\ failed' = FALSE
        /\ blind' \/ UpToDate'
    BY <1>1, <1>2, <2>1, ReadIsCurrent
  <2>3. seenNo' \in Nat
    BY <1>4, <1>5
  <2>4. StreamShape'
    BY <1>1, <1>2, <1>6, <2>2, <2>3 DEF StreamShape
  <2> QED
    BY <1>7, <2>2, <2>4 DEF StreamInv
<1>9. CASE ~Rereads(e)
  <2>1. UNCHANGED <<query, blind>>
    BY <1>3, <1>9 DEF Deliver
  <2>2. e.type = "remark" /\ ~(e.no > seenNo + 1 /\ seenNo > 0)
    BY <1>3, <1>9 DEF Rereads, IsGap, Frames
  <2>3. e.no <= seenNo + 1
    BY <1>1, <1>2, <1>3, <1>4, <2>2 DEF Numbered
  <2>4. seenNo' \in Nat
    BY <1>4, <1>5
  <2>5. StreamShape'
    BY <1>1, <1>2, <1>6, <2>1, <2>4 DEF StreamShape
  <2>6. UpToDate => UpToDate'
    BY <1>2, <2>1 DEF UpToDate, NextBoard
  <2>7. ASSUME NEW n \in Nat, Tell(n) PROVE Tell(n)'
    <3>1. n # e.no
      <4>1. 1 \in DOMAIN subscription
        BY <1>2, <1>4
      <4> QED
        BY <1>3, <2>2, <2>7, <4>1 DEF Tell
    <3>2. n > seenNo' /\ n <= sequence'
      BY <1>2, <1>4, <1>5, <2>3, <2>7, <3>1 DEF Tell
    <3>3. \A i \in DOMAIN subscription' :
             subscription'[i].type = "remark" => subscription'[i].no # n
      BY <1>6, <2>7 DEF Tell
    <3> QED
      BY <3>2, <3>3 DEF Tell
  <2>8. Cued => Cued'
    <3> SUFFICES ASSUME NEW n \in Nat, Tell(n), mode = "live" => Tell(n + 1) PROVE Cued'
      BY <1>2 DEF Cued
    <3>1. PICK m \in Nat : m = n + 1
      OBVIOUS
    <3>2. Tell(n)' /\ (mode' = "live" => Tell(m)')
      BY <1>2, <2>7, <3>1
    <3> QED
      BY <1>2, <3>1, <3>2 DEF Cued
  <2> QED
    BY <1>1, <1>7, <2>1, <2>5, <2>6, <2>8 DEF StreamInv
<1> QED
  BY <1>8, <1>9

\* A first frame either shows the browser what it missed, or opens a stream blindly.
LEMMA FirstFrameKeepsTheStream ==
    ASSUME StreamInv, FirstFrame
    PROVE  StreamInv'
<1> USE DEF room, client, query
<1>1. StreamShape /\ Numbered /\ (blind \/ UpToDate \/ Cued)
  BY DEF StreamInv
<1>2. /\ socket = "subscribed" /\ socket' = "open"
      /\ UNCHANGED <<room, sequence, subscription, breaks>>
  BY DEF FirstFrame
<1>3. /\ sequence \in Nat /\ seenNo \in Nat /\ seenNo' \in Nat
      /\ seenNo' = IF sequence > seenNo THEN sequence ELSE seenNo
  BY <1>1 DEF FirstFrame, Advanced, StreamShape
<1>4. ~blind' => ~blind
  BY DEF FirstFrame
<1>5. Numbered'
  BY <1>1, <1>2, <1>3, <1>4 DEF Numbered, Subscribed
<1>6. CASE IsGap(sequence)
  <2>1. ReadsBoard /\ blind' = (blind \/ FirstReadIsOld)
    BY <1>6 DEF FirstFrame
  <2>2. /\ onScreen' \in Int /\ fetch' \in Int /\ fetch' >= NoRead /\ failed' = FALSE
        /\ blind' \/ UpToDate'
    BY <1>1, <1>2, <2>1, ReadIsCurrent
  <2>3. StreamShape'
    BY <1>1, <1>2, <1>3, <2>2 DEF StreamShape
  <2> QED
    BY <1>5, <2>2, <2>3 DEF StreamInv
<1>7. CASE ~IsGap(sequence)
  <2>1. UNCHANGED query /\ blind' = (blind \/ Blinding(sequence))
    BY <1>7 DEF FirstFrame
  <2>2. StreamShape'
    BY <1>1, <1>2, <1>3, <2>1 DEF StreamShape
  <2>3. UpToDate => UpToDate'
    BY <1>2, <2>1 DEF UpToDate, NextBoard
  <2>4. Cued => Blinding(sequence)
    <3> SUFFICES ASSUME Cued PROVE Blinding(sequence)
      OBVIOUS
    <3>1. sequence >= seenNo + (IF mode = "live" THEN 2 ELSE 1)
      BY <1>1, CuedMeansMissed
    <3>2. ~(sequence > seenNo + 1 /\ seenNo > 0) /\ mode \in {"live", "mock"}
      BY <1>1, <1>7 DEF IsGap, StreamShape
    <3>3. CASE seenNo = 0
      BY <1>3, <3>1, <3>3 DEF Blinding
    <3>4. CASE seenNo > 0
      BY <1>3, <3>1, <3>2, <3>4 DEF Blinding
    <3> QED
      BY <1>3, <3>3, <3>4
  <2> QED
    BY <1>1, <1>5, <2>1, <2>2, <2>3, <2>4 DEF StreamInv
<1> QED
  BY <1>6, <1>7

\* A heartbeat restates the number, so what is still cued is read now.
LEMMA HeartbeatKeepsTheStream ==
    ASSUME StreamInv, Heartbeat
    PROVE  StreamInv'
<1> USE DEF room, client, query
<1>1. StreamShape /\ Numbered /\ (blind \/ UpToDate \/ Cued)
  BY DEF StreamInv
<1>2. /\ socket = "open" /\ UNCHANGED <<room, sequence, socket, subscription, breaks>>
  BY DEF Heartbeat
<1>3. /\ sequence \in Nat /\ seenNo \in Nat /\ seenNo' \in Nat
      /\ seenNo' = IF sequence > seenNo THEN sequence ELSE seenNo
  BY <1>1 DEF Heartbeat, Advanced, StreamShape
<1>4. ~blind' => ~blind
  BY DEF Heartbeat
<1>5. Numbered'
  BY <1>1, <1>2, <1>3, <1>4 DEF Numbered, Subscribed
<1>6. CASE sequence > seenNo
  <2>1. ReadsBoard /\ blind' = (blind \/ FirstReadIsOld)
    BY <1>6 DEF Heartbeat
  <2>2. /\ onScreen' \in Int /\ fetch' \in Int /\ fetch' >= NoRead /\ failed' = FALSE
        /\ blind' \/ UpToDate'
    BY <1>1, <1>2, <2>1, ReadIsCurrent
  <2>3. StreamShape'
    BY <1>1, <1>2, <1>3, <2>2 DEF StreamShape
  <2> QED
    BY <1>5, <2>2, <2>3 DEF StreamInv
<1>7. CASE ~(sequence > seenNo)
  <2>1. UNCHANGED <<query, blind>>
    BY <1>7 DEF Heartbeat
  <2>2. StreamShape'
    BY <1>1, <1>2, <1>3, <2>1 DEF StreamShape
  <2>3. UpToDate => UpToDate'
    BY <1>2, <2>1 DEF UpToDate, NextBoard
  <2>4. ~Cued
    <3> SUFFICES ASSUME Cued PROVE FALSE
      OBVIOUS
    <3>1. sequence >= seenNo + (IF mode = "live" THEN 2 ELSE 1)
      BY <1>1, CuedMeansMissed
    <3> QED
      BY <1>3, <1>7, <3>1
  <2> QED
    BY <1>1, <1>5, <2>1, <2>2, <2>3, <2>4 DEF StreamInv
<1> QED
  BY <1>6, <1>7

\* What is cued outlives the connection; a restart of the API is followed blindly.
LEMMA NetworkKeepsTheStream ==
    ASSUME StreamInv, Network
    PROVE  StreamInv'
<1> USE DEF room, client, query
<1>1. StreamShape /\ Numbered /\ (blind \/ UpToDate \/ Cued)
  BY DEF StreamInv
<1>2. CASE FallsSilent \/ ComesBack
  <2>1. /\ {socket, socket'} \subseteq {"open", "silent"}
        /\ UNCHANGED <<room, sequence, subscription, client, query, blind>>
    BY <1>2 DEF FallsSilent, ComesBack
  <2>2. StreamShape'
    BY <1>1, <2>1 DEF StreamShape
  <2>3. Numbered'
    BY <1>1, <2>1 DEF Numbered, Subscribed
  <2>4. UpToDate => UpToDate'
    BY <2>1 DEF UpToDate, NextBoard
  <2>5. \A n \in Nat : Tell(n) => Tell(n)'
    BY <2>1 DEF Tell
  <2>6. Cued => Cued'
    <3> SUFFICES ASSUME NEW n \in Nat, Tell(n), mode = "live" => Tell(n + 1) PROVE Cued'
      BY <2>1 DEF Cued
    <3>1. PICK m \in Nat : m = n + 1
      OBVIOUS
    <3>2. Tell(n)' /\ (mode' = "live" => Tell(m)')
      BY <2>1, <2>5, <3>1
    <3> QED
      BY <2>1, <3>1, <3>2 DEF Cued
  <2> QED
    BY <1>1, <2>1, <2>2, <2>3, <2>4, <2>6 DEF StreamInv
<1>3. CASE SocketBreaks
  <2>1. /\ socket' = "closed" /\ subscription' = <<>>
        /\ UNCHANGED <<room, sequence, seenNo, query, blind>>
    BY <1>3 DEF SocketBreaks, SocketClosed
  <2>2. subscription' \in Seq(Frames) /\ DOMAIN subscription' = {}
    BY <2>1
  <2>3. StreamShape'
    BY <1>1, <2>1, <2>2 DEF StreamShape
  <2>4. Numbered'
    BY <1>1, <2>1, <2>2 DEF Numbered
  <2>5. UpToDate => UpToDate'
    BY <2>1 DEF UpToDate, NextBoard
  <2>6. Cued => Cued'
    BY <1>1, <2>1, CuedMeansMissed DEF Cued
  <2> QED
    BY <1>1, <2>1, <2>3, <2>4, <2>5, <2>6 DEF StreamInv
<1>4. CASE ApiRestarts
  <2>1. /\ socket' = "closed" /\ subscription' = <<>> /\ sequence' = 0
        /\ pending' = FALSE /\ blind' = TRUE
        /\ UNCHANGED <<mode, version, announced, seenNo, query>>
    BY <1>4 DEF ApiRestarts, SocketClosed
  <2>2. subscription' \in Seq(Frames) /\ DOMAIN subscription' = {}
    BY <2>1
  <2>3. StreamShape'
    BY <1>1, <2>1, <2>2 DEF StreamShape
  <2>4. Numbered'
    BY <2>1, <2>2 DEF Numbered
  <2> QED
    BY <2>1, <2>3, <2>4 DEF StreamInv
<1> QED
  BY <1>2, <1>3, <1>4 DEF Network

\* A read changes when the board comes, never which one ends on screen.
LEMMA ReadingKeepsTheStream ==
    ASSUME StreamInv, Reading
    PROVE  StreamInv'
<1> USE DEF room, client, query
<1>1. StreamShape /\ Numbered /\ (blind \/ UpToDate \/ Cued)
  BY DEF StreamInv
<1>2. UNCHANGED <<room, sequence, socket, subscription, client, breaks, blind>>
  BY DEF Reading, BoardAnswers, Arrives, ReadFails
<1>3. Numbered' /\ (Cued => Cued')
  BY <1>1, <1>2, SameStream
<1>4. version \in Nat /\ fetch \in Int /\ onScreen \in Int /\ failed \in BOOLEAN
      /\ (failed => fetch = NoRead)
  BY <1>1 DEF StreamShape
<1>5. /\ onScreen' \in Int /\ fetch' \in Int /\ fetch' >= NoRead
      /\ failed' \in BOOLEAN /\ (failed' => fetch' = NoRead)
      /\ UpToDate => UpToDate'
  <2>1. CASE BoardAnswers
    <3>1. fetch = Asked /\ fetch' = version /\ UNCHANGED <<onScreen, failed>>
      BY <2>1 DEF BoardAnswers
    <3>2. ~failed
      BY <1>4, <3>1 DEF Asked, NoRead
    <3>3. NextBoard' = NextBoard
      BY <1>4, <3>1 DEF NextBoard, Asked, NoRead
    <3>4. UpToDate => UpToDate'
      BY <1>2, <3>1, <3>3 DEF UpToDate, room
    <3>5. fetch' \in Int /\ fetch' >= NoRead
      BY <1>4, <3>1 DEF NoRead
    <3> QED
      BY <1>4, <3>1, <3>2, <3>4, <3>5
  <2>2. CASE Arrives
    <3>1. fetch >= 0 /\ onScreen' = fetch /\ fetch' = NoRead /\ failed' = FALSE
      BY <2>2 DEF Arrives
    <3>2. ~failed
      BY <1>4, <3>1 DEF NoRead
    <3>3. NextBoard' = NextBoard
      BY <1>4, <3>1 DEF NextBoard, Asked, NoRead
    <3>4. UpToDate => UpToDate'
      BY <1>2, <3>1, <3>2, <3>3 DEF UpToDate, room
    <3>5. fetch' >= NoRead /\ fetch' \in Int
      BY <3>1 DEF NoRead
    <3> QED
      BY <1>4, <3>1, <3>4, <3>5
  <2>3. CASE ReadFails
    <3>1. fetch' = NoRead /\ failed' = TRUE /\ onScreen' = onScreen
      BY <2>3 DEF ReadFails
    <3> QED
      BY <1>4, <3>1 DEF UpToDate, NoRead
  <2> QED
    BY <2>1, <2>2, <2>3 DEF Reading
<1>6. StreamShape'
  BY <1>1, <1>2, <1>5 DEF StreamShape
<1> QED
  BY <1>1, <1>2, <1>3, <1>5, <1>6 DEF StreamInv

\* QuietBoardIsCurrentUnlessBlind for any queue size and number of changes: gaps are
\* detected whatever was dropped, lost, abandoned or answered late, in a live room and
\* in a mock one, unless a stream was opened at a number that could show nothing.
THEOREM QuietBoardsAreCurrent == StreamSpec => []QuietBoardIsCurrentUnlessBlind
<1>1. StreamInv /\ [StreamNext]_streamVars => StreamInv'
  <2> SUFFICES ASSUME StreamInv, [StreamNext]_streamVars PROVE StreamInv'
    OBVIOUS
  <2>1. StreamShape /\ Numbered /\ (blind \/ UpToDate \/ Cued)
    BY DEF StreamInv
  <2>2. ASSUME UNCHANGED <<room, sequence, socket, subscription, seenNo, query, blind>>
        PROVE  StreamInv'
    <3>1. Numbered' /\ (Cued => Cued')
      BY <2>1, <2>2, SameStream DEF room
    <3>2. StreamShape' /\ (UpToDate => UpToDate')
      BY <2>1, <2>2 DEF StreamShape, UpToDate, NextBoard, room, query
    <3> QED
      BY <2>1, <2>2, <3>1, <3>2 DEF StreamInv
  <2>3. CASE StaleTimer
    BY <2>2, <2>3 DEF StaleTimer
  <2>4. CASE Reconnects
    <3>1. /\ socket = "closed" /\ socket' = "opening"
          /\ ReadsBoard /\ blind' = (blind \/ FirstReadIsOld)
          /\ UNCHANGED <<mode, version, announced, pending, sequence, subscription, seenNo>>
      BY <2>4 DEF Reconnects, room, client
    <3>2. /\ onScreen' \in Int /\ fetch' \in Int /\ fetch' >= NoRead /\ failed' = FALSE
          /\ blind' \/ UpToDate'
      BY <2>1, <3>1, ReadIsCurrent
    <3>3. StreamShape'
      BY <2>1, <3>1, <3>2 DEF StreamShape
    <3>4. Numbered'
      BY <2>1, <3>1 DEF Numbered, Subscribed
    <3> QED
      BY <3>2, <3>3, <3>4 DEF StreamInv
  <2>5. CASE UNCHANGED streamVars
    BY <2>2, <2>5 DEF streamVars, client
  <2> QED
    BY <2>3, <2>4, <2>5, RoomKeepsTheStream, DeliveryKeepsTheStream, FirstFrameKeepsTheStream,
       HeartbeatKeepsTheStream, NetworkKeepsTheStream, ReadingKeepsTheStream
       DEF StreamNext, Browser
<1>2. StreamInv => QuietBoardIsCurrentUnlessBlind
  <2> SUFFICES ASSUME StreamInv, ~blind, Quiet PROVE onScreen >= announced
    BY DEF QuietBoardIsCurrentUnlessBlind
  <2>1. StreamShape /\ (UpToDate \/ Cued)
    BY DEF StreamInv
  <2>2. ~Cued
    <3> SUFFICES ASSUME Cued PROVE FALSE
      OBVIOUS
    <3>1. sequence >= seenNo + (IF mode = "live" THEN 2 ELSE 1)
      BY <2>1, CuedMeansMissed
    <3> QED
      BY <2>1, <3>1 DEF Quiet, StreamShape
  <2> QED
    BY <2>1, <2>2 DEF UpToDate, NextBoard, Quiet
<1> QED
  BY <1>1, <1>2, StreamInvInit, PTL DEF StreamSpec

=============================================================================
