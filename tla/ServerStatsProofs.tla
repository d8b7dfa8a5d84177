-------------------------- MODULE ServerStatsProofs --------------------------
(***************************************************************************)
(* Proofs about module ServerStats, for every width of an int, length of a *)
(* minute, unit and bound.                                                 *)
(***************************************************************************)
EXTENDS ServerStats, TLAPS

-----------------------------------------------------------------------------
(***************************************************************************)
(* Arithmetic: % and \div, of positive numbers and as C defines them.      *)
(***************************************************************************)
\* A multiple of m between -m and m is zero.
LEMMA Multiple ==
  ASSUME NEW m \in Nat \ {0}, NEW q \in Int, m * q < m, m * q > -m
  PROVE  q = 0
<1>1. CASE q >= 1
  <2>1. m * q >= m
    BY <1>1, SMT
  <2> QED BY <2>1
<1>2. CASE q <= -1
  <2>1. m * q <= -m
    BY <1>2, SMT
  <2> QED BY <2>1
<1> QED BY <1>1, <1>2

LEMMA DivMod ==
  ASSUME NEW m \in Nat \ {0}, NEW a \in Int
  PROVE  a \div m \in Int /\ a = m * (a \div m) + (a % m) /\ a % m \in 0..m-1
BY SMT

\* The quotient is the number with that property.
LEMMA DivIs ==
  ASSUME NEW m \in Nat \ {0}, NEW a \in Int, NEW q \in Int, a - m * q \in 0..m-1
  PROVE  a \div m = q /\ a % m = a - m * q
<1>1. a \div m \in Int /\ a = m * (a \div m) + (a % m) /\ a % m \in 0..m-1
  BY DivMod
<1>2. m * (a \div m - q) = (a - m * q) - (a % m)
  BY <1>1, SMT
<1>3. m * (a \div m - q) < m /\ m * (a \div m - q) > -m
  BY <1>1, <1>2, SMT
<1>4. a \div m - q = 0
  BY <1>1, <1>3, Multiple
<1> QED BY <1>1, <1>4

\* Within a minute, seconds tell moments apart.
LEMMA SameSecond ==
  ASSUME NEW a \in Nat, NEW b \in Nat, a <= b, b - a < Minute, Second(a) = Second(b)
  PROVE  a = b
<1>1. Minute \in Nat \ {0}
  BY ServerStatsAssumption
<1>2. /\ a \div Minute \in Int /\ a = Minute * (a \div Minute) + (a % Minute)
      /\ b \div Minute \in Int /\ b = Minute * (b \div Minute) + (b % Minute)
      /\ a % Minute = b % Minute /\ a % Minute \in Int
  BY <1>1, DivMod DEF Second
<1>3. Minute * (b \div Minute - a \div Minute) = b - a
  BY <1>1, <1>2, SMT
<1>4. b \div Minute - a \div Minute = 0
  BY <1>1, <1>2, <1>3, Multiple
<1> QED BY <1>2, <1>4

LEMMA SecondTyped == ASSUME NEW t \in Nat PROVE Second(t) \in 0..Minute-1
BY ServerStatsAssumption, DivMod DEF Second

-----------------------------------------------------------------------------
(***************************************************************************)
(* Arithmetic on ints.                                                     *)
(***************************************************************************)
LEMMA WrapIs ==
  ASSUME NEW i \in Int
  PROVE  /\ Wrap(i) \in Ints
         /\ \E q \in Int : Wrap(i) = i - 2 * Half * q
<1> DEFINE m == 2 * Half
<1>1. Half \in Nat \ {0} /\ m \in Nat \ {0}
  BY ServerStatsAssumption
<1>2. i + Half \in Int
  BY <1>1
<1> HIDE DEF m
<1>3. /\ (i + Half) \div m \in Int
      /\ i + Half = m * ((i + Half) \div m) + ((i + Half) % m)
      /\ (i + Half) % m \in 0..m-1
  BY <1>1, <1>2, DivMod
<1>4. Wrap(i) = ((i + Half) % m) - Half
  BY DEF Wrap, m
<1>5. Wrap(i) \in Ints
  BY <1>1, <1>3, <1>4 DEF Ints, m
<1>6. Wrap(i) = i - m * ((i + Half) \div m)
  BY <1>1, <1>3, <1>4
<1> QED BY <1>3, <1>5, <1>6 DEF m

LEMMA WrapUnique ==
  ASSUME NEW i \in Int, NEW a \in Ints, NEW q \in Int, a = i - 2 * Half * q
  PROVE  Wrap(i) = a
<1>1. Half \in Nat \ {0} /\ 2 * Half \in Nat \ {0}
  BY ServerStatsAssumption
<1>2. PICK p \in Int : Wrap(i) = i - 2 * Half * p
  BY WrapIs
<1>3. Wrap(i) \in Ints
  BY WrapIs
<1>4. 2 * Half * (p - q) = a - Wrap(i)
  BY <1>1, <1>2, <1>3, SMT DEF Ints
<1>5. 2 * Half * (p - q) < 2 * Half /\ 2 * Half * (p - q) > -(2 * Half)
  BY <1>1, <1>3, <1>4 DEF Ints
<1>6. p - q = 0
  <2> DEFINE m == 2 * Half
  <2>1. m \in Nat \ {0} /\ p - q \in Int /\ m * (p - q) < m /\ m * (p - q) > -m
    BY <1>1, <1>5
  <2> HIDE DEF m
  <2> QED BY <2>1, Multiple
<1> QED BY <1>2, <1>6

LEMMA WrapSmall == ASSUME NEW i \in Ints PROVE Wrap(i) = i
<1>1. i \in Int /\ i = i - 2 * Half * 0
  BY ServerStatsAssumption DEF Ints
<1> QED BY <1>1, WrapUnique

\* A sum may wrap at once or term by term.
LEMMA WrapSum ==
  ASSUME NEW i \in Int, NEW j \in Int
  PROVE  Wrap(Wrap(i) + j) = Wrap(i + j)
<1>1. PICK p \in Int : Wrap(i) = i - 2 * Half * p
  BY WrapIs
<1>2. Wrap(i) \in Int /\ Wrap(i) + j \in Int /\ i + j \in Int /\ Half \in Int
  BY WrapIs, ServerStatsAssumption DEF Ints
<1>3. PICK q \in Int : Wrap(i + j) = (i + j) - 2 * Half * q
  BY <1>2, WrapIs
<1>4. Wrap(i + j) \in Ints
  BY <1>2, WrapIs
<1>5. Wrap(i + j) = (Wrap(i) + j) - 2 * Half * (q - p) /\ q - p \in Int
  BY <1>1, <1>2, <1>3, SMT
<1> QED BY <1>2, <1>4, <1>5, WrapUnique

\* The difference of two counters is what happened between, however often they
\* wrapped.
LEMMA WrapDifference ==
  ASSUME NEW i \in Int, NEW d \in Ints
  PROVE  Wrap(Wrap(i + d) - i) = d
<1>1. Half \in Int /\ d \in Int /\ i + d \in Int /\ -i \in Int
  BY ServerStatsAssumption DEF Ints
<1>2. Wrap(Wrap(i + d) + (-i)) = Wrap((i + d) + (-i))
  BY <1>1, WrapSum
<1>3. Wrap(i + d) \in Int
  BY <1>1, WrapIs DEF Ints
<1> QED BY <1>1, <1>2, <1>3, WrapSmall

LEMMA QuotientTyped ==
  ASSUME NEW i \in Ints, NEW u \in Nat \ {0} PROVE Quotient(i, u) \in Ints
<1> USE ServerStatsAssumption DEF Ints
<1>0. \A a \in Nat : a \div u \in 0..a
  <2> SUFFICES ASSUME NEW a \in Nat PROVE a \div u \in 0..a
    OBVIOUS
  <2>1. a \div u \in Int /\ a = u * (a \div u) + (a % u) /\ a % u \in 0..u-1
    BY DivMod
  <2> DEFINE q == a \div u
  <2> HIDE DEF q
  <2>2. q >= 0
    <3>1. CASE q <= -1
      <4>1. u * q <= -u
        BY <2>1, <3>1, SMT DEF q
      <4> QED BY <2>1, <4>1 DEF q
    <3> QED BY <2>1, <3>1 DEF q
  <2>3. u * q >= q
    BY <2>1, <2>2, SMT DEF q
  <2> QED BY <2>1, <2>2, <2>3 DEF q
<1>1. CASE i >= 0
  BY <1>0, <1>1 DEF Quotient
<1>2. CASE i < 0
  <2>1. -i \in Nat /\ (-i) \div u \in 0..-i
    BY <1>0, <1>2
  <2> QED BY <1>2, <2>1 DEF Quotient
<1> QED BY <1>1, <1>2

\* What a rate loses when f reads failed.
LEMMA QuotientClose ==
  ASSUME NEW a \in Nat, NEW u \in Nat \ {0}, NEW f \in 0..u-1
  PROVE  /\ Quotient(a - f, u) \in Nat
         /\ a \div u - Quotient(a - f, u) \in {0, 1}
<1>1. CASE a < f
  <2>1. a \div u = 0
    BY <1>1, DivIs
  <2>2. (-(a - f)) \div u = 0
    BY <1>1, DivIs
  <2> QED BY <1>1, <2>1, <2>2 DEF Quotient
<1>2. CASE a >= f
  <2>1. a - f \in Nat /\ Quotient(a - f, u) = (a - f) \div u
    BY <1>2 DEF Quotient
  <2>2. /\ (a - f) \div u \in Int
        /\ a - f = u * ((a - f) \div u) + ((a - f) % u) /\ (a - f) % u \in 0..u-1
    <3> DEFINE d == a - f
    <3>1. d \in Int
      OBVIOUS
    <3> HIDE DEF d
    <3>2. d \div u \in Int /\ d = u * (d \div u) + (d % u) /\ d % u \in 0..u-1
      BY <3>1, DivMod
    <3> QED BY <3>2 DEF d
  <2> DEFINE q == (a - f) \div u
             r == (a - f) % u
  <2> HIDE DEF q, r
  <2>3. q >= 0
    <3>1. CASE q <= -1
      <4>1. u * q <= -u
        BY <2>2, <3>1, SMT DEF q
      <4> QED BY <2>1, <2>2, <4>1 DEF q, r
    <3> QED BY <2>2, <3>1 DEF q
  <2>4. CASE r + f < u
    <3>1. a - u * q \in 0..u-1
      BY <2>2, <2>4, SMT DEF q, r
    <3>2. a \in Int /\ q \in Int
      BY <2>2 DEF q
    <3>3. a \div u = q
      BY <3>1, <3>2, DivIs
    <3> QED BY <2>1, <2>2, <2>3, <3>3 DEF q
  <2>5. CASE r + f >= u
    <3>1. u * (q + 1) = u * q + u
      BY <2>2, SMT DEF q
    <3>2. a - u * (q + 1) \in 0..u-1
      BY <2>2, <2>5, <3>1, SMT DEF q, r
    <3>3. a \in Int /\ q + 1 \in Int
      BY <2>2 DEF q
    <3>4. a \div u = q + 1
      BY <3>2, <3>3, DivIs
    <3> QED BY <2>1, <2>2, <2>3, <3>4 DEF q
  <2> QED BY <2>2, <2>4, <2>5 DEF r
<1> QED BY <1>1, <1>2

-----------------------------------------------------------------------------
(***************************************************************************)
(* The inductive invariant.                                                *)
(***************************************************************************)
Failed(k) == IF k = "input" THEN failures ELSE 0

\* A counter is what it was at the last sample and what happened since.
Counters ==
  \A k \in Kinds :
    /\ window[k] < Half
    /\ current[k] = Wrap(old[k] + (window[k] - Failed(k)))

\* The sample is of the second in which Calculate ran last, but for whole
\* minutes; without one that second is the first of a minute.
Times ==
  /\ calculated <= clock
  /\ old_time_ = IF sampled = -1 THEN 0 ELSE Second(sampled)
  /\ pc = "events" => first # -1
  /\ first = -1 => sampled = -1
  /\ first # -1 /\ sampled = -1 =>
       /\ Second(first) = 0 /\ Second(calculated) = 0
       /\ calculated = first \/ stalled
  /\ sampled # -1 =>
       \/ sampled = calculated
       \/ stalled /\ Second(sampled) = Second(calculated)
  /\ input_kbps_ = Unset => sampled = -1

\* Every handler changes the number of clients by one at most.
Clients ==
  /\ clients <= total_connections_received_
  /\ connect_client_ # Unset => connect_client_ <= total_connections_received_
  /\ pc = "events" => connect_client_ # Unset /\ clients - connect_client_ \in -handled..handled

IInv == TypeOK /\ Counters /\ RatesAreOfOneWindow /\ Times /\ Clients

LEMMA Constants ==
  /\ Half \in Nat \ {0} /\ Minute \in Nat \ {0} /\ MiB \in 1..Half /\ KiB \in Nat \ {0}
  /\ Unset \notin Int /\ MaxEvents \in Nat \ {0} /\ MaxConnections \in 0..Half-1
  /\ MaxFailures \in 0..MiB-1 /\ Sizes \subseteq Nat \ {0}
BY ServerStatsAssumption

LEMMA InitIInv == Init => IInv
<1> SUFFICES ASSUME Init PROVE IInv
  OBVIOUS
<1> USE Constants DEF Init
<1>1. TypeOK
  <2>1. 0 \in Ints /\ 0 \in Nat /\ -1 \in Nat \cup {-1}
    BY DEF Ints
  <2>2. Nothing \in [Kinds -> Ints] /\ Nothing \in [Kinds -> Nat]
    BY <2>1 DEF Nothing
  <2>3. /\ clock \in Nat /\ old_time_ \in 0..Minute-1 /\ handled \in 0..MaxEvents
        /\ total_connections_received_ \in 0..MaxConnections /\ failures \in 0..MaxFailures
    OBVIOUS
  <2> QED BY <2>1, <2>2, <2>3 DEF TypeOK
<1>2. Counters
  <2>1. 0 \in Ints
    BY DEF Ints
  <2>2. Wrap(0) = 0
    BY <2>1, WrapSmall
  <2> QED BY <2>2 DEF Counters, Failed, Nothing, Kinds
<1>3. Times
  <2>1. clock \in Nat
    OBVIOUS
  <2> QED BY <2>1 DEF Times
<1> QED BY <1>1, <1>2, <1>3 DEF IInv, RatesAreOfOneWindow, Clients

-----------------------------------------------------------------------------
(***************************************************************************)
(* What the actions do.                                                    *)
(***************************************************************************)
ReadSome == \E size \in Sizes, commands \in Nat : commands <= size /\ Read(size, commands)
ReplySome == \E size \in Sizes : Reply(size)

LEMMA Steps ==
  ASSUME Next
  PROVE  Tick \/ Calculate \/ Accept \/ Eof \/ ReadFails \/ ReplySome \/ ReadSome \/ EndBatch
<1>1. CASE \E size \in Sizes : Reply(size) \/ \E commands \in 0..size : Read(size, commands)
  <2>1. PICK size \in Sizes : Reply(size) \/ \E commands \in 0..size : Read(size, commands)
    BY <1>1
  <2>2. size \in Nat
    BY Constants
  <2>3. \A commands \in 0..size : commands \in Nat /\ commands <= size
    BY <2>2
  <2> QED BY <2>1, <2>3 DEF ReplySome, ReadSome
<1> QED BY <1>1 DEF Next

\* Only Calculate takes samples.
LEMMA Quiet ==
  ASSUME TypeOK, Next, ~Calculate
  PROVE  /\ UNCHANGED <<old_time_, qps_, input_kbps_, output_kbps_, old, sampled, last>>
         /\ UNCHANGED <<first, calculated, stalled, connect_client_>>
         /\ clock' = clock \/ (clock' = clock + 1)
         /\ pc' = "events" => pc = "events"
<1> USE DEF samples, runs
<1>1. CASE Tick
  BY <1>1 DEF Tick
<1>2. CASE Accept
  BY <1>2 DEF Accept, Handler
<1>3. CASE Eof
  BY <1>3 DEF Eof, Handler
<1>4. CASE ReadFails
  BY <1>4 DEF ReadFails, Handler
<1>5. CASE ReplySome
  BY <1>5 DEF ReplySome, Reply, Handler
<1>6. CASE ReadSome
  BY <1>6 DEF ReadSome, Read, Handler
<1>7. CASE EndBatch
  BY <1>7 DEF EndBatch
<1> QED BY Steps, <1>1, <1>2, <1>3, <1>4, <1>5, <1>6, <1>7

\* What a call of AddCommandProcessed, AddInputBytes or AddOutputBytes does.
LEMMA Adding ==
  ASSUME TypeOK, Counters, NEW counts \in [Kinds -> Nat], Add(counts), UNCHANGED <<old, failures>>
  PROVE  /\ current' \in [Kinds -> Ints]
         /\ total' \in [Kinds -> Nat] /\ window' \in [Kinds -> Nat]
         /\ Counters'
<1> USE Constants
<1>1. /\ current \in [Kinds -> Ints] /\ old \in [Kinds -> Ints]
      /\ total \in [Kinds -> Nat] /\ window \in [Kinds -> Nat] /\ failures \in Nat
  BY DEF TypeOK
<1>2. total' \in [Kinds -> Nat] /\ window' \in [Kinds -> Nat]
  BY <1>1 DEF Add
<1>3. ASSUME NEW k \in Kinds
      PROVE  /\ current'[k] \in Ints /\ window'[k] < Half
             /\ current'[k] = Wrap(old'[k] + (window'[k] - Failed(k)'))
  <2>1. /\ current'[k] = Wrap(current[k] + counts[k])
        /\ window'[k] = window[k] + counts[k] /\ window[k] + counts[k] < Half
    BY <1>1 DEF Add
  <2> DEFINE d == window[k] - Failed(k)
  <2>2. /\ window[k] \in Int /\ counts[k] \in Int /\ old[k] \in Int /\ current[k] \in Int
        /\ Failed(k) \in Int /\ Failed(k)' = Failed(k)
    BY <1>1 DEF Failed, Ints
  <2>3. d \in Int /\ old[k] + d \in Int /\ current[k] = Wrap(old[k] + d)
    BY <2>2 DEF Counters
  <2> HIDE DEF d
  <2>4. Wrap(Wrap(old[k] + d) + counts[k]) = Wrap((old[k] + d) + counts[k])
    BY <2>2, <2>3, WrapSum
  <2>5. (old[k] + d) + counts[k] = old[k] + ((window[k] + counts[k]) - Failed(k))
    BY <2>2 DEF d
  <2>6. current[k] + counts[k] \in Int
    BY <2>2
  <2>7. Wrap(current[k] + counts[k]) \in Ints
    BY <2>6, WrapIs
  <2> QED BY <2>1, <2>2, <2>3, <2>4, <2>5, <2>7
<1>4. current' = [k \in Kinds |-> Wrap(current[k] + counts[k])]
  BY DEF Add
<1>5. current' \in [Kinds -> Ints]
  BY <1>3, <1>4
<1> QED BY <1>2, <1>3, <1>5 DEF Counters

LEMMA TypeFacts ==
  ASSUME TypeOK
  PROVE  /\ clock \in Nat /\ clients \in Nat /\ handled \in Nat
         /\ connect_client_ # Unset => connect_client_ \in Int
         /\ calculated \in Nat /\ stalled \in BOOLEAN
         /\ first \in Nat \cup {-1} /\ sampled \in Nat \cup {-1}
         /\ total_connections_received_ \in Nat /\ failures \in Nat
         /\ old \in [Kinds -> Ints] /\ current \in [Kinds -> Ints]
         /\ total \in [Kinds -> Nat] /\ window \in [Kinds -> Nat] /\ last \in [Kinds -> Nat]
BY Constants DEF TypeOK, Ints

\* What a sample computes.
LEMMA Sampling ==
  ASSUME TypeOK, Counters, Sample
  PROVE  /\ qps_' \in Ints /\ input_kbps_' \in Ints /\ output_kbps_' \in Ints
         /\ old' = current /\ old_time_' = Second(clock) /\ sampled' = clock
         /\ last' = window /\ window' = Nothing /\ failures' = 0
         /\ qps_' = window["commands"]
         /\ output_kbps_' = window["output"] \div KiB
         /\ input_kbps_' \in Nat
         /\ window["input"] \div MiB - input_kbps_' \in {0, 1}
<1> USE Constants
<1>1. /\ window["commands"] \in 0..Half-1 /\ window["input"] \in 0..Half-1
      /\ window["output"] \in 0..Half-1
      /\ failures \in 0..MiB-1 /\ MiB \in Nat \ {0}
      /\ \A k \in Kinds : old[k] \in Int
  BY TypeFacts DEF TypeOK, Counters, Kinds, Ints
<1>2. ASSUME NEW k \in Kinds, NEW d \in Ints, d = window[k] - Failed(k)
      PROVE  Wrap(current[k] - old[k]) = d
  BY <1>1, <1>2, WrapDifference DEF Counters
<1>3. Wrap(current["commands"] - old["commands"]) = window["commands"]
  <2>1. window["commands"] \in Ints /\ window["commands"] = window["commands"] - Failed("commands")
    BY <1>1 DEF Failed, Ints
  <2> QED BY <1>2, <2>1 DEF Kinds
<1>4. Wrap(current["output"] - old["output"]) = window["output"]
  <2>1. window["output"] \in Ints /\ window["output"] = window["output"] - Failed("output")
    BY <1>1 DEF Failed, Ints
  <2> QED BY <1>2, <2>1 DEF Kinds
<1>5. /\ Wrap(current["input"] - old["input"]) = window["input"] - failures
      /\ window["input"] - failures \in Ints
  <2>1. window["input"] - failures \in Ints
    BY <1>1 DEF Ints
  <2>2. window["input"] - failures = window["input"] - Failed("input")
    BY DEF Failed
  <2> QED BY <1>2, <2>1, <2>2 DEF Kinds
<1>6. /\ qps_' = Quotient(window["commands"], 1)
      /\ output_kbps_' = Quotient(window["output"], KiB)
      /\ input_kbps_' = Quotient(window["input"] - failures, MiB)
  BY <1>3, <1>4, <1>5 DEF Sample, Rates, Rate
<1>7. Quotient(window["commands"], 1) = window["commands"]
  <2>1. window["commands"] \div 1 = window["commands"]
    BY <1>1, DivIs
  <2> QED BY <1>1, <2>1 DEF Quotient
<1>8. Quotient(window["output"], KiB) = window["output"] \div KiB
  BY <1>1 DEF Quotient
<1>9. /\ Quotient(window["input"] - failures, MiB) \in Nat
      /\ window["input"] \div MiB - Quotient(window["input"] - failures, MiB) \in {0, 1}
  <2>1. window["input"] \in Nat
    BY <1>1
  <2> QED BY <1>1, <2>1, QuotientClose
<1>10. qps_' \in Ints /\ input_kbps_' \in Ints /\ output_kbps_' \in Ints
  <2>1. window["commands"] \in Ints /\ window["output"] \in Ints
    BY <1>1 DEF Ints
  <2> QED BY <1>1, <1>5, <1>6, <1>7, <2>1, QuotientTyped
<1> QED BY <1>6, <1>7, <1>8, <1>9, <1>10 DEF Sample, NewWindow

-----------------------------------------------------------------------------
(***************************************************************************)
(* Every step keeps each part of the invariant.                            *)
(***************************************************************************)
LEMMA NextTimes ==
  ASSUME IInv, Next PROVE Times'
<1> USE DEF IInv
<1>1. CASE ~Calculate
  BY <1>1, Quiet, TypeFacts DEF Times, Second
<1>2. CASE Calculate
  <2>1. /\ clock' = clock /\ calculated' = clock
        /\ first' = IF first = -1 THEN clock ELSE first
        /\ stalled' = (stalled \/ (first # -1 /\ clock - calculated >= Minute))
    BY <1>2 DEF Calculate, Ran
  <2>2. CASE Second(clock) # old_time_
    <3>1. sampled' = clock /\ old_time_' = Second(clock) /\ input_kbps_' \in Int
      BY <1>2, <2>2, Sampling DEF Calculate, Ints
    <3> QED BY <2>1, <3>1, TypeFacts, Constants DEF Times
  <2>3. CASE Second(clock) = old_time_
    <3>1. UNCHANGED <<sampled, old_time_, input_kbps_>>
      BY <1>2, <2>3 DEF Calculate, samples
    <3>2. CASE first = -1
      BY <2>1, <2>3, <3>1, <3>2, TypeFacts DEF Times
    <3>3. CASE first # -1 /\ clock - calculated >= Minute
      <4>1. stalled' = TRUE /\ first' = first /\ first # -1
        BY <2>1, <3>3
      <4> QED BY <2>1, <2>3, <3>1, <4>1, TypeFacts DEF Times, Second
    <3>4. CASE first # -1 /\ clock - calculated < Minute
      <4>1. Second(clock) = Second(calculated) => clock = calculated
        BY <3>4, TypeFacts, SameSecond DEF Times
      <4> QED BY <2>1, <2>3, <3>1, <3>4, <4>1, TypeFacts DEF Times
    <3>5. Minute \in Nat
      BY Constants
    <3> QED BY <3>2, <3>3, <3>4, <3>5, TypeFacts
  <2> QED BY <2>2, <2>3
<1> QED BY <1>1, <1>2

LEMMA NextRates ==
  ASSUME IInv, Next PROVE RatesAreOfOneWindow'
<1> USE DEF IInv, RatesAreOfOneWindow
<1>1. CASE ~Calculate
  BY <1>1, Quiet
<1>2. CASE Calculate
  <2>1. CASE Second(clock) # old_time_
    BY <1>2, <2>1, Sampling DEF Calculate
  <2>2. CASE Second(clock) = old_time_
    BY <1>2, <2>2 DEF Calculate, samples
  <2> QED BY <2>1, <2>2
<1> QED BY <1>1, <1>2

LEMMA NextClients ==
  ASSUME IInv, Next PROVE Clients'
<1> USE TypeFacts DEF IInv, Clients
<1>1. CASE Calculate
  <2>1. /\ connect_client_' = clients /\ clients' = clients /\ handled' = handled
        /\ total_connections_received_' = total_connections_received_
    BY <1>1 DEF Calculate
  <2> QED BY <2>1, Constants
<1>2. CASE Tick
  BY <1>2 DEF Tick
<1>3. CASE EndBatch
  BY <1>3 DEF EndBatch
<1>4. CASE Accept
  BY <1>4 DEF Accept, Handler
<1>5. CASE Eof
  BY <1>5 DEF Eof, Handler
<1>6. CASE ReadFails
  BY <1>6 DEF ReadFails, Handler
<1>7. CASE ReplySome
  BY <1>7 DEF ReplySome, Reply, Handler
<1>8. CASE ReadSome
  BY <1>8 DEF ReadSome, Read, Handler
<1> QED BY Steps, <1>1, <1>2, <1>3, <1>4, <1>5, <1>6, <1>7, <1>8

\* The counters, with their types.
Counted ==
  /\ old \in [Kinds -> Ints] /\ current \in [Kinds -> Ints]
  /\ total \in [Kinds -> Nat] /\ window \in [Kinds -> Nat] /\ last \in [Kinds -> Nat]
  /\ failures \in 0..MaxFailures
  /\ Counters

LEMMA NextCounted ==
  ASSUME IInv, Next PROVE Counted'
<1> USE DEF IInv
<1>1. Counted
  BY TypeFacts DEF TypeOK, Counted
<1>2. CASE UNCHANGED <<old, current, total, window, last, failures>>
  BY <1>1, <1>2 DEF Counted, Counters, Failed
<1>3. CASE Calculate /\ Second(clock) # old_time_
  <2>1. /\ Sample /\ current' = current /\ total' = total
    BY <1>3 DEF Calculate
  <2>2. /\ old' = current /\ last' = window /\ window' = Nothing /\ failures' = 0
    BY <2>1, Sampling
  <2>3. ASSUME NEW k \in Kinds
        PROVE  window'[k] < Half /\ current'[k] = Wrap(old'[k] + (window'[k] - Failed(k)'))
    <3>1. window'[k] = 0 /\ Failed(k)' = 0
      BY <2>2 DEF Nothing, Failed
    <3>2. current[k] \in Ints /\ current[k] \in Int
      BY <1>1, Constants DEF Counted, Ints
    <3>3. Wrap(current[k]) = current[k]
      BY <3>2, WrapSmall
    <3> QED BY <2>1, <2>2, <3>1, <3>2, <3>3, Constants
  <2>4. Nothing \in [Kinds -> Nat] /\ 0 \in 0..MaxFailures
    BY Constants DEF Nothing
  <2> QED BY <1>1, <2>1, <2>2, <2>3, <2>4 DEF Counted, Counters
<1>4. CASE ReadFails
  <2>1. /\ current' = [current EXCEPT !["input"] = Wrap(current["input"] - 1)]
        /\ failures' = failures + 1 /\ failures < MaxFailures
        /\ UNCHANGED <<old, total, window, last>>
    BY <1>4 DEF ReadFails, Handler, samples
  <2>2. ASSUME NEW k \in Kinds
        PROVE  current'[k] \in Ints /\ current'[k] = Wrap(old[k] + (window[k] - Failed(k)'))
    <3>1. /\ old[k] \in Int /\ window[k] \in Int /\ Failed(k) \in Int /\ current[k] \in Ints
          /\ current[k] \in Int /\ current[k] = Wrap(old[k] + (window[k] - Failed(k)))
      BY <1>1, Constants DEF Counted, Counters, Failed, Ints
    <3>2. CASE k = "input"
      <4> DEFINE d == old[k] + (window[k] - Failed(k))
      <4>1. d \in Int /\ current[k] = Wrap(d)
        BY <3>1
      <4>2. /\ current'[k] = Wrap(current[k] + (-1))
            /\ d + (-1) = old[k] + (window[k] - Failed(k)')
        BY <1>1, <2>1, <3>1, <3>2 DEF Counted, Failed
      <4> HIDE DEF d
      <4>3. -1 \in Int
        OBVIOUS
      <4>4. Wrap(Wrap(d) + (-1)) = Wrap(d + (-1))
        BY <4>1, <4>3, WrapSum
      <4>5. Wrap(current[k] + (-1)) \in Ints
        BY <3>1, <4>3, WrapIs
      <4> QED BY <4>1, <4>2, <4>4, <4>5
    <3>3. CASE k # "input"
      BY <1>1, <2>1, <3>1, <3>3 DEF Counted, Failed
    <3> QED BY <3>2, <3>3
  <2>3. current' \in [Kinds -> Ints]
    BY <1>1, <2>1, <2>2 DEF Counted
  <2> QED BY <1>1, <2>1, <2>2, <2>3, Constants DEF Counted, Counters
<1>5. CASE \E counts \in [Kinds -> Nat] : Add(counts) /\ UNCHANGED <<old, last, failures>>
  <2>1. PICK counts \in [Kinds -> Nat] : Add(counts) /\ UNCHANGED <<old, last, failures>>
    BY <1>5
  <2> QED BY <1>1, <2>1, Adding DEF Counted
<1>6. CASE ReadSome
  <2>1. PICK size \in Sizes, commands \in Nat : Read(size, commands)
    BY <1>6 DEF ReadSome
  <2>2. [Nothing EXCEPT !["input"] = size, !["commands"] = commands] \in [Kinds -> Nat]
    BY Constants DEF Nothing
  <2> QED BY <1>5, <2>1, <2>2 DEF Read, Handler, samples
<1>7. CASE ReplySome
  <2>1. PICK size \in Sizes : Reply(size)
    BY <1>7 DEF ReplySome
  <2>2. [Nothing EXCEPT !["output"] = size] \in [Kinds -> Nat]
    BY Constants DEF Nothing
  <2> QED BY <1>5, <2>1, <2>2 DEF Reply, Handler, samples
<1>8. CASE Calculate /\ Second(clock) = old_time_
  BY <1>2, <1>8 DEF Calculate, samples
<1>9. CASE Tick
  BY <1>2, <1>9 DEF Tick, samples, totals
<1>10. CASE Accept
  BY <1>2, <1>10 DEF Accept, Handler, samples, totals
<1>11. CASE Eof
  BY <1>2, <1>11 DEF Eof, Handler, samples, totals
<1>12. CASE EndBatch
  BY <1>2, <1>12 DEF EndBatch, samples, totals
<1> QED BY Steps, <1>3, <1>4, <1>6, <1>7, <1>8, <1>9, <1>10, <1>11, <1>12

\* The other variables.
LEMMA NextTypeOK ==
  ASSUME IInv, Next PROVE TypeOK'
<1> USE DEF IInv
<1>1. /\ old' \in [Kinds -> Ints] /\ current' \in [Kinds -> Ints]
      /\ {total, window, last}' \subseteq [Kinds -> Nat]
      /\ failures' \in 0..MaxFailures
  BY NextCounted DEF Counted
<1>2. /\ pc' \in {"loop", "events"}
      /\ clock' \in Nat /\ clients' \in Nat /\ handled' \in 0..MaxEvents
      /\ total_connections_received_' \in 0..MaxConnections
  <2> USE TypeFacts, Constants DEF TypeOK
  <2>1. CASE Calculate
    BY <2>1 DEF Calculate
  <2>2. CASE Tick
    BY <2>2 DEF Tick
  <2>3. CASE EndBatch
    BY <2>3 DEF EndBatch
  <2>4. CASE Accept
    BY <2>4 DEF Accept, Handler
  <2>5. CASE Eof
    BY <2>5 DEF Eof, Handler
  <2>6. CASE ReadFails
    BY <2>6 DEF ReadFails, Handler
  <2>7. CASE ReplySome
    BY <2>7 DEF ReplySome, Reply, Handler
  <2>8. CASE ReadSome
    BY <2>8 DEF ReadSome, Read, Handler
  <2> QED BY Steps, <2>1, <2>2, <2>3, <2>4, <2>5, <2>6, <2>7, <2>8
<1>3. /\ connect_client_' \in Ints \cup {Unset}
      /\ old_time_' \in 0..Minute-1
      /\ qps_' \in Ints
      /\ input_kbps_' \in Ints \cup {Unset} /\ output_kbps_' \in Ints \cup {Unset}
      /\ calculated' \in Nat /\ stalled' \in BOOLEAN
      /\ first' \in Nat \cup {-1} /\ sampled' \in Nat \cup {-1}
  <2>1. CASE ~Calculate
    BY <2>1, Quiet, TypeFacts DEF TypeOK
  <2>2. CASE Calculate
    <3>1. /\ connect_client_' = clients /\ calculated' = clock
          /\ first' \in {clock, first} /\ stalled' \in BOOLEAN
      BY <2>2, TypeFacts DEF Calculate, Ran
    <3>2. clients \in Ints
      BY TypeFacts, Constants DEF TypeOK, Clients, Ints
    <3>3. CASE Second(clock) # old_time_
      <4>1. Second(clock) \in 0..Minute-1
        BY TypeFacts, SecondTyped
      <4> QED BY <2>2, <3>1, <3>2, <3>3, <4>1, Sampling, TypeFacts DEF Calculate
    <3>4. CASE Second(clock) = old_time_
      <4>1. UNCHANGED <<old_time_, qps_, input_kbps_, output_kbps_, sampled>>
        BY <2>2, <3>4 DEF Calculate, samples
      <4> QED BY <3>1, <3>2, <4>1, TypeFacts DEF TypeOK
    <3> QED BY <3>3, <3>4
  <2> QED BY <2>1, <2>2
<1>4. {first, sampled}' \subseteq Nat \cup {-1}
  BY <1>3
<1> QED BY <1>1, <1>2, <1>3, <1>4 DEF TypeOK

LEMMA NextIInv ==
  ASSUME IInv, [Next]_vars PROVE IInv'
<1>1. CASE Next
  BY <1>1, NextTypeOK, NextCounted, NextRates, NextTimes, NextClients DEF IInv, Counted
<1>2. CASE UNCHANGED vars
  BY <1>2 DEF vars, samples, totals, runs, IInv, TypeOK, Counters, Failed,
              RatesAreOfOneWindow, Times, Clients
<1> QED BY <1>1, <1>2

-----------------------------------------------------------------------------
(***************************************************************************)
(* The theorems.                                                           *)
(***************************************************************************)
\* The inductive invariant holds of every run.
THEOREM Invariance == Spec => []IInv
BY InitIInv, NextIInv, PTL DEF Spec

\* Every field keeps its type: no sample leaves the range of an int, and no
\* more clients are connected than were accepted.
THEOREM TypeCorrect == Spec => []TypeOK
<1>1. IInv => TypeOK
  BY DEF IInv
<1> QED BY <1>1, Invariance, PTL

\* The rates of INFOR are those of one interval between samples, however often
\* the counters wrapped.
THEOREM RatesRight == Spec => []RatesAreOfOneWindow
<1>1. IInv => RatesAreOfOneWindow
  BY DEF IInv
<1> QED BY <1>1, Invariance, PTL

\* INFOR shows a sample that is as old as the iteration it runs in, unless an
\* iteration of main's loop took a minute.
THEOREM Recent == Spec => []SampleIsRecent
<1>1. IInv => SampleIsRecent
  BY TypeFacts DEF IInv, Times, SampleIsRecent, IterationTime
<1> QED BY <1>1, Invariance, PTL

\* INFOR shows an unset rate only before the first sample, in the first second
\* of a minute.
THEOREM UnsetEarly == Spec => []UnsetOnlyInFirstSecond
<1>1. IInv => UnsetOnlyInFirstSecond
  BY TypeFacts DEF IInv, Times, Clients, UnsetOnlyInFirstSecond
<1> QED BY <1>1, Invariance, PTL

\* The number of clients of INFOR is off by the events handled in this
\* iteration at most.
THEOREM ClientsRight == Spec => []ClientsShown
<1>1. IInv => ClientsShown
  BY TypeFacts DEF IInv, Clients, ClientsShown
<1> QED BY <1>1, Invariance, PTL
=============================================================================
