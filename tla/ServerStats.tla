----------------------------- MODULE ServerStats -----------------------------
(***************************************************************************)
(* The statistics (src/serverstats.cc) under the calls that main,          *)
(* AnalyticData, GetRequest and SendReply make: Calculate once at the top  *)
(* of the loop, the Add functions in the handlers of its events, and the   *)
(* getters while INFOR runs.  A counter is an int; Calculate takes a       *)
(* sample when the second of the minute differs from that of the last.     *)
(***************************************************************************)
EXTENDS Integers

CONSTANTS
  Half,          \* 2^31: an int is in -Half..Half-1
  Minute,        \* seconds of a minute
  MiB, KiB,      \* the units of input_kbps_ and output_kbps_
  Unset,         \* the value of a field that was not initialized
  Sizes,         \* bytes that one read or write may move
  MaxClock,      \* bound: seconds
  MaxEvents,     \* the size of the array events
  MaxConnections,\* bound: connections, within an int
  MaxTotal,      \* bound: commands, bytes in and bytes out
  MaxFailures    \* bound: failed reads between two samples

ASSUME ServerStatsAssumption ==
  /\ Half \in Nat \ {0}
  /\ Minute \in Nat \ {0}
  /\ MiB \in 1..Half /\ KiB \in Nat \ {0}
  /\ Unset \notin Int
  /\ Sizes \subseteq Nat \ {0}
  /\ MaxEvents \in Nat \ {0}
  /\ {MaxClock, MaxTotal} \subseteq Nat
  /\ MaxConnections \in 0..Half-1
  /\ MaxFailures \in 0..MiB-1

Kinds == {"commands", "input", "output"}

VARIABLES
  pc,            \* "loop": before Calculate; "events": in the handlers
  clock,         \* time(0); a minute begins at 0
  clients,       \* conn_map.size()
  handled,       \* events handled in this iteration
  \* the fields of ServerStats
  connect_client_, old_time_, qps_, input_kbps_, output_kbps_,
  old, current,  \* old_total_..., current_total_...
  total_connections_received_,
  \* history
  first,         \* when Calculate ran for the first time, or -1
  calculated,    \* when Calculate ran last
  stalled,       \* did an iteration of the loop take a minute or more?
  sampled,       \* when it took the last sample, or -1
  total,         \* commands and bytes so far
  window,        \* commands and bytes since the last sample
  last,          \* commands and bytes between the last two samples
  failures       \* failed reads since the last sample

runs    == <<first, calculated, stalled>>
samples == <<old_time_, qps_, input_kbps_, output_kbps_, old, sampled, last>>
totals  == <<current, total, window>>
vars == <<pc, clock, clients, handled, connect_client_, samples, totals,
          total_connections_received_, runs, failures>>

Nothing == [k \in Kinds |-> 0]

\* The constructor, and the start of main's loop.
Init ==
  /\ pc = "loop"
  /\ clock \in 0..Minute-1
  /\ clients = 0
  /\ handled = 0
  /\ connect_client_ = Unset
  /\ old_time_ = 0
  /\ qps_ = 0
  /\ input_kbps_ = Unset /\ output_kbps_ = Unset
  /\ old = Nothing /\ current = Nothing
  /\ total_connections_received_ = 0
  /\ first = -1 /\ calculated = clock /\ stalled = FALSE
  /\ sampled = -1
  /\ total = Nothing /\ window = Nothing /\ last = Nothing
  /\ failures = 0

\* Mutant: a total that does not fit into an int.
NoWrap(i) == i

Wrap(i) == ((i + Half) % (2 * Half)) - Half

\* / on ints: the quotient is rounded towards zero.
Quotient(i, unit) == IF i >= 0 THEN i \div unit ELSE -((-i) \div unit)
Second(t) == t % Minute

Tick ==
  /\ clock < MaxClock
  /\ clock' = clock + 1
  /\ UNCHANGED <<pc, clients, handled, connect_client_, samples, totals,
                 total_connections_received_, runs, failures>>

-----------------------------------------------------------------------------
Rate(kind, unit) == Quotient(Wrap(current[kind] - old[kind]), unit)

Rates ==
  /\ qps_' = Rate("commands", 1)
  /\ input_kbps_' = Rate("input", MiB)
  /\ output_kbps_' = Rate("output", KiB)

NewWindow == last' = window /\ window' = Nothing /\ sampled' = clock /\ failures' = 0

\* Mutants: a total, or the time, is not kept; a rate is not set.
SampleKeepsOld ==
  /\ Rates
  /\ old' = [current EXCEPT !["commands"] = old["commands"]]
  /\ old_time_' = Second(clock)
  /\ NewWindow

SampleKeepsTime == Rates /\ old' = current /\ UNCHANGED old_time_ /\ NewWindow

SampleOnlyQps ==
  /\ qps_' = Rate("commands", 1)
  /\ UNCHANGED <<input_kbps_, output_kbps_>>
  /\ old' = current /\ old_time_' = Second(clock) /\ NewWindow

Sample ==
  /\ Rates
  /\ old' = current
  /\ old_time_' = Second(clock)
  /\ NewWindow

\* When Calculate runs, and whether that is a minute after it ran before.
Ran ==
  /\ first' = IF first = -1 THEN clock ELSE first
  /\ calculated' = clock
  /\ stalled' = (stalled \/ (first # -1 /\ clock - calculated >= Minute))

\* Mutant: the number of clients is part of the sample.
CalculateAllOnce ==
  /\ pc = "loop"
  /\ pc' = "events"
  /\ Ran
  /\ IF Second(clock) # old_time_ THEN Sample /\ connect_client_' = clients
     ELSE UNCHANGED <<samples, window, failures, connect_client_>>
  /\ UNCHANGED <<clock, clients, handled, current, total, total_connections_received_>>

Calculate ==
  /\ pc = "loop"
  /\ pc' = "events"
  /\ connect_client_' = clients
  /\ Ran
  /\ IF Second(clock) # old_time_ THEN Sample
     ELSE UNCHANGED <<samples, window, failures>>
  /\ UNCHANGED <<clock, clients, handled, current, total, total_connections_received_>>

-----------------------------------------------------------------------------
\* A handler of main, with the number of connections it leaves.
Handler(size) ==
  /\ pc = "events"
  /\ handled < MaxEvents
  /\ handled' = handled + 1
  /\ clients' = size
  /\ UNCHANGED <<pc, clock, connect_client_, samples, runs>>

\* AddCommandProcessed, AddInputBytes or AddOutputBytes, with what they are
\* meant to count.  Bound: less than Half between two samples.
Add(counts) ==
  /\ \A k \in Kinds : total[k] + counts[k] <= MaxTotal
                      /\ window[k] + counts[k] < Half
  /\ current' = [k \in Kinds |-> Wrap(current[k] + counts[k])]
  /\ total' = [k \in Kinds |-> total[k] + counts[k]]
  /\ window' = [k \in Kinds |-> window[k] + counts[k]]

\* JudgeFirst: AddTotalConnectionsReceived.
Accept ==
  /\ Handler(clients + 1)
  /\ total_connections_received_ < MaxConnections
  /\ total_connections_received_' = total_connections_received_ + 1
  /\ UNCHANGED <<totals, failures>>

\* JudgeRead: AnalyticData adds the bytes it read, GetRequest the commands it
\* ran; a request has at least one byte.  The last may end the connection.
Read(size, commands) ==
  /\ clients > 0
  /\ \/ Handler(clients)
     \/ commands > 0 /\ Handler(clients - 1)
  /\ Add([Nothing EXCEPT !["input"] = size, !["commands"] = commands])
  /\ UNCHANGED <<total_connections_received_, failures>>

\* read returned 0.
Eof ==
  /\ clients > 0
  /\ Handler(clients - 1)
  /\ UNCHANGED <<totals, total_connections_received_, failures>>

\* read returned -1, which AnalyticData adds.
ReadFails ==
  /\ clients > 0
  /\ Handler(clients)
  /\ failures < MaxFailures
  /\ failures' = failures + 1
  /\ current' = [current EXCEPT !["input"] = Wrap(@ - 1)]
  /\ UNCHANGED <<total, window, total_connections_received_>>

\* JudgeWrite: SendReply adds the bytes of each write.  (A failed write adds
\* -1 too, just before the next one kills the process.)
Reply(size) ==
  /\ clients > 0
  /\ total["commands"] > 0
  /\ Handler(clients)
  /\ Add([Nothing EXCEPT !["output"] = size])
  /\ UNCHANGED <<total_connections_received_, failures>>

EndBatch ==
  /\ pc = "events"
  /\ pc' = "loop"
  /\ handled' = 0
  /\ UNCHANGED <<clock, clients, connect_client_, samples, totals,
                 total_connections_received_, runs, failures>>

Next ==
  \/ Tick
  \/ Calculate
  \/ Accept \/ Eof \/ ReadFails
  \/ \E size \in Sizes : Reply(size) \/ \E commands \in 0..size : Read(size, commands)
  \/ EndBatch

Spec == Init /\ [][Next]_vars

-----------------------------------------------------------------------------
Ints == -Half..Half-1

TypeOK ==
  /\ pc \in {"loop", "events"}
  /\ clock \in Nat /\ clients \in Nat /\ handled \in 0..MaxEvents
  /\ connect_client_ \in Ints \cup {Unset}
  /\ old_time_ \in 0..Minute-1
  /\ qps_ \in Ints
  /\ input_kbps_ \in Ints \cup {Unset} /\ output_kbps_ \in Ints \cup {Unset}
  /\ old \in [Kinds -> Ints] /\ current \in [Kinds -> Ints]
  /\ total_connections_received_ \in 0..MaxConnections
  /\ stalled \in BOOLEAN
  /\ calculated \in Nat /\ {first, sampled} \subseteq Nat \cup {-1}
  /\ {total, window, last} \subseteq [Kinds -> Nat]
  /\ failures \in 0..MaxFailures

\* What INFOR shows as operations per second and as traffic is what happened
\* between one pair of samples, though the int counters wrap meanwhile, and
\* though failed reads count as -1 byte (which costs at most one unit, and
\* never makes the traffic negative).
RatesAreOfOneWindow ==
  sampled >= 0 =>
    /\ qps_ = last["commands"]
    /\ output_kbps_ = last["output"] \div KiB
    /\ input_kbps_ \in Nat
    /\ last["input"] \div MiB - input_kbps_ \in {0, 1}

\* How long this iteration of main's loop has taken so far.
IterationTime == clock - calculated

\* When INFOR runs, the sample it shows is exactly as old as the iteration that it
\* runs in: of the second in which Calculate ran, and older by the time that the
\* handlers since have taken.  Calculate cannot tell the seconds of different
\* minutes apart: once an iteration took a minute or more, the sample may be whole
\* minutes older still.
SampleIsRecent ==
  pc = "events" /\ sampled >= 0 =>
    \/ clock - sampled = IterationTime
    \/ stalled /\ Second(sampled) = Second(calculated)

\* INFOR reads a field that was never set only if Calculate ran first in the
\* first second of a minute, with which old_time_ starts, and until a run in
\* another second.
UnsetOnlyInFirstSecond ==
  pc = "events" =>
    /\ connect_client_ # Unset
    /\ input_kbps_ = Unset => Second(first) = 0 /\ (calculated = first \/ stalled)

\* The clients that INFOR shows are those at the start of the iteration: never
\* more than the connections received, and off by the events handled since.
ClientsShown ==
  pc = "events" /\ connect_client_ # Unset =>
    /\ connect_client_ <= total_connections_received_
    /\ clients - connect_client_ \in -handled..handled
=============================================================================
