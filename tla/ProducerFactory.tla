--------------------------- MODULE ProducerFactory ---------------------------
(***************************************************************************)
(* ProducerFactoryService: the caches of producers and of their health,    *)
(* the interval that refreshes the second, and onModuleDestroy.            *)
(*                                                                         *)
(* The health of a mock is known at once.  That of Redis takes a PING and  *)
(* then an INFO, which may take any time, and nothing keeps several probes *)
(* from being under way together: getProducerHealth looks only at the      *)
(* cache.  It takes the time before it awaits the probe and stores it      *)
(* afterwards, with the result, over whatever is there by then.            *)
(*                                                                         *)
(* Init is the state after onModuleInit, which Nest awaits before it lets  *)
(* anyone in.  disconnect makes nobody wait, so onModuleDestroy is one     *)
(* step; a process without it (main.ts enables no shutdown hooks) is a     *)
(* behaviour without that step.  The catch of getProducerHealth is not     *)
(* modelled: no getHealthStatus throws, nor does getProducer for the three *)
(* backends.                                                               *)
(***************************************************************************)
EXTENDS Integers

CONSTANTS
    Mocks,          \* the mock backends, "kafka" and "sqs" in the code
    Callers,        \* users of the factory, each with one call at a time
    Interval,       \* healthCheckInterval: cache lifetime and monitor period
    Jitter,         \* how late a due timer may fire
    MaxTime         \* bound: when time stops

ASSUME FactoryAssumption ==
    /\ "redis" \notin Mocks
    /\ "monitor" \notin Callers
    /\ Interval \in Nat \ {0}
    /\ Jitter \in Nat
    /\ MaxTime \in Nat

Backends == Mocks \cup {"redis"}

\* A result: which one is of no consequence, since all that is done with it
\* is to cache, return and log it.  `seen` is when Redis answered or failed
\* to: the age of the news.
Health == [lastCheck : 0 .. MaxTime, seen : 0 .. MaxTime]

\* A call of RedisProducerService.getHealthStatus that has not returned.
Probe == [by : Callers \cup {"monitor"}, began : 0 .. MaxTime,
          awaits : {"ping", "info"}, seen : 0 .. MaxTime]

VARIABLES
    producers,      \* the backends with a cached producer
    healthCache,    \* Map from a backend to its Health
    probes,         \* the probes of Redis that are under way
    now,            \* Date.now()
    sinceRound,     \* time since the monitor's callback last ran
    destroyed,      \* onModuleDestroy has run
    newsAge,        \* history: by how much the news that getProducerHealth
                    \* returned last was older than the question
    lastProbe       \* history: when a probe of Redis last began

timeVars == <<now, sinceRound>>
vars == <<producers, healthCache, probes, timeVars, destroyed, newsAge, lastProbe>>

TypeOK ==
    /\ producers \subseteq Backends
    /\ DOMAIN healthCache \subseteq Backends
    /\ \A b \in DOMAIN healthCache : healthCache[b] \in Health
    /\ probes \subseteq Probe
    /\ now \in 0 .. MaxTime
    /\ sinceRound \in 0 .. Interval + Jitter
    /\ destroyed \in BOOLEAN
    /\ newsAge \in 0 .. MaxTime
    /\ lastProbe \in 0 .. MaxTime

Init ==
    /\ producers = {"redis"}
    /\ healthCache = [b \in {} |-> 0]
    /\ probes = {}
    /\ now = 0
    /\ sinceRound = 0
    /\ destroyed = FALSE
    /\ newsAge = 0
    /\ lastProbe = 0

-----------------------------------------------------------------------------
(* getProducerHealth.                                                      *)

IsCached(b) ==
    b \in DOMAIN healthCache /\ now - healthCache[b].lastCheck < Interval

\* healthCache.set for each of some backends.
Store(backends, entry) ==
    healthCache' = [b \in DOMAIN healthCache \cup backends |->
                      IF b \in backends THEN entry ELSE healthCache[b]]

Answer(began, seen) == newsAge' = IF seen < began THEN began - seen ELSE 0

NewProbe(by) == [by |-> by, began |-> now, awaits |-> "ping",
                 seen |-> now]

MockHealth == [lastCheck |-> now, seen |-> now]

IsFree(c) == \A p \in probes : p.by # c

\* The cache has a recent result.
CachedHealth(c, b) ==
    /\ IsFree(c)
    /\ IsCached(b)
    /\ Answer(now, healthCache[b].seen)
    /\ UNCHANGED <<producers, healthCache, probes, timeVars, destroyed, lastProbe>>

\* It has none, and the backend is a mock.
ProbeMock(c, b) ==
    /\ IsFree(c)
    /\ b \in Mocks
    /\ ~IsCached(b)
    /\ producers' = producers \cup {b}
    /\ Store({b}, MockHealth)
    /\ Answer(now, now)
    /\ UNCHANGED <<probes, timeVars, destroyed, lastProbe>>

\* It has none, and the backend is Redis: a PING goes out.
ProbeRedis(c) ==
    /\ IsFree(c)
    /\ ~IsCached("redis")
    /\ producers' = producers \cup {"redis"}
    /\ probes' = probes \cup {NewProbe(c)}
    /\ lastProbe' = now
    /\ UNCHANGED <<healthCache, timeVars, destroyed, newsAge>>

\* mutant: no new probe while one is under way
MonitorRound_InFlight ==
    /\ sinceRound >= Interval
    /\ sinceRound' = 0
    /\ LET stale == {b \in Backends : ~IsCached(b)} IN
       /\ producers' = producers \cup stale
       /\ Store(stale \cap Mocks, MockHealth)
       /\ IF "redis" \in stale /\ probes = {}
          THEN /\ probes' = probes \cup {NewProbe("monitor")}
               /\ lastProbe' = now
          ELSE UNCHANGED <<probes, lastProbe>>
    /\ UNCHANGED <<now, destroyed, newsAge>>

\* The callback of the interval: getAllProducersHealth for every backend.
\* It only logs what it learns.
MonitorRound ==
    /\ sinceRound >= Interval
    /\ sinceRound' = 0
    /\ LET stale == {b \in Backends : ~IsCached(b)} IN
       /\ producers' = producers \cup stale
       /\ Store(stale \cap Mocks, MockHealth)
       /\ IF "redis" \in stale
          THEN /\ probes' = probes \cup {NewProbe("monitor")}
               /\ lastProbe' = now
          ELSE UNCHANGED <<probes, lastProbe>>
    /\ UNCHANGED <<now, destroyed, newsAge>>

-----------------------------------------------------------------------------
(* RedisProducerService.getHealthStatus, and what follows it.              *)

\* healthCheck's PING is executed, or fails; the INFO is sent in both cases.
Pinged(p) ==
    /\ p.awaits = "ping"
    /\ probes' = (probes \ {p}) \cup
         {[p EXCEPT !.awaits = "info", !.seen = now]}
    /\ UNCHANGED <<producers, healthCache, timeVars, destroyed, newsAge, lastProbe>>

\* mutant: the time is taken after the probe
Finish_Now(p, seen) ==
    /\ probes' = probes \ {p}
    /\ Store({"redis"}, [lastCheck |-> now, seen |-> seen])
    /\ Answer(p.began, seen)
    /\ UNCHANGED <<producers, timeVars, destroyed, lastProbe>>

\* mutant: the result is stored under another key than it is looked up
Finish_WrongKey(p, seen) ==
    /\ probes' = probes \ {p}
    /\ Store({"health"}, [lastCheck |-> p.began, seen |-> seen])
    /\ Answer(p.began, seen)
    /\ UNCHANGED <<producers, timeVars, destroyed, lastProbe>>

\* The rest of getProducerHealth: cache the result under the time at which
\* the call began.
Finish(p, seen) ==
    /\ probes' = probes \ {p}
    /\ Store({"redis"}, [lastCheck |-> p.began, seen |-> seen])
    /\ Answer(p.began, seen)
    /\ UNCHANGED <<producers, timeVars, destroyed, lastProbe>>

InfoAnswered(p) ==
    /\ p.awaits = "info"
    /\ Finish(p, p.seen)

InfoFails(p) ==
    /\ p.awaits = "info"
    /\ Finish(p, now)

-----------------------------------------------------------------------------
\* getProducer, as writeToLog, testConnection and getProducerMetrics call it.
GetProducer(b) ==
    /\ producers' = producers \cup {b}
    /\ UNCHANGED <<healthCache, probes, timeVars, destroyed, newsAge, lastProbe>>

\* The caches are cleared.  The interval goes on, and so do the probes: the
\* disconnected client fails their commands, later.
OnModuleDestroy ==
    /\ ~destroyed
    /\ destroyed' = TRUE
    /\ producers' = {}
    /\ healthCache' = [b \in {} |-> 0]
    /\ UNCHANGED <<probes, timeVars, newsAge, lastProbe>>

\* A due timer fires within Jitter.
Tick ==
    /\ now < MaxTime
    /\ sinceRound < Interval + Jitter
    /\ now' = now + 1
    /\ sinceRound' = sinceRound + 1
    /\ UNCHANGED <<producers, healthCache, probes, destroyed, newsAge, lastProbe>>

Next ==
    \/ \E c \in Callers :
         \/ ProbeRedis(c)
         \/ \E b \in Backends : CachedHealth(c, b) \/ ProbeMock(c, b)
    \/ \E p \in probes :
         Pinged(p) \/ InfoAnswered(p) \/ InfoFails(p)
    \/ \E b \in Backends : GetProducer(b)
    \/ MonitorRound \/ OnModuleDestroy \/ Tick

Spec == Init /\ [][Next]_vars

-----------------------------------------------------------------------------
(* Properties.                                                             *)

\* Whoever asks for a backend's health gets news less than Interval older
\* than the question, whatever the order in which probes that were under way
\* together stored their results: a late one may overwrite a newer one, but
\* is trusted from its beginning, not from its end.
AnswersAreFresh == newsAge < Interval

\* Redis is probed again and again, even while earlier probes hang, results
\* come late and other users refresh the cache just before the monitor
\* looks: twice Interval and once Jitter never pass without a new probe.
ProbesKeepComing == now - lastProbe < 2 * Interval + Jitter
=============================================================================
