------------------------ MODULE ProducerFactoryProofs ------------------------
(***************************************************************************)
(* Proofs about ProducerFactory for any mocks, any number of callers, any  *)
(* cache lifetime, lateness of the timer and end of time.                  *)
(*                                                                         *)
(* Both properties rest on the time under which a result is cached being   *)
(* the one at which its probe began: it is not later than the news         *)
(* (NewsInv), and not later than the last probe (ProbeInv).                *)
(***************************************************************************)
EXTENDS ProducerFactory, TLAPS

\* What a probe will cache, and what is cached, is at least as new as the
\* time it is cached under.
NewsInv ==
    /\ \A p \in probes : p.began <= p.seen /\ p.seen <= now
    /\ \A b \in DOMAIN healthCache :
         healthCache[b].lastCheck <= healthCache[b].seen
    /\ AnswersAreFresh

\* No result is cached under a later time than the last probe's, and the
\* monitor, when it last looked, found a recent one or began a probe.
ProbeInv ==
    /\ \A p \in probes : p.began <= lastProbe
    /\ "redis" \in DOMAIN healthCache => healthCache["redis"].lastCheck <= lastProbe
    /\ lastProbe <= now
    /\ now - sinceRound - lastProbe < Interval

-----------------------------------------------------------------------------
LEMMA TypeInit == Init => TypeOK
<1> SUFFICES ASSUME Init PROVE TypeOK
  OBVIOUS
<1> USE FactoryAssumption DEF Init
<1>1. DOMAIN healthCache = {}
  OBVIOUS
<1>2. producers \subseteq Backends /\ probes \subseteq Probe /\ destroyed \in BOOLEAN
  BY DEF Backends
<1>3. 0 \in 0 .. MaxTime /\ 0 \in 0 .. Interval + Jitter
  OBVIOUS
<1> QED
  BY <1>1, <1>2, <1>3 DEF TypeOK

LEMMA TypeNext == TypeOK /\ [Next]_vars => TypeOK'
<1> SUFFICES ASSUME TypeOK, [Next]_vars PROVE TypeOK'
  OBVIOUS
<1> USE FactoryAssumption DEF TypeOK
<1>1. ASSUME NEW c \in Callers, ProbeRedis(c) PROVE TypeOK'
  BY <1>1 DEF ProbeRedis, NewProbe, Probe, Backends, timeVars
<1>2. ASSUME NEW c \in Callers, NEW b \in Backends, CachedHealth(c, b)
      PROVE  TypeOK'
  BY <1>2 DEF CachedHealth, IsCached, Answer, Health, timeVars
<1>3. ASSUME NEW c \in Callers, NEW b \in Backends, ProbeMock(c, b)
      PROVE  TypeOK'
  BY <1>3 DEF ProbeMock, Store, MockHealth, Answer, Health, timeVars
<1>4. ASSUME NEW p \in probes, Pinged(p) PROVE TypeOK'
  BY <1>4 DEF Pinged, Probe, timeVars
<1>5. ASSUME NEW p \in probes, NEW seen \in 0 .. MaxTime, Finish(p, seen)
      PROVE  TypeOK'
  BY <1>5 DEF Finish, Store, Answer, Probe, Health, Backends, timeVars
<1>6. ASSUME NEW p \in probes, InfoAnswered(p) \/ InfoFails(p) PROVE TypeOK'
  BY <1>5, <1>6 DEF InfoAnswered, InfoFails, Probe
<1>7. ASSUME NEW b \in Backends, GetProducer(b) PROVE TypeOK'
  BY <1>7 DEF GetProducer, timeVars
<1>8. CASE MonitorRound
  BY <1>8 DEF MonitorRound, Store, MockHealth, NewProbe, Probe, Health, Backends
<1>9. CASE OnModuleDestroy
  BY <1>9 DEF OnModuleDestroy, timeVars
<1>10. CASE Tick
  BY <1>10 DEF Tick
<1>11. CASE UNCHANGED vars
  BY <1>11 DEF vars, timeVars
<1> QED
  BY <1>1, <1>2, <1>3, <1>4, <1>6, <1>7, <1>8, <1>9, <1>10, <1>11 DEF Next

\* TypeOK: what is cached is keyed by a backend and holds times of the past.
THEOREM FactoryTypeCorrect == Spec => []TypeOK
BY TypeInit, TypeNext, PTL DEF Spec

-----------------------------------------------------------------------------
LEMMA NewsInit == Init => NewsInv
BY FactoryAssumption DEF Init, NewsInv, AnswersAreFresh

LEMMA NewsNext == TypeOK /\ NewsInv /\ [Next]_vars => NewsInv'
<1> SUFFICES ASSUME TypeOK, NewsInv, [Next]_vars PROVE NewsInv'
  OBVIOUS
<1> USE FactoryAssumption DEF TypeOK, NewsInv, AnswersAreFresh, timeVars
<1>1. ASSUME NEW c \in Callers, ProbeRedis(c) PROVE NewsInv'
  BY <1>1 DEF ProbeRedis, NewProbe
<1>2. ASSUME NEW c \in Callers, NEW b \in Backends, CachedHealth(c, b)
      PROVE  NewsInv'
  <2>1. healthCache[b] \in Health /\ b \in DOMAIN healthCache
    BY <1>2 DEF CachedHealth, IsCached
  <2>2. now - healthCache[b].lastCheck < Interval
    BY <1>2 DEF CachedHealth, IsCached
  <2>3. now - healthCache[b].seen < Interval
    BY <2>1, <2>2 DEF Health
  <2> QED
    BY <1>2, <2>1, <2>3 DEF CachedHealth, Answer, Health
<1>3. ASSUME NEW c \in Callers, NEW b \in Backends, ProbeMock(c, b)
      PROVE  NewsInv'
  <2>1. newsAge' = 0 /\ probes' = probes /\ now' = now
    BY <1>3 DEF ProbeMock, Answer
  <2>2. MockHealth.lastCheck <= MockHealth.seen
    BY DEF MockHealth
  <2>3. \A d \in DOMAIN healthCache' : healthCache'[d].lastCheck <= healthCache'[d].seen
    BY <1>3, <2>2 DEF ProbeMock, Store
  <2> QED
    BY <2>1, <2>3
<1>4. ASSUME NEW p \in probes, Pinged(p) PROVE NewsInv'
  <2> DEFINE q == [p EXCEPT !.awaits = "info", !.seen = now]
  <2>1. p \in Probe /\ p.began <= now
    BY DEF Probe
  <2>2. q.began = p.began /\ q.seen = now
    BY <2>1 DEF Probe
  <2>3. UNCHANGED <<healthCache, newsAge, now>> /\ probes' = (probes \ {p}) \cup {q}
    BY <1>4 DEF Pinged
  <2> HIDE DEF q
  <2> QED
    BY <2>1, <2>2, <2>3 DEF Probe
<1>5. ASSUME NEW p \in probes, NEW seen \in 0 .. MaxTime, p.began <= seen,
             Finish(p, seen)
      PROVE  NewsInv'
  BY <1>5 DEF Finish, Store, Answer, Probe
<1>6. ASSUME NEW p \in probes, InfoAnswered(p) \/ InfoFails(p) PROVE NewsInv'
  <2>1. p \in Probe /\ p.seen \in 0 .. MaxTime /\ now \in 0 .. MaxTime
    BY DEF Probe
  <2>2. p.began <= p.seen /\ p.began <= now
    BY <2>1 DEF Probe
  <2> QED
    BY <1>5, <1>6, <2>1, <2>2 DEF InfoAnswered, InfoFails
<1>7. ASSUME NEW b \in Backends, GetProducer(b) PROVE NewsInv'
  BY <1>7 DEF GetProducer
<1>8. CASE MonitorRound
  BY <1>8 DEF MonitorRound, Store, MockHealth, NewProbe
<1>9. CASE OnModuleDestroy
  BY <1>9 DEF OnModuleDestroy
<1>10. CASE Tick
  BY <1>10 DEF Tick, Probe
<1>11. CASE UNCHANGED vars
  BY <1>11 DEF vars
<1> QED
  BY <1>1, <1>2, <1>3, <1>4, <1>6, <1>7, <1>8, <1>9, <1>10, <1>11 DEF Next

LEMMA NewsIsSafe == Spec => []NewsInv
BY TypeInit, TypeNext, NewsInit, NewsNext, PTL DEF Spec

\* A caller is never told news of a backend that are Interval older than its
\* question, although probes store their results in any order.
THEOREM AnswersAreFreshThm == Spec => []AnswersAreFresh
<1>1. NewsInv => AnswersAreFresh
  BY DEF NewsInv
<1> QED
  BY <1>1, NewsIsSafe, PTL

-----------------------------------------------------------------------------
LEMMA ProbeInit == Init => ProbeInv
BY FactoryAssumption DEF Init, ProbeInv

LEMMA ProbeNext == TypeOK /\ ProbeInv /\ [Next]_vars => ProbeInv'
<1> SUFFICES ASSUME TypeOK, ProbeInv, [Next]_vars PROVE ProbeInv'
  OBVIOUS
<1> USE FactoryAssumption DEF TypeOK, ProbeInv
<1>1. ASSUME NEW c \in Callers, ProbeRedis(c) PROVE ProbeInv'
  BY <1>1 DEF ProbeRedis, NewProbe, Probe, Health, timeVars
<1>2. ASSUME NEW c \in Callers, NEW b \in Backends, CachedHealth(c, b)
      PROVE  ProbeInv'
  BY <1>2 DEF CachedHealth, timeVars
<1>3. ASSUME NEW c \in Callers, NEW b \in Backends, ProbeMock(c, b)
      PROVE  ProbeInv'
  BY <1>3 DEF ProbeMock, Store, timeVars
<1>4. ASSUME NEW p \in probes, Pinged(p) PROVE ProbeInv'
  BY <1>4 DEF Pinged, Probe, timeVars
<1>5. ASSUME NEW p \in probes, NEW seen, Finish(p, seen) PROVE ProbeInv'
  BY <1>5 DEF Finish, Store, timeVars
<1>6. ASSUME NEW p \in probes, InfoAnswered(p) \/ InfoFails(p) PROVE ProbeInv'
  BY <1>5, <1>6 DEF InfoAnswered, InfoFails
<1>7. ASSUME NEW b \in Backends, GetProducer(b) PROVE ProbeInv'
  BY <1>7 DEF GetProducer, timeVars
<1>8. CASE MonitorRound
  <2>1. CASE IsCached("redis")
    <3>1. healthCache["redis"] \in Health /\ now - healthCache["redis"].lastCheck < Interval
      BY <2>1 DEF IsCached
    <3>2. now - lastProbe < Interval
      BY <3>1, <2>1 DEF IsCached, Health
    <3>3. UNCHANGED <<now, probes, lastProbe>> /\ sinceRound' = 0
      BY <1>8, <2>1 DEF MonitorRound
    <3>4. "redis" \in DOMAIN healthCache' =>
            healthCache'["redis"].lastCheck = healthCache["redis"].lastCheck
      BY <1>8, <2>1 DEF MonitorRound, Store, IsCached
    <3> QED
      BY <2>1, <3>2, <3>3, <3>4 DEF IsCached
  <2>2. CASE ~IsCached("redis")
    <3>1. /\ now' = now /\ sinceRound' = 0 /\ lastProbe' = now
          /\ probes' = probes \cup {NewProbe("monitor")}
      BY <1>8, <2>2 DEF MonitorRound, Backends
    <3>2. "redis" \in DOMAIN healthCache' =>
            /\ "redis" \in DOMAIN healthCache
            /\ healthCache'["redis"] = healthCache["redis"]
      BY <1>8 DEF MonitorRound, Store
    <3>3. \A p \in probes' : p.began <= lastProbe'
      BY <3>1 DEF NewProbe, Probe
    <3>4. "redis" \in DOMAIN healthCache' => healthCache'["redis"].lastCheck <= lastProbe'
      BY <3>1, <3>2 DEF Health
    <3> QED
      BY <3>1, <3>3, <3>4
  <2> QED
    BY <2>1, <2>2
<1>9. CASE OnModuleDestroy
  BY <1>9 DEF OnModuleDestroy, timeVars
<1>10. CASE Tick
  BY <1>10 DEF Tick
<1>11. CASE UNCHANGED vars
  BY <1>11 DEF vars, timeVars
<1> QED
  BY <1>1, <1>2, <1>3, <1>4, <1>6, <1>7, <1>8, <1>9, <1>10, <1>11 DEF Next

\* Nothing, not even probes that never end, keeps Redis from being probed
\* again within twice the interval and the lateness of the timer.
THEOREM ProbesKeepComingThm == Spec => []ProbesKeepComing
<1>1. TypeOK /\ ProbeInv => ProbesKeepComing
  BY FactoryAssumption DEF TypeOK, ProbeInv, ProbesKeepComing
<1> QED
  BY <1>1, TypeInit, TypeNext, ProbeInit, ProbeNext, PTL DEF Spec
=============================================================================
