-------------------------- MODULE SessionMapProofs --------------------------
(***************************************************************************)
(* The life cycle of session maps, for any number of requests and any      *)
(* length of time, with the sweep racing every request.                    *)
(***************************************************************************)
EXTENDS SessionMap, TLAPS

\* What the store's lock protects: between two sweeps nothing is left of one,
\* and during a sweep only the sweep itself removes maps from the store.
SweepInv ==
  /\ ~lock => toScan = {} /\ stale = {} /\ reaping = None
  /\ toScan \subseteq registry /\ stale \subseteq registry

\* A sweep that holds the lock has read its clock, and what it has found idle at
\* that time has not been used before it was examined.
TimeInv == (lock => now # NotSweeping) /\ RecentlyUsedSurvive

\* Only maps in use are registered, and a map is purged only after it was.
StageInv ==
  /\ \A q \in registry : pc[q] \in {"using", "closing"}
  /\ \A q \in Request : reaping = q => pc[q] \in {"using", "closing"}
  /\ \A q \in purged : pc[q] \notin {"new", "created"}

LifeInv == NoResurrection /\ ClosedIsPurged /\ NoOrphan

Inv == TypeOK /\ SweepInv /\ StageInv /\ LifeInv

-----------------------------------------------------------------------------
\* The invariant holds initially.
LEMMA InitInv == ASSUME Init PROVE Inv
<1>1. 0 \in 0 .. MaxClock /\ NotSweeping \in 0 .. MaxClock + 1
  BY SessionAssumption DEF NotSweeping
<1>2. TypeOK
  BY <1>1 DEF Init, TypeOK, Pc
<1>3. SweepInv /\ StageInv /\ LifeInv
  BY SessionAssumption
  DEF Init, SweepInv, StageInv, LifeInv, NoResurrection, ClosedIsPurged, NoOrphan
<1> QED BY <1>2, <1>3 DEF Inv

\* The steps of a request's thread preserve it.
LEMMA RequestInv ==
  ASSUME Inv, NEW q \in Request, RequestStep(q)
  PROVE  Inv'
<1> USE SessionAssumption DEF Inv, LifeInv
<1>1. ASSUME Create(q) PROVE Inv'
  <2>1. TypeOK'
    BY <1>1 DEF Create, TypeOK, Pc, sweepVars
  <2>2. SweepInv' /\ StageInv'
    BY <1>1 DEF Create, TypeOK, SweepInv, StageInv, sweepVars
  <2>3. LifeInv'
    BY <1>1 DEF Create, TypeOK, StageInv, NoResurrection, ClosedIsPurged, NoOrphan, sweepVars
  <2> QED BY <2>1, <2>2, <2>3
<1>2. ASSUME Register(q) PROVE Inv'
  <2>1. TypeOK'
    BY <1>2 DEF Register, TypeOK, Pc, sweepVars, mapVars
  <2>2. SweepInv' /\ StageInv'
    BY <1>2 DEF Register, TypeOK, SweepInv, StageInv, sweepVars, mapVars
  <2>3. LifeInv'
    BY <1>2 DEF Register, TypeOK, NoResurrection, ClosedIsPurged, NoOrphan, sweepVars, mapVars
  <2> QED BY <2>1, <2>2, <2>3
<1>3. ASSUME Reverse(q) \/ \E s \in Synthetic : Add(q, s) PROVE Inv'
  <2>1. TypeOK'
    BY <1>3 DEF Add, Reverse, Touch, TypeOK, Pc, sweepVars
  <2>2. SweepInv' /\ StageInv'
    BY <1>3 DEF Add, Reverse, TypeOK, SweepInv, StageInv, sweepVars
  <2>3. LifeInv'
    BY <1>3 DEF Add, Reverse, TypeOK, NoResurrection, ClosedIsPurged, NoOrphan, sweepVars
  <2> QED BY <2>1, <2>2, <2>3
<1>4. ASSUME LeaveUse(q) PROVE Inv'
  <2>1. TypeOK'
    BY <1>4 DEF LeaveUse, TypeOK, Pc, sweepVars, mapVars
  <2>2. SweepInv' /\ StageInv'
    BY <1>4 DEF LeaveUse, TypeOK, SweepInv, StageInv, sweepVars, mapVars
  <2>3. LifeInv'
    BY <1>4 DEF LeaveUse, TypeOK, NoResurrection, ClosedIsPurged, NoOrphan, sweepVars, mapVars
  <2> QED BY <2>1, <2>2, <2>3
<1>5. ASSUME ClosePop(q) PROVE Inv'
  <2>0. q \in registry \/ q \in purged
    BY <1>5 DEF ClosePop, SweepInv, NoOrphan, TypeOK
  <2>1. TypeOK'
    BY <1>5 DEF ClosePop, TypeOK, Pc, sweepVars, mapVars
  <2>2. SweepInv' /\ StageInv'
    BY <1>5 DEF ClosePop, TypeOK, SweepInv, StageInv, sweepVars, mapVars
  <2>3. LifeInv'
    BY <1>5, <2>0 DEF ClosePop, TypeOK, NoResurrection, ClosedIsPurged, NoOrphan, sweepVars, mapVars
  <2> QED BY <2>1, <2>2, <2>3
<1>6. ASSUME ClosePurge(q) PROVE Inv'
  <2>1. TypeOK'
    BY <1>6 DEF ClosePurge, Purge, TypeOK, Pc, sweepVars
  <2>2. SweepInv' /\ StageInv'
    BY <1>6 DEF ClosePurge, Purge, TypeOK, SweepInv, StageInv, sweepVars
  <2>3. LifeInv'
    BY <1>6 DEF ClosePurge, Purge, TypeOK, NoResurrection, ClosedIsPurged, NoOrphan, sweepVars
  <2> QED BY <2>1, <2>2, <2>3
<1> QED BY <1>1, <1>2, <1>3, <1>4, <1>5, <1>6 DEF RequestStep

\* So do the steps of the sweep.
LEMMA SweepStepInv ==
  ASSUME Inv, SweepStep
  PROVE  Inv'
<1> USE SessionAssumption DEF Inv, LifeInv
<1>1. ASSUME SweepStart \/ SweepLock \/ SweepEnd PROVE Inv'
  <2>1. now' \in 0 .. MaxClock + 1
    BY <1>1 DEF SweepStart, SweepLock, SweepEnd, TypeOK, NotSweeping
  <2>2. TypeOK'
    BY <1>1, <2>1 DEF SweepStart, SweepLock, SweepEnd, TypeOK, mapVars
  <2>3. SweepInv' /\ StageInv'
    BY <1>1 DEF SweepStart, SweepLock, SweepEnd, SweepInv, StageInv, TypeOK, mapVars
  <2>4. LifeInv'
    BY <1>1 DEF SweepStart, SweepLock, SweepEnd, NoResurrection, ClosedIsPurged, NoOrphan, mapVars
  <2> QED BY <2>2, <2>3, <2>4
<1>2. ASSUME NEW q \in Request, SweepScan(q) PROVE Inv'
  BY <1>2 DEF SweepScan, TypeOK, SweepInv, StageInv, NoResurrection,
     ClosedIsPurged, NoOrphan, mapVars
<1>3. ASSUME NEW q \in Request, SweepPop(q) PROVE Inv'
  BY <1>3 DEF SweepPop, TypeOK, SweepInv, StageInv, NoResurrection,
     ClosedIsPurged, NoOrphan, mapVars
<1>4. ASSUME NEW q \in Request, SweepPurge(q) PROVE Inv'
  BY <1>4 DEF SweepPurge, Purge, TypeOK, SweepInv, StageInv, NoResurrection,
     ClosedIsPurged, NoOrphan
<1> QED BY <1>1, <1>2, <1>3, <1>4 DEF SweepStep, SweepGoesOn

\* Every step preserves the invariant.
LEMMA NextInv == ASSUME Inv, [Next]_vars PROVE Inv'
<1>1. ASSUME Tick \/ UNCHANGED vars PROVE Inv'
  BY <1>1, SessionAssumption
  DEF Tick, vars, mapVars, sweepVars, Inv, TypeOK, SweepInv, StageInv, LifeInv,
      NoResurrection, ClosedIsPurged, NoOrphan
<1> QED BY <1>1, RequestInv, SweepStepInv DEF Next

\* The invariant holds in every behaviour.
THEOREM Invariance == Spec => []Inv
<1> QED BY InitInv, NextInv, PTL DEF Spec

\* Type correctness of the maps, the store and the sweep.
THEOREM Typing == Spec => []TypeOK
BY Invariance, PTL DEF Inv

\* Nothing is stored in a map after it was purged, by whoever held it.
THEOREM PurgeIsFinal == Spec => []NoResurrection
BY Invariance, PTL DEF Inv, LifeInv

\* A request that has closed its map leaves no originals behind, whether it or
\* the sweep removed the map from the store.
THEOREM CloseMeansPurged == Spec => []ClosedIsPurged
BY Invariance, PTL DEF Inv, LifeInv

\* No live map is out of everyone's reach.
THEOREM NoMapIsLost == Spec => []NoOrphan
BY Invariance, PTL DEF Inv, LifeInv

-----------------------------------------------------------------------------
\* Before the first sweep there is nothing to say about its time.
LEMMA InitTime == ASSUME Init PROVE TimeInv
BY DEF Init, TimeInv, RecentlyUsedSurvive

\* No request can make a map the sweep has found idle look recently used, but
\* by using it after the sweep examined it.
LEMMA RequestTime ==
  ASSUME Inv, TimeInv, NEW q \in Request, RequestStep(q)
  PROVE  TimeInv'
<1> USE SessionAssumption DEF Inv, TimeInv
<1>1. ASSUME Create(q) PROVE TimeInv'
  <2>1. q \notin stale /\ reaping # q
    BY <1>1 DEF Create, SweepInv, StageInv, TypeOK
  <2>2. \A r \in Request : r # q => last_access'[r] = last_access[r]
    BY <1>1 DEF Create, TypeOK
  <2> QED BY <1>1, <2>1, <2>2 DEF Create, TypeOK, RecentlyUsedSurvive, sweepVars
<1>2. ASSUME Reverse(q) \/ \E s \in Synthetic : Add(q, s) PROVE TimeInv'
  <2>2. \A r \in Request : r # q => last_access'[r] = last_access[r]
    BY <1>2 DEF Add, Reverse, TypeOK
  <2>3. UNCHANGED <<clock, purged, lock, now, stale, reaping>>
    BY <1>2 DEF Add, Reverse, sweepVars
  <2>4. touched \subseteq touched' /\ (q \in stale \cup {reaping} => q \in touched')
    BY <1>2 DEF Add, Reverse, Touch
  <2> QED BY <2>2, <2>3, <2>4 DEF TypeOK, RecentlyUsedSurvive
<1>3. ASSUME Register(q) \/ LeaveUse(q) \/ ClosePop(q) PROVE TimeInv'
  BY <1>3 DEF Register, LeaveUse, ClosePop, RecentlyUsedSurvive, mapVars, sweepVars
<1>4. ASSUME ClosePurge(q) PROVE TimeInv'
  BY <1>4 DEF ClosePurge, Purge, RecentlyUsedSurvive, sweepVars
<1> QED BY <1>1, <1>2, <1>3, <1>4 DEF RequestStep

\* The sweep takes what is idle at its time, and nothing else.
LEMMA SweepTime ==
  ASSUME Inv, TimeInv, SweepStep
  PROVE  TimeInv'
<1> USE SessionAssumption DEF Inv, TimeInv
<1>1. ASSUME SweepStart PROVE TimeInv'
  <2>1. ~lock /\ stale = {} /\ reaping = None
    BY <1>1 DEF SweepStart, SweepInv, TypeOK
  <2> QED BY <1>1, <2>1 DEF SweepStart, RecentlyUsedSurvive, TypeOK
<1>2. ASSUME SweepLock PROVE TimeInv'
  BY <1>2 DEF SweepLock, RecentlyUsedSurvive, TypeOK, mapVars
<1>3. ASSUME SweepEnd PROVE TimeInv'
  BY <1>3 DEF SweepEnd, RecentlyUsedSurvive, TypeOK, mapVars
<1>4. ASSUME NEW q \in Request, SweepScan(q) PROVE TimeInv'
  <2>1. q \in stale' => q \in stale \/ q \in purged \/ last_access[q] + Timeout <= now
    BY <1>4 DEF SweepScan, is_idle, TypeOK
  <2> QED BY <1>4, <2>1 DEF SweepScan, RecentlyUsedSurvive, mapVars
<1>5. ASSUME NEW q \in Request, SweepPop(q) PROVE TimeInv'
  BY <1>5 DEF SweepPop, RecentlyUsedSurvive, mapVars
<1>6. ASSUME NEW q \in Request, SweepPurge(q) PROVE TimeInv'
  BY <1>6 DEF SweepPurge, Purge, RecentlyUsedSurvive
<1> QED BY <1>1, <1>2, <1>3, <1>4, <1>5, <1>6 DEF SweepStep, SweepGoesOn

\* Every step preserves it.
LEMMA NextTime == ASSUME Inv, TimeInv, [Next]_vars PROVE TimeInv'
<1>1. ASSUME Tick \/ UNCHANGED vars PROVE TimeInv'
  BY <1>1, SessionAssumption
  DEF Tick, vars, mapVars, sweepVars, Inv, TimeInv, TypeOK, RecentlyUsedSurvive
<1> QED BY <1>1, RequestTime, SweepTime DEF Next

\* A map used within the idle timeout before the sweep read its clock, or later
\* but before it was examined, is not swept: for any number of requests, any
\* timeout, and however long the sweep takes.  Only a use after the examination
\* comes too late.
THEOREM SweepSpares == Spec => []RecentlyUsedSurvive
<1>1. Spec => []TimeInv
  BY Invariance, InitTime, NextTime, PTL DEF Spec
<1> QED BY <1>1, PTL DEF TimeInv
=============================================================================
