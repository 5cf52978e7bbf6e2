----------------------------- MODULE SessionMap -----------------------------
(***************************************************************************)
(* EncryptedSessionMap and SessionMapStore (substitution/session_map.py)   *)
(* used by several threads, as their locks provide for: one thread per     *)
(* request, which opens its map, uses it and closes it, and a thread that  *)
(* calls sweep_idle (no code of the gateway does: see Fairness).           *)
(*                                                                         *)
(* A section under a map's lock takes no other lock and is one step.  The  *)
(* store's lock is held by sweep_idle across many steps (variable lock);   *)
(* open and close hold it for one dictionary access, which is one step     *)
(* that waits for the lock to be free.                                     *)
(*                                                                         *)
(* Abstractions.  An entry is its synthetic key: what is encrypted under   *)
(* it is the business of module Substitution.  The clock is time.monotonic *)
(* in coarse units, up to MaxClock.                                        *)
(***************************************************************************)
EXTENDS Naturals, FiniteSets

CONSTANTS Request,     \* request ids, each opened once
          Synthetic,   \* synthetic values
          Timeout,     \* idle_timeout_s
          MaxClock,    \* bound: the time a behaviour spans
          None         \* no map

ASSUME SessionAssumption ==
  /\ Timeout \in Nat \ {0} /\ MaxClock \in Nat
  /\ None \notin Request

VARIABLES clock,        \* time.monotonic()
          pc,           \* pc[q]: where q's thread is
          purged,       \* maps whose _purged flag is set
          entries,      \* entries[q]: keys of _encrypted
          last_access,  \* last_access[q]
          registry,     \* keys of SessionMapStore._maps
          lock,         \* the store's lock is held by sweep_idle
          now,          \* sweep_idle: the time it read
          toScan,       \* sweep_idle: maps still to examine
          stale,        \* sweep_idle: maps found idle and not yet popped
          reaping,      \* sweep_idle: a map popped and not yet purged
          touched       \* history: maps used after a sweep in progress found them idle

mapVars == <<purged, entries, last_access>>
sweepVars == <<lock, now, toScan, stale, reaping>>
vars == <<clock, pc, mapVars, registry, sweepVars, touched>>

Pc == {"new", "created", "using", "closing", "purging", "done"}
NotSweeping == MaxClock + 1

Init == /\ clock = 0
        /\ pc = [q \in Request |-> "new"]
        /\ purged = {}
        /\ entries = [q \in Request |-> {}]
        /\ last_access = [q \in Request |-> 0]
        /\ registry = {}
        /\ lock = FALSE
        /\ now = NotSweeping
        /\ toScan = {} /\ stale = {} /\ reaping = None /\ touched = {}

Tick == /\ clock < MaxClock
        /\ clock' = clock + 1
        /\ UNCHANGED <<pc, mapVars, registry, sweepVars, touched>>

-----------------------------------------------------------------------------
\* Mutant: the time of expiry is stored for the time of access.
CreateExpiring(q) ==
  /\ pc[q] = "new"
  /\ last_access' = [last_access EXCEPT ![q] = clock + Timeout]
  /\ pc' = [pc EXCEPT ![q] = "created"]
  /\ UNCHANGED <<clock, purged, entries, registry, sweepVars, touched>>

\* open: the map is built, then registered under the store's lock.
Create(q) ==
  /\ pc[q] = "new"
  /\ last_access' = [last_access EXCEPT ![q] = clock]
  /\ pc' = [pc EXCEPT ![q] = "created"]
  /\ UNCHANGED <<clock, purged, entries, registry, sweepVars, touched>>

Register(q) ==
  /\ pc[q] = "created" /\ ~lock
  /\ registry' = registry \cup {q}
  /\ pc' = [pc EXCEPT ![q] = "using"]
  /\ UNCHANGED <<clock, mapVars, sweepVars, touched>>

\* (History: the sweep in progress has examined the map before this use of it.)
Touch(q) == touched' = touched \cup ({q} \cap (stale \cup {reaping}))

\* Mutant: _check_alive is not called.
AddUnchecked(q, s) ==
  /\ pc[q] = "using"
  /\ entries' = [entries EXCEPT ![q] = @ \cup {s}]
  /\ last_access' = [last_access EXCEPT ![q] = clock]
  /\ Touch(q)
  /\ UNCHANGED <<clock, pc, purged, registry, sweepVars>>

\* add: stores one entry and notes the time of access.
Add(q, s) ==
  /\ pc[q] = "using" /\ q \notin purged
  /\ entries' = [entries EXCEPT ![q] = @ \cup {s}]
  /\ last_access' = [last_access EXCEPT ![q] = clock]
  /\ Touch(q)
  /\ UNCHANGED <<clock, pc, purged, registry, sweepVars>>

\* reverse: a hit and a miss both count as an access.
Reverse(q) ==
  /\ pc[q] = "using" /\ q \notin purged
  /\ last_access' = [last_access EXCEPT ![q] = clock]
  /\ Touch(q)
  /\ UNCHANGED <<clock, pc, purged, entries, registry, sweepVars>>

\* SessionPurgedError, or the end of the request: on to the finally clause.
LeaveUse(q) ==
  /\ pc[q] = "using"
  /\ pc' = [pc EXCEPT ![q] = "closing"]
  /\ UNCHANGED <<clock, mapVars, registry, sweepVars, touched>>

\* Mutant: close does not wait for the store's lock.
ClosePopUnlocked(q) ==
  /\ pc[q] = "closing"
  /\ pc' = [pc EXCEPT ![q] = IF q \in registry THEN "purging" ELSE "done"]
  /\ registry' = registry \ {q}
  /\ UNCHANGED <<clock, mapVars, sweepVars, touched>>

\* close: pops the map under the store's lock; there may be none.
ClosePop(q) ==
  /\ pc[q] = "closing" /\ ~lock
  /\ pc' = [pc EXCEPT ![q] = IF q \in registry THEN "purging" ELSE "done"]
  /\ registry' = registry \ {q}
  /\ UNCHANGED <<clock, mapVars, sweepVars, touched>>

Purge(q) == /\ entries' = [entries EXCEPT ![q] = {}]
            /\ purged' = purged \cup {q}
            /\ UNCHANGED last_access

\* close: purges the popped map after the store's lock is released.
ClosePurge(q) ==
  /\ pc[q] = "purging"
  /\ Purge(q)
  /\ pc' = [pc EXCEPT ![q] = "done"]
  /\ UNCHANGED <<clock, registry, sweepVars, touched>>

-----------------------------------------------------------------------------
\* sweep_idle reads the time, then waits for the store's lock.
SweepStart ==
  /\ now = NotSweeping
  /\ now' = clock
  /\ UNCHANGED <<clock, pc, mapVars, registry, lock, toScan, stale, reaping, touched>>

SweepLock ==
  /\ now # NotSweeping /\ ~lock
  /\ lock' = TRUE
  /\ toScan' = registry
  /\ UNCHANGED <<clock, pc, mapVars, registry, now, stale, reaping, touched>>

\* Mutant: a map is idle one unit early.
IdleEarly(q, t) == q \in purged \/ t + 1 >= last_access[q] + Timeout

\* is_idle, under the map's lock, against the time read before.
is_idle(q, t) == q \in purged \/ t >= last_access[q] + Timeout

SweepScan(q) ==
  /\ lock /\ q \in toScan
  /\ toScan' = toScan \ {q}
  /\ stale' = IF is_idle(q, now) THEN stale \cup {q} ELSE stale
  /\ UNCHANGED <<clock, pc, mapVars, registry, lock, now, reaping, touched>>

\* Mutant: the stale map is dropped from the store but not purged.
SweepPopOnly(q) ==
  /\ lock /\ toScan = {} /\ reaping = None /\ q \in stale
  /\ stale' = stale \ {q}
  /\ registry' = registry \ {q}
  /\ UNCHANGED <<clock, pc, mapVars, lock, now, toScan, reaping, touched>>

\* Each stale map is popped and purged, without looking at it again.
SweepPop(q) ==
  /\ lock /\ toScan = {} /\ reaping = None /\ q \in stale
  /\ stale' = stale \ {q}
  /\ registry' = registry \ {q}
  /\ reaping' = q
  /\ UNCHANGED <<clock, pc, mapVars, lock, now, toScan, touched>>

SweepPurge(q) ==
  /\ reaping = q
  /\ Purge(q)
  /\ reaping' = None
  /\ UNCHANGED <<clock, pc, registry, lock, now, toScan, stale, touched>>

\* Mutant: the lock is never released.
SweepEndLocked ==
  /\ lock /\ toScan = {} /\ stale = {} /\ reaping = None
  /\ now' = NotSweeping
  /\ touched' = {}
  /\ UNCHANGED <<clock, pc, mapVars, registry, lock, toScan, stale, reaping>>

SweepEnd ==
  /\ lock /\ toScan = {} /\ stale = {} /\ reaping = None
  /\ lock' = FALSE
  /\ now' = NotSweeping
  /\ touched' = {}
  /\ UNCHANGED <<clock, pc, mapVars, registry, toScan, stale, reaping>>

RequestStep(q) == \/ Create(q) \/ Register(q)
                  \/ (\E s \in Synthetic : Add(q, s)) \/ Reverse(q)
                  \/ LeaveUse(q) \/ ClosePop(q) \/ ClosePurge(q)
SweepGoesOn == \/ SweepLock \/ SweepEnd
               \/ \E q \in Request : SweepScan(q) \/ SweepPop(q) \/ SweepPurge(q)
SweepStep == SweepStart \/ SweepGoesOn

Next == Tick \/ SweepStep \/ \E q \in Request : RequestStep(q)

Spec == Init /\ [][Next]_vars

\* Time passes, and a call of sweep_idle and one of close, once begun, go on to
\* their end.  A request may hang while it uses its map (append waits for the
\* database without a timeout), and sweep_idle need not be called: nothing in the
\* gateway does.
Fairness == /\ WF_vars(Tick) /\ WF_vars(SweepGoesOn)
            /\ \A q \in Request : WF_vars(ClosePop(q) \/ ClosePurge(q))

FairSpec == Spec /\ Fairness

-----------------------------------------------------------------------------
\* Types of the maps, of the store and of the sweep in progress.
TypeOK ==
  /\ clock \in 0 .. MaxClock
  /\ pc \in [Request -> Pc]
  /\ purged \subseteq Request
  /\ entries \in [Request -> SUBSET Synthetic]
  /\ last_access \in [Request -> 0 .. MaxClock]
  /\ registry \subseteq Request
  /\ lock \in BOOLEAN
  /\ now \in 0 .. MaxClock + 1
  /\ toScan \subseteq Request /\ stale \subseteq Request
  /\ reaping \in Request \cup {None} /\ touched \subseteq Request

\* A purged map stays empty: a thread that still holds it, and raced with
\* close or with the sweep, can put nothing back ("resurrection is not
\* supported").
NoResurrection == \A q \in purged : entries[q] = {}

\* When close has returned, the map is purged, also when the sweep popped it
\* first and close found nothing: no originals outlive their request.
ClosedIsPurged == \A q \in Request : pc[q] = "done" => q \in purged

\* A map that is neither purged nor registered is on its way in or out: the
\* thread that will register or purge it is known.
NoOrphan ==
  \A q \in Request :
    pc[q] # "new" /\ q \notin purged /\ q \notin registry =>
      pc[q] \in {"created", "purging"} \/ reaping = q

\* Whatever the sweep takes was idle when it read its clock, although it waits
\* for the lock, examines the maps after that and purges them later still: a map
\* used before its examination, within the timeout, survives.  One used after its
\* examination and before its purge does not, and that is all that can be lost.
RecentlyUsedSurvive ==
  \A q \in stale \cup ({reaping} \ {None}) :
    \/ q \in purged
    \/ last_access[q] + Timeout <= now
    \/ q \in touched

\* sweep_idle has read its clock and the map was idle then.
Due(q) == now # NotSweeping /\ q \in registry /\ is_idle(q, now)

\* A call of sweep_idle purges every map that was idle when it read its clock,
\* or the map is used again meanwhile: neither the request nor an earlier sweep
\* keeps it from the lock or takes the map from it unpurged.  That one is called
\* when a map is idle, as the module's docstring has it, is another matter:
\* nothing in the gateway calls it.
DueIsSwept == \A q \in Request : Due(q) ~> q \in purged \/ ~is_idle(q, clock)
=============================================================================
