----------------------------- MODULE WallClock -----------------------------
(***************************************************************************)
(* The cooldown as the executor measures it (src/src/executor.py): a route *)
(* has the stamp of its last trade, taken from time.time(), and may be     *)
(* traded again once "now - stamp" has reached the cooldown.  The clock    *)
(* of the machine may be set forward or back between any two calls.  The   *)
(* rebalancing interval is measured in the same way.                       *)
(*                                                                         *)
(* Only differences matter, so each stamp is kept as "now - stamp", up to  *)
(* a horizon that no correction of the clock can bring under the cooldown. *)
(***************************************************************************)
EXTENDS Integers, FiniteSetsExt

CONSTANTS
  Routes,
  Cooldown,       \* trade_cooldown_sec, in ticks
  MaxStep,        \* the furthest the clock is set at a time
  Corrections     \* bound of the model: how often the clock is set

ASSUME ClockAssumption == {Cooldown, MaxStep, Corrections} \subseteq Nat

VARIABLES
  stamped,        \* DOMAIN last_trade_at
  measured,       \* [route -> now - last_trade_at], meaningful if stamped
  corrections,    \* external: how often the clock was set
  elapsed,        \* history: [route -> real time since the last trade]
  gained, lost    \* history: [route -> by how much the clock was set forward,
                  \* and back, since the last trade]

clockvars == <<stamped, measured, corrections, elapsed, gained, lost>>

Horizon == Cooldown + MaxStep * Corrections

ClockInit ==
  /\ stamped = {}
  /\ measured = [r \in Routes |-> 0]
  /\ corrections = 0
  /\ elapsed = measured /\ gained = measured /\ lost = measured

\* Faulty: the cooldown ends one tick late.
CoolingDown_Late(r) == measured[r] <= Cooldown
\* Faulty: a stamp in the future counts as one of long ago.
CoolingDown_NotAhead(r) == measured[r] \in 0..(Cooldown - 1)

CoolingDown(r) == measured[r] < Cooldown

Due(r) == r \notin stamped \/ ~ CoolingDown(r)

Trade(r) ==
  /\ Due(r)
  /\ stamped' = stamped \cup {r}
  /\ measured' = [measured EXCEPT ![r] = 0]
  /\ elapsed' = [elapsed EXCEPT ![r] = 0]
  /\ gained' = [gained EXCEPT ![r] = 0] /\ lost' = [lost EXCEPT ![r] = 0]
  /\ UNCHANGED corrections

Refuse(r) == ~ Due(r) /\ UNCHANGED clockvars

Capped(ages, step) == [r \in Routes |-> Min({ages[r] + step, Horizon})]

Elapse ==
  /\ measured' = Capped(measured, 1) /\ elapsed' = Capped(elapsed, 1)
  /\ UNCHANGED <<stamped, corrections, gained, lost>>

\* External: the clock is set forward or back, for all stamps at once.
SetClock ==
  /\ corrections < Corrections
  /\ corrections' = corrections + 1
  /\ \E d \in 1..MaxStep :
       \/ /\ measured' = Capped(measured, d)
          /\ gained' = Capped(gained, d)
          /\ UNCHANGED lost
       \/ /\ measured' = Capped(measured, -d)
          /\ lost' = Capped(lost, d)
          /\ UNCHANGED gained
  /\ UNCHANGED <<stamped, elapsed>>

ClockNext == Elapse \/ SetClock \/ \E r \in Routes : Trade(r) \/ Refuse(r)

ClockSpec == ClockInit /\ [][ClockNext]_clockvars

----------------------------------------------------------------------------
(* Properties *)

\* A clock set forward ends a cooldown early (executor.py:66), but by no more
\* than it was set forward since the trade: what lies between two trades of a
\* route is the cooldown less that.
PauseIsShortenedByClockOnly ==
  [][\A r \in stamped : Trade(r) => elapsed[r] + gained[r] >= Cooldown]_clockvars

\* A clock set back keeps a route closed for longer, but by no more than it
\* was set back since the trade.
ClosedIsExplained ==
  \A r \in stamped : ~ Due(r) => elapsed[r] < Cooldown + lost[r]
=============================================================================
