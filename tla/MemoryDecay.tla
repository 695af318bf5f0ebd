------------------------------ MODULE MemoryDecay ------------------------------
(***************************************************************************)
(* memory/semantic_memory.py: how much a remembered fact is still worth.   *)
(*                                                                         *)
(* Abstractions.  Ages are counted in days and decay in whole half-lives;  *)
(* a factor of 1.0 is Full.                                                *)
(***************************************************************************)
EXTENDS Integers, FiniteSetsExt

CONSTANTS
  HalfLifeSemi, HalfLifeVolatile,
  Full

ASSUME DecayAssumption ==
  /\ HalfLifeSemi \in Nat \ {0} /\ HalfLifeVolatile \in Nat \ {0}
  /\ Full \in Nat \ {0}

Known == {"stable", "semi_stable", "volatile"}

\* coerce_volatility: a value nobody knows is taken for semi_stable.
Coerce(raw) == IF raw \in Known THEN raw ELSE "semi_stable"

HalfLife(volatility) ==
  IF volatility = "volatile" THEN HalfLifeVolatile ELSE HalfLifeSemi

\* Rounded down.
Halved(n) == Max({part \in 0..Full : part * 2^n <= Full})

\* decay_factor; an age below zero comes from another machine's clock.
DecayFactor(age, volatility) ==
  IF volatility = "stable" THEN Full
  ELSE Halved((IF age > 0 THEN age ELSE 0) \div HalfLife(volatility))
================================================================================
