----------------------------- MODULE LedsProofs -----------------------------
(***************************************************************************)
(* Theorems about the activity LEDs, for every length of a pulse and any   *)
(* number of openings.                                                     *)
(***************************************************************************)
EXTENDS Leds, TLAPS

\* The channel values of a pulse of colour l.
Pulse(l) == [x \in LED |-> IF x = l THEN Short ELSE 0]

\* What the registers hold at each step of a trigger.
Registers ==
    CASE pc = "idle"  -> lastLed # NoLed =>
                           preload = Pulse(lastLed) /\ active = Pulse(lastLed)
      [] pc = "own"   -> preload[Other(led)] = 0
      [] pc = "load"  -> preload = Pulse(led)
      [] pc = "start" -> preload = Pulse(led) /\ active = Pulse(led)

\* Two colours are in effect only while the startup flash is.
LedsInv ==
    /\ lastLed \in LED \cup {NoLed} /\ led \in LED
    /\ pc \in {"idle", "own", "load", "start"}
    /\ count \in Nat
    /\ preload \in [LED -> Nat] /\ active \in [LED -> Nat]
    /\ ready => /\ Registers
                /\ lastLed = NoLed => flash
                /\ ~flash => active["RED"] = 0 \/ active["GREEN"] = 0

LEMMA Numbers == Short \in Nat /\ Flash \in Nat
  BY LedsAssumption DEF Short, Flash

LEMMA OpenStep ==
  ASSUME LedsInv, Leds_Init \/ Leds_Deinit
  PROVE  LedsInv'
<1>1. CASE Leds_Init
  BY <1>1, Numbers DEF Leds_Init, LedsInv, Registers
<1>2. CASE Leds_Deinit
  BY <1>2 DEF Leds_Deinit, LedsInv, Off
<1>. QED
  BY <1>1, <1>2

\* Leds_Trigger: the other channel is cleared before the own one is set, and
\* neither is written when the latch has the colour.
LEMMA TriggerStep ==
  ASSUME LedsInv,
         \/ \E l \in LED : TriggerOther(l) \/ TriggerSame(l)
         \/ Handler
  PROVE  LedsInv'
<1>1. ASSUME NEW l \in LED, TriggerOther(l)
      PROVE  LedsInv'
  <2>1. /\ pc' = "own" /\ led' = l /\ UNCHANGED <<lastLed, ready, count, active, flash>>
        /\ preload' = Written(Other(l), 0)
    BY <1>1 DEF TriggerOther
  <2>2. Other(l) \in LED
    BY DEF Other, LED
  <2>3. preload' \in [LED -> Nat] /\ (ready => preload'[Other(l)] = 0)
    BY <2>1, <2>2 DEF Written, LedsInv
  <2>. QED
    BY <2>1, <2>3 DEF LedsInv, Registers
<1>2. ASSUME NEW l \in LED, TriggerSame(l)
      PROVE  LedsInv'
  <2>1. /\ pc = "idle" /\ pc' = "load" /\ led' = l /\ l = lastLed /\ l # NoLed
        /\ UNCHANGED <<lastLed, ready, count, preload, active, flash>>
    BY <1>2 DEF TriggerSame, timer, LED, NoLed
  <2>. QED
    BY <2>1 DEF LedsInv, Registers
<1>3. CASE TriggerOwn
  <2>1. /\ pc = "own" /\ pc' = "load" /\ preload' = Written(led, Short)
        /\ UNCHANGED <<lastLed, ready, count, active, led, flash>>
    BY <1>3 DEF TriggerOwn
  <2>2. preload' \in [LED -> Nat]
    BY <2>1, Numbers DEF Written, LedsInv
  <2>3. ASSUME ready
        PROVE  preload' = Pulse(led)
    <3>1. /\ preload' = [preload EXCEPT ![led] = Short]
          /\ preload[Other(led)] = 0
      BY <2>1, <2>3 DEF Written, LedsInv, Registers
    <3>2. \A x \in LED : x # led => x = Other(led)
      BY DEF LedsInv, LED, Other
    <3>. QED
      BY <3>1, <3>2 DEF Pulse, LedsInv
  <2>. QED
    BY <2>1, <2>2, <2>3 DEF LedsInv, Registers
<1>4. ASSUME NEW l \in LED
      PROVE  Pulse(l)["RED"] = 0 \/ Pulse(l)["GREEN"] = 0
  BY DEF Pulse, LED
<1>5. CASE Load
  <2>1. /\ pc = "load" /\ pc' = "start" /\ active' = preload /\ count' = 0
        /\ UNCHANGED <<lastLed, ready, preload, led, flash>>
    BY <1>5 DEF Load
  <2>2. ready => preload = Pulse(led)
    BY <2>1 DEF LedsInv, Registers
  <2>3. ready => active'["RED"] = 0 \/ active'["GREEN"] = 0
    BY <1>4, <2>1, <2>2 DEF LedsInv
  <2>. QED
    BY <2>1, <2>2, <2>3 DEF LedsInv, Registers
<1>6. CASE Start
  <2>1. /\ pc = "start" /\ pc' = "idle" /\ lastLed' = led /\ led # NoLed
        /\ UNCHANGED <<ready, count, preload, active, led>>
    BY <1>6 DEF Start, LedsInv, LED, NoLed
  <2>2. ready => preload = Pulse(led) /\ active = Pulse(led)
    BY <2>1 DEF LedsInv, Registers
  <2>3. ready => active["RED"] = 0 \/ active["GREEN"] = 0
    BY <1>4, <2>2 DEF LedsInv
  <2>. QED
    BY <2>1, <2>2, <2>3 DEF LedsInv, Registers
<1>. QED
  BY <1>1, <1>2, <1>3, <1>5, <1>6 DEF Handler

\* The update event at the end of a pulse loads what has been written so far.
LEMMA TickStep ==
  ASSUME LedsInv, Tick, running => ready
  PROVE  LedsInv'
<1>1. /\ UNCHANGED <<lastLed, ready, preload, pc, led, flash>>
      /\ UNCHANGED active \/ active' = preload
      /\ ready /\ count' = count + 1
  BY DEF Tick
<1>2. ASSUME ~flash
      PROVE  preload["RED"] = 0 \/ preload["GREEN"] = 0
  <2>1. lastLed # NoLed /\ lastLed \in LED /\ led \in LED /\ Registers
    BY <1>1, <1>2 DEF LedsInv
  <2>2. \A l \in LED : Pulse(l)["RED"] = 0 \/ Pulse(l)["GREEN"] = 0
    BY DEF Pulse, LED
  <2>3. Other(led) \in {"RED", "GREEN"}
    BY DEF Other
  <2>. QED
    BY <2>1, <2>2, <2>3 DEF Registers, LedsInv
<1>3. count' \in Nat
  BY <1>1 DEF LedsInv
<1>4. /\ lastLed \in LED \cup {NoLed} /\ led \in LED
      /\ pc \in {"idle", "own", "load", "start"}
      /\ preload \in [LED -> Nat] /\ active \in [LED -> Nat]
      /\ Registers
      /\ lastLed = NoLed => flash
      /\ ~flash => active["RED"] = 0 \/ active["GREEN"] = 0
  BY <1>1 DEF LedsInv
<1>5. Registers'
  <2>1. CASE UNCHANGED active
    BY <1>1, <1>4, <2>1 DEF Registers
  <2>2. CASE active' = preload
    BY <1>1, <1>4, <2>2 DEF Registers
  <2>. QED
    BY <1>1, <2>1, <2>2
<1>. QED
  BY <1>1, <1>2, <1>3, <1>4, <1>5 DEF LedsInv

LEMMA LedsInvariant == Spec => [](LedsInv /\ (running => ready))
<1>1. Init => LedsInv /\ (running => ready)
  BY DEF Init, LedsInv, LED, Off
<1>2. LedsInv /\ (running => ready) /\ [Next]_vars => LedsInv'
  <2>. SUFFICES ASSUME LedsInv, running => ready, [Next]_vars
                PROVE  LedsInv'
    OBVIOUS
  <2>1. CASE UNCHANGED vars
    <3>1. UNCHANGED <<lastLed, led, pc, count, preload, active, ready, flash>>
      BY <2>1 DEF vars, timer
    <3>. QED
      BY <3>1 DEF LedsInv, Registers
  <2>. QED
    BY <2>1, OpenStep, TriggerStep, TickStep DEF Next
<1>3. (running => ready) /\ [Next]_vars => (running' => ready')
  BY DEF Next, Leds_Init, Leds_Deinit, TriggerOther, TriggerSame, Handler,
         TriggerOwn, Load, Start, Tick, vars, timer
<1>. QED
  BY <1>1, <1>2, <1>3, PTL DEF Spec

\* "Only one channel lights at a time" (leds.c:59), wherever the pulse of the
\* other colour runs out between the register accesses of a trigger.
THEOREM OneColourLit == Spec => []OneColour
<1>1. LedsInv => OneColour
  <2>. SUFFICES ASSUME LedsInv, Lit("RED"), Lit("GREEN"), ~flash
                PROVE  FALSE
    BY DEF OneColour
  <2>1. ready /\ count < active["RED"] /\ count < active["GREEN"]
    BY DEF Lit
  <2>. QED
    BY <2>1 DEF LedsInv
<1>. QED
  BY <1>1, LedsInvariant, PTL

\* Between two triggers the channels hold what the latch says, so that
\* Leds_Trigger may skip the writes.
THEOREM LatchTells == Spec => []LatchIsTrue
<1>1. LedsInv => LatchIsTrue
  BY DEF LedsInv, Registers, LatchIsTrue, Pulse
<1>. QED
  BY <1>1, LedsInvariant, PTL

-----------------------------------------------------------------------------
\* A counter that counts, or is about to, has not reached the top: Start may
\* set the counter enable bit without a look at it.
TypesInv == TypeOK /\ (running \/ pc = "start" => count < Period)

\* The registers hold nothing but the two compare values of leds.c and 0, and
\* the counter never passes the top.
THEOREM RegistersTyped == Spec => []TypeOK
<1>. USE LedsAssumption DEF TypesInv, TypeOK
<1>0. /\ Off \in [LED -> {0, Short, Flash}]
      /\ 0 \in 0..Period /\ 0 \in 0..MaxInits
  BY DEF Off
<1>1. Init => TypesInv
  <2>. SUFFICES ASSUME Init PROVE TypesInv
    OBVIOUS
  <2>1. running = FALSE /\ pc = "idle"
    BY DEF Init
  <2>2. TypeOK
    BY <1>0, <2>1 DEF Init, LED
  <2>. QED
    BY <2>1, <2>2
<1>2. TypesInv /\ [Next]_vars => TypesInv'
  <2>. SUFFICES ASSUME TypesInv, [Next]_vars
                PROVE  TypesInv'
    OBVIOUS
  <2>0. \A l \in LED, v \in {0, Short, Flash} : Written(l, v) \in [LED -> {0, Short, Flash}]
    BY DEF Written
  <2>1. CASE Leds_Init
    BY <2>1 DEF Leds_Init
  <2>2. CASE Leds_Deinit
    <3>1. running' = FALSE /\ pc' = "idle"
      BY <2>2 DEF Leds_Deinit
    <3>2. TypeOK'
      BY <1>0, <2>2, <3>1 DEF Leds_Deinit
    <3>. QED
      BY <3>1, <3>2
  <2>3. ASSUME NEW l \in LED, TriggerOther(l)
        PROVE  TypesInv'
    <3>1. Other(l) \in LED
      BY DEF Other, LED
    <3>2. preload' \in [LED -> {0, Short, Flash}]
      BY <2>0, <2>3, <3>1 DEF TriggerOther
    <3>. QED
      BY <2>3, <3>2 DEF TriggerOther
  <2>4. ASSUME NEW l \in LED, TriggerSame(l)
        PROVE  TypesInv'
    BY <2>4 DEF TriggerSame, timer
  <2>5. CASE TriggerOwn
    <3>1. preload' \in [LED -> {0, Short, Flash}]
      BY <2>0, <2>5 DEF TriggerOwn
    <3>. QED
      BY <2>5, <3>1 DEF TriggerOwn
  <2>6. CASE Load
    BY <2>6 DEF Load
  <2>7. CASE Start
    BY <2>7 DEF Start
  <2>8. CASE Tick
    <3>1. /\ running /\ InTime /\ count \in 0..(Period - 1) /\ count' = count + 1
          /\ UNCHANGED <<lastLed, ready, preload, pc, led, flash, inits>>
      BY <2>8 DEF Tick
    <3>2. active' \in [LED -> {0, Short, Flash}] /\ running' \in BOOLEAN
      BY <2>8, <3>1 DEF Tick
    <3>3. count' \in 0..Period /\ (pc = "start" => count' < Period)
      BY <3>1 DEF InTime
    <3>4. running' => ready /\ count' < Period
      BY <2>8, <3>1, <3>3 DEF Tick
    <3>. QED
      BY <3>1, <3>2, <3>3, <3>4
  <2>9. CASE UNCHANGED vars
    BY <2>9 DEF vars, timer
  <2>. QED
    BY <2>1, <2>2, <2>3, <2>4, <2>5, <2>6, <2>7, <2>8, <2>9 DEF Next, Handler
<1>3. TypesInv => TypeOK
  OBVIOUS
<1>. QED
  BY <1>1, <1>2, <1>3, PTL DEF Spec
=============================================================================
