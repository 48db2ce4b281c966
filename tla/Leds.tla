-------------------------------- MODULE Leds --------------------------------
(***************************************************************************)
(* The activity LEDs of App/leds.c: one timer in one-pulse mode with a     *)
(* compare channel per colour, and the latch lastLed that saves writing    *)
(* the channels when the colour stays the same.                            *)
(*                                                                         *)
(* Leds_Trigger runs in the CAN interrupts, one at a time.  The timer runs *)
(* on between its register accesses.  While the timer is not initialised   *)
(* its registers read 0 and ignore writes.                                 *)
(***************************************************************************)
EXTENDS Integers

CONSTANTS
    Period,     \* counts of one pulse (10000)
    MaxInits    \* bound: times the interface is opened

ASSUME LedsAssumption == Period \in Nat /\ Period >= 8 /\ MaxInits \in Nat

LED == {"RED", "GREEN"}
Other(led) == IF led = "RED" THEN "GREEN" ELSE "RED"
NoLed == "NONE"     \* RED + GREEN + 1

Short == Period \div 4
Flash == Period - 2

VARIABLES
    lastLed,   \* the latch
    ready,     \* the timer is initialised
    count, running,   \* its counter, and whether it counts
    preload,   \* compare values written
    active,    \* compare values in effect
    pc, led,   \* the step of Leds_Trigger, and its argument
    flash,     \* history: no trigger since the startup flash
    inits      \* number of Leds_Init calls

timer == <<count, running, preload, active>>
vars  == <<lastLed, ready, timer, pc, led, flash, inits>>

TypeOK ==
    /\ lastLed \in LED \cup {NoLed}
    /\ ready \in BOOLEAN /\ running \in BOOLEAN
    /\ count \in 0..Period
    /\ preload \in [LED -> {0, Short, Flash}]
    /\ active \in [LED -> {0, Short, Flash}]
    /\ pc \in {"idle", "own", "load", "start"} /\ led \in LED
    /\ flash \in BOOLEAN /\ inits \in 0..MaxInits
    /\ running => ready

Off == [l \in LED |-> 0]

\* The latch starts at 0, which is RED.
Init ==
    /\ lastLed = "RED" /\ ready = FALSE
    /\ count = 0 /\ running = FALSE /\ preload = Off /\ active = Off
    /\ pc = "idle" /\ led = "RED" /\ flash = FALSE /\ inits = 0

-----------------------------------------------------------------------------
\* Fault: the latch is not reset.
Leds_InitKeepsLatch ==
    /\ pc = "idle" /\ inits < MaxInits
    /\ inits' = inits + 1
    /\ ready' = TRUE /\ running' = TRUE /\ count' = 0 /\ flash' = TRUE
    /\ preload' = [l \in LED |-> Flash] /\ active' = preload'
    /\ UNCHANGED <<lastLed, pc, led>>

\* Leds_Init: both colours flash once.
Leds_Init ==
    /\ pc = "idle" /\ inits < MaxInits
    /\ inits' = inits + 1
    /\ lastLed' = NoLed
    /\ ready' = TRUE /\ running' = TRUE /\ count' = 0 /\ flash' = TRUE
    /\ preload' = [l \in LED |-> Flash] /\ active' = preload'
    /\ UNCHANGED <<pc, led>>

Leds_Deinit ==
    /\ pc = "idle"
    /\ ready' = FALSE /\ running' = FALSE /\ count' = 0 /\ flash' = FALSE
    /\ preload' = Off /\ active' = Off
    /\ UNCHANGED <<lastLed, pc, led, inits>>

\* A compare register takes value v.
Written(l, v) == IF ready THEN [preload EXCEPT ![l] = v] ELSE preload

\* Leds_Trigger with a new colour: the other channel goes dark first.
TriggerOther(l) ==
    /\ pc = "idle" /\ l # lastLed
    /\ preload' = Written(Other(l), 0)
    /\ pc' = "own" /\ led' = l
    /\ UNCHANGED <<lastLed, ready, count, running, active, flash, inits>>

TriggerOwn ==
    /\ pc = "own"
    /\ preload' = Written(led, Short)
    /\ pc' = "load"
    /\ UNCHANGED <<lastLed, ready, count, running, active, led, flash, inits>>

\* Fault: a pulse that is running is started again.
TriggerSameRestarts(l) ==
    /\ pc = "idle" /\ l = lastLed
    /\ pc' = "load" /\ led' = l
    /\ UNCHANGED <<lastLed, ready, timer, flash, inits>>

\* Leds_Trigger with the colour of the last one: only when the last pulse is
\* over a new one is started.
TriggerSame(l) ==
    /\ pc = "idle" /\ l = lastLed /\ ~running
    /\ pc' = "load" /\ led' = l
    /\ UNCHANGED <<lastLed, ready, timer, flash, inits>>

\* Fault: the new channel values are not loaded.
LoadNothing ==
    /\ pc = "load"
    /\ pc' = "start"
    /\ UNCHANGED <<lastLed, ready, timer, led, flash, inits>>

\* TIM_vGenerate: the update event loads the channel values and clears the
\* counter.
Load ==
    /\ pc = "load"
    /\ active' = preload /\ count' = 0
    /\ pc' = "start"
    /\ UNCHANGED <<lastLed, ready, running, preload, led, flash, inits>>

Start ==
    /\ pc = "start"
    /\ running' = ready /\ flash' = FALSE
    /\ lastLed' = led /\ pc' = "idle"
    /\ UNCHANGED <<ready, count, preload, active, led, inits>>

\* A pulse lasts 100 ms and the two last register accesses of Leds_Trigger less
\* than a microsecond: a loaded pulse does not run out before Start.
InTime == pc = "start" => count + 1 < Period

\* Fault: the timer is not in one-pulse mode.
TickRunsOn ==
    /\ running /\ InTime
    /\ count' = count + 1
    /\ UNCHANGED <<lastLed, ready, running, preload, active, pc, led, flash, inits>>

\* The timer counts up.  The update event at the top stops it, and loads the
\* channel values.
Tick ==
    /\ running /\ InTime
    /\ count' = count + 1
    /\ IF count' = Period THEN active' = preload /\ running' = FALSE
                          ELSE UNCHANGED <<active, running>>
    /\ UNCHANGED <<lastLed, ready, preload, pc, led, flash, inits>>

Handler == TriggerOwn \/ Load \/ Start

Next == \/ Leds_Init \/ Leds_Deinit
        \/ \E l \in LED : TriggerOther(l) \/ TriggerSame(l)
        \/ Handler \/ Tick

Spec == Init /\ [][Next]_vars

\* A handler runs to its end and the timer runs.  Nothing is assumed about how
\* often something triggers.
FairSpec == Spec /\ WF_vars(Handler) /\ WF_vars(Tick)

-----------------------------------------------------------------------------
Lit(l) == ready /\ count < active[l]

\* "Only one channel lights at a time" (leds.c:59): after the startup flash,
\* also while a trigger of the other colour changes the channels under a
\* running pulse.
OneColour == Lit("RED") /\ Lit("GREEN") => flash

\* The latch tells the truth: between two triggers the channels hold what the
\* last one would write again, or the latch holds no colour.  This is what
\* allows Leds_Trigger to skip the writes, across Deinit and Init too.
LatchIsTrue ==
    pc = "idle" /\ ready /\ lastLed # NoLed =>
        active = [l \in LED |-> IF l = lastLed THEN Short ELSE 0]

\* A burst of frames is seen as blinking: no LED stays on, however fast
\* triggers of its colour follow each other, and none is left on for good.
Blinks == \A l \in LED : Lit(l) ~> ~Lit(l)
=============================================================================
