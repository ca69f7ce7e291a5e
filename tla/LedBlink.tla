------------------------------ MODULE LedBlink ------------------------------
(***************************************************************************)
(* Software blinking of a LED (compat-2.6.37.c:180-336).  A timer object   *)
(* is made by the first led_blink_set and found again in a list under      *)
(* led_lock, which is dropped before the object is used.  The timer's      *)
(* handler is a soft interrupt: it may run between any two steps.  Callers *)
(* are users of the LED (a trigger, sysfs) and the driver, which           *)
(* unregisters it.                                                         *)
(***************************************************************************)
EXTENDS Integers, FiniteSets

CONSTANTS Callers, Timers,  \* bound: the timer objects that can be made
          None

\* Delays of a blink: none, or one period (bound; two zeros ask for it too).
Delays == {0, 2}

VARIABLES
    listed,       \* the timer objects in led_timers
    timer,        \* each object: armed, running, delays, brightness, freed
    brightness,   \* brightness of the LED
    driver,       \* "bound", then the steps of the unregistration
    caller,       \* the callers: [at, led, on, off, op]
    overlapped,   \* history: two calls were ever in progress at once
    fault         \* history: a freed timer or a LED that is gone was used

ledvars == <<listed, timer, brightness, driver, caller, overlapped, fault>>

NewTimer == [armed |-> FALSE, running |-> FALSE, on |-> 0, off |-> 0,
             bright |-> 0, freed |-> FALSE]
Resting == [at |-> "idle", led |-> None, on |-> 0, off |-> 0, op |-> "none"]

LedInit ==
    /\ listed = {} /\ timer = [t \in Timers |-> NewTimer]
    /\ brightness = 0 /\ driver = [at |-> "bound", led |-> None]
    /\ caller = [c \in Callers |-> Resting]
    /\ overlapped = FALSE /\ fault = FALSE

Busy(c) == caller[c].at # "idle"
InCall == (\E c \in Callers : Busy(c)) \/ driver.at \notin {"bound", "gone"}

Step(c, r) == caller' = [caller EXCEPT ![c] = r]
Ends(c) == Step(c, [Resting EXCEPT !.op = caller[c].op])

\* Use of a timer object by a caller.
Uses(t) == fault' = (fault \/ timer[t].freed)

\* led_get_timer: what the list holds for the LED, under led_lock.  Triggers
\* call until led_classdev_unregister has detached them.  Bound: no further
\* call after two have overlapped.
Call(c) ==
    /\ ~Busy(c) /\ driver.at # "gone" /\ ~overlapped
    /\ \E t \in IF listed = {} THEN {None} ELSE listed :
       \E op \in {"blink", "brightness"}, on, off \in Delays :
          /\ op = "brightness" => on = 0 /\ off = 0
          /\ Step(c, [at |-> "found", led |-> t, on |-> on, off |-> off,
                      op |-> op])
    /\ overlapped' = (overlapped \/ InCall)
    /\ UNCHANGED <<listed, timer, brightness, driver, fault>>

\* led_new_timer; the allocation may fail, then the call does nothing.
led_new_timer(c) ==
    /\ caller[c].at = "found" /\ caller[c].op = "blink"
    /\ caller[c].led = None
    /\ \/ Ends(c) /\ UNCHANGED <<listed, timer>>
       \/ \E t \in Timers \ listed :
            /\ timer[t] = NewTimer
            /\ listed' = listed \cup {t}
            /\ timer' = timer
            /\ Step(c, [caller[c] EXCEPT !.led = t])
    /\ UNCHANGED <<brightness, driver, overlapped, fault>>

\* The test of led_blink_set for a blink that goes on as it is, and the
\* brightness to return to.
led_blink_set(c) ==
    LET r == caller[c]  t == r.led
        both == r.on = 0 /\ r.off = 0
        on == IF both THEN 2 ELSE r.on
        off == IF both THEN 2 ELSE r.off
    IN /\ r.at = "found" /\ r.op = "blink" /\ t # None
       /\ Uses(t)
       /\ IF timer[t].on = on /\ timer[t].off = off
          THEN Ends(c) /\ UNCHANGED timer
          ELSE /\ Step(c, [r EXCEPT !.at = "stop", !.on = on, !.off = off])
               /\ timer' = [timer EXCEPT ![t].bright =
                                IF brightness # 0 THEN brightness
                                ELSE IF @ = 0 THEN 1 ELSE @]
       /\ UNCHANGED <<listed, brightness, driver, overlapped>>

\* Mutant of TimerStopped: del_timer does not wait for the handler.
TimerStopped_Async(t) == TRUE

\* del_timer_sync returns when the handler is not running.
TimerStopped(t) == ~timer[t].running

\* led_stop_software_blink
led_stop_software_blink(c) ==
    LET r == caller[c]  t == r.led
    IN /\ \/ r.at = "stop"
          \/ r.at = "found" /\ r.op = "brightness" /\ t # None
       /\ TimerStopped(t) /\ Uses(t)
       /\ timer' = [timer EXCEPT ![t].armed = FALSE, ![t].on = 0, ![t].off = 0]
       /\ Step(c, [r EXCEPT !.at = "stopped"])
       /\ UNCHANGED <<listed, brightness, driver, overlapped>>

\* The end of led_blink_set: never on, never off, or blinking.
Blink(c) ==
    LET r == caller[c]  t == r.led
    IN /\ r.at = "stopped" /\ r.op = "blink"
       /\ Uses(t) /\ Ends(c)
       /\ timer' = [timer EXCEPT ![t].on = r.on, ![t].off = r.off,
                                 ![t].armed = @ \/ (r.on # 0 /\ r.off # 0)]
       /\ brightness' = IF r.on # 0 /\ r.off = 0 THEN timer[t].bright
                        ELSE brightness
       /\ UNCHANGED <<listed, driver, overlapped>>

\* compat_led_brightness_set writes to the hardware alone.
compat_led_brightness_set(c) ==
    /\ caller[c].op = "brightness"
    /\ \/ caller[c].at = "stopped"
       \/ caller[c].at = "found" /\ caller[c].led = None
    /\ Ends(c)
    /\ UNCHANGED <<listed, timer, brightness, driver, overlapped, fault>>

-----------------------------------------------------------------------------
\* The timer fires, and its handler runs: it changes the brightness and arms
\* the timer again, or ends a blink that was stopped.
Fire(t) ==
    /\ timer[t].armed
    /\ timer' = [timer EXCEPT ![t].armed = FALSE, ![t].running = TRUE]
    /\ UNCHANGED <<listed, brightness, driver, caller, overlapped, fault>>

led_timer_function(t) ==
    /\ timer[t].running
    /\ fault' = (fault \/ timer[t].freed \/ driver.at = "gone")
    /\ IF timer[t].on = 0 \/ timer[t].off = 0
       THEN /\ timer' = [timer EXCEPT ![t].running = FALSE]
            /\ UNCHANGED brightness
       ELSE /\ timer' = [timer EXCEPT ![t].running = FALSE, ![t].armed = TRUE,
                              ![t].bright = IF brightness = 0 THEN @ ELSE brightness]
            /\ brightness' = IF brightness = 0 THEN timer[t].bright ELSE 0
    /\ UNCHANGED <<listed, driver, caller, overlapped>>

\* compat_led_classdev_unregister: finds the timer, stops it, unlinks and
\* frees it; led_classdev_unregister then detaches the trigger, waiting for
\* calls that are in progress, and the LED is gone.
UnregisterGets ==
    /\ driver.at = "bound"
    /\ \E t \in IF listed = {} THEN {None} ELSE listed :
         driver' = [at |-> "got", led |-> t]
    /\ overlapped' = (overlapped \/ InCall)
    /\ UNCHANGED <<listed, timer, brightness, caller, fault>>

UnregisterStops ==
    /\ driver.at = "got"
    /\ IF driver.led = None THEN UNCHANGED timer
       ELSE /\ TimerStopped(driver.led)
            /\ timer' = [timer EXCEPT ![driver.led].armed = FALSE]
    /\ driver' = [driver EXCEPT !.at = "stopped"]
    /\ UNCHANGED <<listed, brightness, caller, overlapped, fault>>

UnregisterFrees ==
    /\ driver.at = "stopped"
    /\ listed' = listed \ {driver.led}
    /\ timer' = [t \in Timers |-> IF t = driver.led
                                  THEN [timer[t] EXCEPT !.freed = TRUE]
                                  ELSE timer[t]]
    /\ driver' = [driver EXCEPT !.at = "freed"]
    /\ UNCHANGED <<brightness, caller, overlapped, fault>>

led_classdev_unregister ==
    /\ driver.at = "freed" /\ \A c \in Callers : ~Busy(c)
    /\ driver' = [at |-> "gone", led |-> None]
    /\ UNCHANGED <<listed, timer, brightness, caller, overlapped, fault>>

LedNext ==
    \/ \E c \in Callers :
         \/ Call(c) \/ led_new_timer(c) \/ led_blink_set(c)
         \/ led_stop_software_blink(c) \/ Blink(c)
         \/ compat_led_brightness_set(c)
    \/ \E t \in Timers : Fire(t) \/ led_timer_function(t)
    \/ UnregisterGets \/ UnregisterStops \/ UnregisterFrees
    \/ led_classdev_unregister

-----------------------------------------------------------------------------
\* As long as no two calls ever overlapped, whenever the timer fires: the LED
\* has one timer, nothing freed is used, a blink that was stopped stays
\* stopped, and no timer outlives the LED.  (Calls that overlap can break
\* each of them: led_lock is dropped before the timer is used, and the
\* trigger is detached after the timer was freed.)
BlinkStops ==
    ~overlapped =>
       /\ Cardinality(listed) <= 1 /\ ~fault
       /\ \A t \in Timers :
            /\ driver.at \in {"freed", "gone"} /\ ~timer[t].freed => timer[t] = NewTimer
            /\ timer[t].freed => ~timer[t].armed /\ ~timer[t].running
       /\ \A c \in Callers :
            /\ ~Busy(c) /\ caller[c].op = "brightness"
            /\ \A d \in Callers \ {c} : caller[d] = Resting
            => \A t \in Timers : ~timer[t].armed /\ ~timer[t].running

=============================================================================
