------------------------------- MODULE PcanLed -------------------------------
(***************************************************************************)
(* The LEDs, src/src/c/pcan_led.c: each has a mode and is served by        *)
(* pcan_led_poll, which compares 16-bit times in milliseconds.  The pin of *)
(* an LED follows its "state" in the same call that changes it.            *)
(***************************************************************************)
EXTENDS Naturals

CONSTANTS
    Leds,        \* LED_CH0_TX, LED_CH0_RX, LED_STAT, or some of them
    WRAP,        \* 2^16, the range of the time
    FAST, SLOW   \* delays of the blinking modes, 50 and 200

ASSUME LedAssumption ==
    /\ {WRAP, FAST, SLOW} \subseteq Nat \ {0}
    /\ FAST < WRAP /\ SLOW < WRAP
    /\ WRAP % 2 = 0

Millis == 0 .. WRAP - 1

LedModes == {"NONE", "ON", "OFF", "BLINK_FAST", "BLINK_SLOW"}

LedRecords == [mode : LedModes, arg : Millis, delay : {0, FAST, SLOW},
               timestamp : Millis, state : {0, 1}]

VARIABLES
    ts_ms,       \* pcan_timestamp_millis
    led          \* led_mode_array

\* "t | 1".
Odd(t) == t + 1 - (t % 2)

Blinks(mode) == mode \in {"BLINK_FAST", "BLINK_SLOW"}

Delay(mode) ==
    IF mode = "BLINK_FAST" THEN FAST
    ELSE IF mode = "BLINK_SLOW" THEN SLOW ELSE 0

\* Fault: an LED that is at rest is not woken.
SetModeAsleep(r, mode, arg) ==
    [r EXCEPT !.mode = mode, !.delay = Delay(mode),
              !.arg = IF Blinks(mode) /\ arg # 0
                      THEN Odd((ts_ms + arg) % WRAP) ELSE arg]

\* pcan_led_set_mode: LED record r is given a mode; arg is how long to blink.
SetMode(r, mode, arg) ==
    [r EXCEPT !.mode = mode,
              !.timestamp = IF r.timestamp = 0 THEN Odd(ts_ms) ELSE @,
              !.delay = Delay(mode),
              !.arg = IF Blinks(mode) /\ arg # 0
                      THEN Odd((ts_ms + arg) % WRAP) ELSE arg]

\* It is due in a poll.
Due(r) ==
    /\ r.timestamp # 0
    /\ (ts_ms + WRAP - r.timestamp) % WRAP >= r.delay

\* Fault: the next time is not cut to 16 bits.
ToggledNoWrap(r) ==
    [r EXCEPT !.state = 1 - @, !.timestamp = Odd(r.timestamp + r.delay)]

Toggled(r) ==
    [r EXCEPT !.state = 1 - @,
              !.timestamp = Odd((r.timestamp + r.delay) % WRAP)]

\* The blinking is over, as far as absolute times can tell.
Over(r) == r.arg # 0 /\ r.arg <= ts_ms

\* One LED in pcan_led_poll.
Polled(r) ==
    IF ~Due(r) THEN r
    ELSE IF r.mode = "NONE" THEN [r EXCEPT !.timestamp = 0]
    ELSE IF ~Blinks(r.mode)
         THEN [r EXCEPT !.state = IF r.mode = "ON" THEN 1 ELSE 0,
                        !.timestamp = 0]
    ELSE IF Over(r) THEN SetMode(Toggled(r), "OFF", 0)
    ELSE Toggled(r)

\* main, before its loop: all static data is 0, then two calls.
LedInit ==
    /\ ts_ms \in Millis
    /\ led = [l \in Leds |->
                LET zero == [mode |-> "NONE", arg |-> 0, delay |-> 0,
                             timestamp |-> 0, state |-> 0]
                IN  IF l = "STAT" THEN zero
                    ELSE SetMode(zero, "BLINK_SLOW", 0)]

\* pcan_led_poll.
LedPoll == led' = [l \in Leds |-> Polled(led[l])] /\ UNCHANGED ts_ms
==============================================================================
