------------------------------- MODULE Lights -------------------------------
(***************************************************************************)
(* liblights/lights.c with the two kernel modules behind its files:        *)
(* modules/backlight/cpcap-bright.c (level of the buttons' light) and      *)
(* modules/usbled/usb-led.c (the white charge light).                      *)
(*                                                                         *)
(* A call of set_light computes what to write under the lock and then      *)
(* writes file after file; each write may fail, modules come and go in     *)
(* between.  unsure keeps the lights whose last write failed.              *)
(***************************************************************************)
EXTENDS Integers, Sequences, SequencesExt

CONSTANTS
  Callers,        \* threads that call set_light
  Opened,         \* the sets of lights they may have opened
  BackStates,     \* what they ask of the backlight: [als, lcd]
  Colors,         \* of the battery and the notification: [red, green, blue, flash]
  Levels,         \* of the buttons, before scaling
  Scales,         \* values of persist.sys.button_brightness
  defy_plus,      \* the backlight module's parameter
  ProcLevels,     \* what is written to /proc/backlight/brightness by hand
  NULL            \* no call

ASSUME LightsAssumption ==
  /\ Opened \subseteq SUBSET {"backlight", "buttons", "battery", "notification"}
  /\ BackStates \subseteq [als : Nat, lcd : Nat]
  /\ Colors \subseteq [red : Nat, green : Nat, blue : Nat, flash : BOOLEAN]
  /\ Levels \subseteq 0 .. 255 /\ Scales \subseteq 0 .. 100 /\ ProcLevels \subseteq Nat
  /\ defy_plus \in BOOLEAN

VARIABLES
  opened,                     \* the lights in use
  button_scale, charge_led,   \* the two persist.sys properties
  g_battery, g_notification, g_charge_led_active, g_last_button_brightness,
  job, holder,                \* the call of each thread; the holder of g_lock
  file,                       \* the leds: value of each file
  usbled, probed,             \* the usb-led module; its led is registered
  power, adlc,                \* the buttons' light: switch and level register
  bright,                     \* the backlight module: loaded, hooked,
                              \* brightness, and button_dev->brightness
  requested, unsure           \* last request of each light; see above

props == <<button_scale, charge_led>>
globals == <<g_battery, g_notification, g_charge_led_active, g_last_button_brightness>>
button == <<power, adlc, bright>>
lightsVars == <<opened, props, globals, job, holder, file, usbled, probed, button, requested, unsure>>

Dark == [red |-> 0, green |-> 0, blue |-> 0, flash |-> FALSE]
Files == {"als", "lcd", "blink", "red", "green", "blue", "charge"}
Group(f) == CASE f \in {"als", "lcd"} -> "lcd"
              [] f \in {"on", "bright"} -> "button"
              [] f = "charge" -> "charge"
              [] OTHER -> "rgb"

LightsInit ==
  /\ opened \in Opened
  /\ button_scale \in Scales /\ charge_led = "rgb"
  /\ g_battery = Dark /\ g_notification = Dark
  /\ g_charge_led_active = FALSE /\ g_last_button_brightness = -1
  /\ job = [c \in Callers |-> NULL] /\ holder = {}
  /\ file = [f \in Files |-> 0]
  /\ usbled = FALSE /\ probed = FALSE
  /\ power \in BOOLEAN /\ adlc = 0
  /\ bright = [loaded |-> FALSE, hooked |-> FALSE, brightness |-> -1, dev |-> 0]
  /\ requested = [backlight |-> [als |-> 0, lcd |-> 0], buttons |-> 0, battery |-> [state |-> Dark, prop |-> "rgb"],
              notification |-> Dark]
  /\ unsure = {"lcd", "button", "charge", "rgb"}

-----------------------------------------------------------------------------
(* The properties, as DefyParts sets them.                                 *)
SetScale ==
  /\ "buttons" \in opened
  /\ button_scale' \in Scales \ {button_scale}
  /\ UNCHANGED <<opened, charge_led, globals, job, holder, file, usbled, probed, button, requested, unsure>>

SetChargeLed ==
  /\ "battery" \in opened
  /\ charge_led' \in {"rgb", "white", "off"} \ {charge_led}
  /\ UNCHANGED <<opened, button_scale, globals, job, holder, file, usbled, probed, button, requested, unsure>>

-----------------------------------------------------------------------------
(* lights.c *)

is_lit(state) == state.red + state.green + state.blue > 0

\* set_light_buttons scales before it takes the lock.
Scaled(level) ==
  CASE button_scale = 0 -> 0
    [] button_scale = 100 \/ level = 0 -> level
    [] OTHER -> (level * button_scale + 50) \div 100

Job(light, state) == [light |-> light, state |-> state, todo |-> << >>, covers |-> {}]
With(request, todo, covers) ==
  [light |-> request.light, state |-> request.state, todo |-> todo, covers |-> covers]

ScaleFirst(c) ==
  /\ c \notin holder /\ job[c] = NULL /\ "buttons" \in opened
  /\ \E l \in Levels : job' = [job EXCEPT ![c] = Job("buttons", [level |-> Scaled(l)])]
  /\ UNCHANGED <<opened, props, globals, holder, file, usbled, probed, button, requested, unsure>>

LockIgnored == TRUE
LockFree == holder = {}

\* set_light_locked
SetLight(state) ==
  << <<"blink", 0>>, <<"red", state.red>>, <<"green", state.green>>, <<"blue", state.blue>> >>
  \o (IF state.flash THEN << <<"blink", 255>> >> ELSE << >>)

\* handle_light_locked: the notification goes first, and alone.
HandleLightBoth(notification, battery, charging) ==
  SetLight(IF is_lit(notification) THEN notification ELSE battery)
  \o << <<"charge", IF charging THEN 1 ELSE 0>> >>
HandleLight(notification, battery, charging) ==
  SetLight(IF is_lit(notification) THEN notification ELSE battery)
  \o << <<"charge", IF charging /\ ~is_lit(notification) THEN 1 ELSE 0>> >>

\* Not pure green is charging, which the white light may show instead.
ChargeActive(state) == state.green > 0 /\ state.red > 0 /\ charge_led = "white"
BatteryState(state) ==
  IF ChargeActive(state) \/ (state.green > 0 /\ charge_led = "off") THEN Dark ELSE state

\* set_light_buttons: on or off only when that changes, the level only when
\* it does.
LevelWrite(last, brightness) ==
  IF brightness > 0 /\ brightness # last THEN << <<"bright", brightness>> >> ELSE << >>
ButtonWritesOn(last, brightness) ==
  (IF last <= 0 /\ brightness > 0 THEN << <<"on", 1>> >> ELSE << >>) \o LevelWrite(last, brightness)
ButtonWrites(last, brightness) ==
  (IF last < 0 \/ (last = 0 /\ brightness > 0) \/ (last > 0 /\ brightness = 0)
   THEN << <<"on", IF brightness > 0 THEN 1 ELSE 0>> >> ELSE << >>)
  \o LevelWrite(last, brightness)

\* The call that takes the lock: any, or the one that has scaled.
Requests(c) ==
  IF job[c] # NULL THEN {job[c]}
  ELSE {Job("backlight", s) : s \in BackStates}
       \cup {Job(l, s) : l \in {"battery", "notification"}, s \in Colors}

\* With the lock: the globals change and the writes are settled.
Locked(c) ==
  /\ c \notin holder /\ LockFree /\ holder' = holder \cup {c}
  /\ \E request \in Requests(c) :
     LET s == request.state
         Settle(todo, covers) == job' = [job EXCEPT ![c] = With(request, todo, covers)]
     IN  /\ request.light \in opened
         /\ \/ /\ request.light = "backlight"
               /\ Settle(<< <<"als", s.als>>, <<"lcd", s.lcd>> >>, {"lcd"})
               /\ requested' = [requested EXCEPT !.backlight = s]
               /\ UNCHANGED globals
            \/ /\ request.light = "buttons"
               /\ LET todo == ButtonWrites(g_last_button_brightness, s.level)
                  IN  Settle(todo, {Group(todo[i][1]) : i \in {j \in DOMAIN todo : todo[j][1] = "on"}})
               /\ g_last_button_brightness' = s.level
               /\ requested' = [requested EXCEPT !.buttons = s.level]
               /\ UNCHANGED <<g_battery, g_notification, g_charge_led_active>>
            \/ /\ request.light = "battery"
               /\ g_charge_led_active' = ChargeActive(s) /\ g_battery' = BatteryState(s)
               /\ Settle(HandleLight(g_notification, g_battery', g_charge_led_active'), {"rgb", "charge"})
               /\ requested' = [requested EXCEPT !.battery = [state |-> s, prop |-> charge_led]]
               /\ UNCHANGED <<g_notification, g_last_button_brightness>>
            \/ /\ request.light = "notification"
               /\ g_notification' = s
               /\ Settle(HandleLight(s, g_battery, g_charge_led_active), {"rgb", "charge"})
               /\ requested' = [requested EXCEPT !.notification = s]
               /\ UNCHANGED <<g_battery, g_charge_led_active, g_last_button_brightness>>
  /\ UNCHANGED <<opened, props, file, usbled, probed, button, unsure>>

-----------------------------------------------------------------------------
(* cpcap-bright.c *)

LowByte(level) == level % 256

\* brightness_to_cpcap: never more than the 11 bits of g_mask_wr.
brightness_to_cpcap(n) ==
  LET level == LowByte(n)
  IN  CASE level = 0 -> 0
        [] level > 0 /\ defy_plus -> level * 8 + (level \div 64) * 2 + 1
        [] level > 5 /\ ~defy_plus -> (level \div 4) * 16 + 15
        [] OTHER -> 31

\* The kernel's driver switches the light and writes a level of its own,
\* which the hook replaces.
SwitchButton(value) ==
  LET b == IF bright.hooked /\ value > 1 THEN value ELSE bright.brightness
  IN  /\ power' = (value > 0)
      /\ bright' = [bright EXCEPT !.dev = value, !.brightness = b]
      /\ adlc' = IF bright.hooked THEN brightness_to_cpcap(b)
                 ELSE IF value > 0 THEN 2047 ELSE 0

\* proc_brightness_write
ProcBrightness(value) ==
  /\ bright' = [bright EXCEPT !.brightness = LowByte(value), !.dev = LowByte(value)]
  /\ adlc' = brightness_to_cpcap(value)
  /\ UNCHANGED power

Exists(f) == CASE f = "charge" -> probed [] f = "bright" -> bright.loaded [] OTHER -> TRUE

\* write_int; an error ends set_light_backlight and set_light_buttons at once.
WriteInt(c) ==
  /\ c \in holder /\ job[c].todo # << >>
  /\ LET f == Head(job[c].todo)[1]
         value == Head(job[c].todo)[2]
     IN  \/ /\ Exists(f)
            /\ job' = [job EXCEPT ![c] = With(@, Tail(@.todo), @.covers)]
            /\ CASE f = "on" -> SwitchButton(value) /\ UNCHANGED file
                 [] f = "bright" -> ProcBrightness(value) /\ UNCHANGED file
                 [] OTHER -> file' = [file EXCEPT ![f] = value] /\ UNCHANGED button
            /\ UNCHANGED unsure
         \/ /\ LET rest == IF Group(f) \in {"lcd", "button"} THEN << >> ELSE Tail(job[c].todo)
               IN  job' = [job EXCEPT ![c] = With(@, rest, @.covers \ {Group(f)})]
            /\ unsure' = unsure \cup {Group(f)}
            /\ UNCHANGED <<file, button>>
  /\ UNCHANGED <<opened, props, globals, holder, usbled, probed, requested>>

Unlock(c) ==
  /\ c \in holder /\ job[c].todo = << >>
  /\ holder' = holder \ {c} /\ job' = [job EXCEPT ![c] = NULL]
  /\ unsure' = unsure \ job[c].covers
  /\ UNCHANGED <<opened, props, globals, file, usbled, probed, button, requested>>

-----------------------------------------------------------------------------
(* The modules *)

\* backlight_init: the level from the parameter or the led, or 4.
InitialBrightness(param) ==
  LET b == IF param = -1 THEN bright.dev ELSE param
  IN  IF b \in {-1, 1, 255} THEN 4 ELSE LowByte(b)

LoadBacklight ==
  /\ "buttons" \in opened /\ ~bright.loaded
  /\ \E hook_enable \in BOOLEAN, param \in {-1} \cup ProcLevels :
       bright' = [bright EXCEPT !.loaded = TRUE, !.hooked = hook_enable,
                                !.brightness = InitialBrightness(param)]
  /\ UNCHANGED <<opened, props, globals, job, holder, file, usbled, probed, power, adlc, requested, unsure>>

\* backlight_exit
UnloadBacklight ==
  /\ bright.loaded
  /\ bright' = [bright EXCEPT !.loaded = FALSE, !.hooked = FALSE, !.brightness = -1]
  /\ UNCHANGED <<opened, props, globals, job, holder, file, usbled, probed, power, adlc, requested, unsure>>

\* proc_hook_write
SetHook ==
  /\ bright.loaded /\ bright' = [bright EXCEPT !.hooked = ~@]
  /\ UNCHANGED <<opened, props, globals, job, holder, file, usbled, probed, power, adlc, requested, unsure>>

\* Anybody may write the level, behind the back of liblights.
WriteByHand ==
  /\ bright.loaded /\ \E level \in ProcLevels : ProcBrightness(level)
  /\ unsure' = unsure \cup {"button"}
  /\ job' = [c \in Callers |-> IF c \in holder THEN With(job[c], job[c].todo, job[c].covers \ {"button"})
                            ELSE job[c]]
  /\ UNCHANGED <<opened, props, globals, holder, file, usbled, probed, requested>>

\* ld_cpcap_usbled_probe: the led may fail to register; its value is the bit
\* of the register, which outlives the module.
LoadUsbLed ==
  /\ "battery" \in opened /\ ~usbled /\ usbled' = TRUE /\ probed' \in BOOLEAN
  /\ UNCHANGED <<opened, props, globals, job, holder, file, button, requested, unsure>>

UnloadUsbLed ==
  /\ usbled /\ usbled' = FALSE /\ probed' = FALSE
  /\ UNCHANGED <<opened, props, globals, job, holder, file, button, requested, unsure>>

-----------------------------------------------------------------------------
Modules == LoadBacklight \/ UnloadBacklight \/ SetHook \/ WriteByHand \/ LoadUsbLed \/ UnloadUsbLed

LightsNext ==
  \/ SetScale \/ SetChargeLed
  \/ \E c \in Callers : ScaleFirst(c) \/ Locked(c) \/ WriteInt(c) \/ Unlock(c)
  \/ Modules

LightsSpec == LightsInit /\ [][LightsNext]_lightsVars

-----------------------------------------------------------------------------

Settled(light) == holder = {} /\ light \notin unsure

(* Whatever calls overlapped and modules came and went: unless a write has *)
(* failed since, the backlight is in the mode and at the brightness of one *)
(* call, the last; a lit notification is shown, and the charge light is    *)
(* off with it; without one the charge light or the colour shows the       *)
(* battery, as the user wanted it when it was set.                         *)
WhiteInstead == requested.battery.prop = "white" /\ requested.battery.state.red > 0 /\ requested.battery.state.green > 0
Hidden == requested.battery.prop = "off" /\ requested.battery.state.green > 0

Shows(state) ==
  /\ file["red"] = state.red /\ file["green"] = state.green /\ file["blue"] = state.blue
  /\ (file["blink"] > 0) <=> state.flash

LastCallShown ==
  /\ Settled("lcd") => [als |-> file["als"], lcd |-> file["lcd"]] = requested.backlight
  /\ Settled("rgb") => Shows(IF is_lit(requested.notification) THEN requested.notification
                             ELSE IF WhiteInstead \/ Hidden THEN Dark ELSE requested.battery.state)
  /\ Settled("charge") => (file["charge"] > 0 <=> WhiteInstead /\ ~is_lit(requested.notification))

(* The cached brightness spares writes, never a change: unless a write has *)
(* failed since the light was last switched, the buttons are lit exactly   *)
(* when the last call asked for it, at its level.                          *)
ButtonShown ==
  Settled("button") =>
    /\ power <=> requested.buttons > 0
    /\ power => adlc = brightness_to_cpcap(requested.buttons)
=============================================================================
