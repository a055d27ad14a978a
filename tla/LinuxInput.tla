----------------------------- MODULE LinuxInput -----------------------------
(***************************************************************************)
(* Keyboard, mouse buttons and wheel of the Linux host: linux_keyboard.h,  *)
(* linux_mouse.cc and the perform_* and clear_* functions of               *)
(* linux/hardware_simulator_plugin.cc.  Flutter calls them one at a time   *)
(* on the GTK platform thread; what makes them hard is that every write to *)
(* /dev/uinput may fail, that an event is only seen by the desktop once a  *)
(* SYN_REPORT follows it, and that the mouse is two kernel devices, one    *)
(* relative and one absolute, of which a call only addresses the current.  *)
(*                                                                         *)
(* The kernel is external: it keeps the last value written for each key    *)
(* and shows it to readers at the next SYN_REPORT.                         *)
(***************************************************************************)
EXTENDS Integers, SequencesExt

CONSTANTS
  Vks,        \* Windows virtual-key codes the viewer sends
  KeyCode,    \* key_mappings: Vks to Linux codes; several codes share one
  Buttons,    \* mouse buttons
  Positions,  \* absolute pointer positions, without the initial one
  Deltas,     \* wheel deltas in half units, or NotFinite
  NotFinite,  \* a delta that is infinite or not a number
  MaxWheel,   \* kMaxLinuxWheelDistance
  MaxCalls    \* bound on the method calls of a behaviour

Codes == Range(KeyCode)

ASSUME LinuxInputAssumption ==
  /\ KeyCode \in [Vks -> Codes]
  /\ Buttons \subseteq Int /\ IsFiniteSet(Buttons)
  /\ MaxWheel \in Nat /\ MaxCalls \in Nat
  /\ Deltas \subseteq Int \cup {NotFinite}

Modes == {"rel", "abs"}
Axes  == {"v", "h"}
Origin == "origin"      \* g_last_abs_x = g_last_abs_y = 0

VARIABLES
  kbd,          \* LinuxKeyboard: [device, pressed, sync_pending]
  kernel,       \* the key state of the kernel device (external)
  seen,         \* the key state its readers saw at the last SYN_REPORT
  mouseReady,   \* g_mouse # nullptr
  ptr,          \* [mode: g_current_mouse_mode, last_abs: g_last_abs_*, absolute:
                \*  inputtino's _state->absolute, absPos: where the absolute device is]
  down,         \* down[m]: buttons held on the kernel device of mode m
  pressed_buttons,   \* g_pressed_mouse_buttons: recorded buttons to modes
  wheel,        \* [remainder: LinuxMouse::remainder_, hires, detents: the sums of
                \*  REL_*WHEEL_HI_RES and REL_*WHEEL written]
  rebound,      \* <<b, m>>: b was pressed on device m and pressed again in the other mode
  answer,       \* the last call and its result
  calls

keyVars   == <<kbd, kernel, seen>>
buttonVars == <<down, pressed_buttons, rebound>>
mouseVars == <<mouseReady, ptr, buttonVars>>
vars == <<keyVars, mouseVars, wheel, answer, calls>>

Init ==
  /\ kbd = [device |-> FALSE, pressed |-> {}, sync_pending |-> FALSE]
  /\ kernel = {} /\ seen = {}
  /\ mouseReady = FALSE
  /\ ptr = [mode |-> "rel", absolute |-> FALSE, absPos |-> Origin, last_abs |-> Origin]
  /\ down = [m \in Modes |-> {}]
  /\ pressed_buttons = <<>> /\ rebound = {}
  /\ LET zero == [m \in Modes |-> [a \in Axes |-> 0]]
     IN  wheel = [remainder |-> zero, hires |-> zero, detents |-> zero]
  /\ answer = <<"none", TRUE>>
  /\ calls = 0

Return(call, ok) == calls < MaxCalls /\ calls' = calls + 1 /\ answer' = <<call, ok>>

----------------------------------------------------------------------------
(* LinuxKeyboard.  A write is called with the set of its possible results. *)

\* LinuxKeyboard::synchronize: ok is whether SYN_REPORT could be written.
synchronize(k, ok) == [k EXCEPT !.sync_pending = ~ok]

Shown(ok) == seen' = IF ok THEN kernel' ELSE seen

\* A call that asks for what pressed_ has already only retries a pending sync.
resend(k) == k.sync_pending

\* Mutant: pressed_ is updated before the key is written.
writeKeyFirst(k, code, isDown, ok) ==
  [k EXCEPT !.pressed = IF isDown THEN @ \cup {code} ELSE @ \ {code}]

\* pressed_ follows the kernel: it changes only when the EV_KEY was written.
writeKey(k, code, isDown, ok) ==
  IF ok THEN [k EXCEPT !.pressed = IF isDown THEN @ \cup {code} ELSE @ \ {code}] ELSE k

\* perform_key_event and LinuxKeyboard::send on an initialised device: key and
\* sync are the results of the two writes.
sendOpen(k, code, isDown, key, sync) ==
  IF isDown = (code \in k.pressed)
    THEN /\ UNCHANGED kernel
         /\ IF resend(k) THEN kbd' = synchronize(k, sync) /\ Shown(sync) /\ Return("key", sync)
                         ELSE kbd' = k /\ UNCHANGED seen /\ Return("key", TRUE)
    ELSE LET w == writeKey(k, code, isDown, key) IN
         /\ kernel' = IF ~key THEN kernel ELSE IF isDown THEN kernel \cup {code} ELSE kernel \ {code}
         /\ kbd' = IF key THEN synchronize(w, sync) ELSE w
         /\ Shown(key /\ sync)
         /\ Return("key", key /\ sync)

\* initialize() creates the device on first use and may fail (no permission).
KeyPress(vk, isDown) ==
  /\ UNCHANGED <<mouseVars, wheel>>
  /\ \/ /\ ~kbd.device
        /\ UNCHANGED keyVars /\ Return("key", FALSE)
     \/ \E key, sync \in BOOLEAN :
          sendOpen([kbd EXCEPT !.device = TRUE], KeyCode[vk], isDown, key, sync)

\* LinuxKeyboard::clear: failed is the set of keys whose release was not
\* written; they stay in pressed_ for the next attempt.
clearKeyboard(failed, sync) ==
  /\ kernel' = (kernel \ kbd.pressed) \cup failed
  /\ kbd' = IF kbd.device THEN synchronize([kbd EXCEPT !.pressed = failed], sync) ELSE kbd
  /\ IF kbd.device THEN Shown(sync) ELSE UNCHANGED seen

----------------------------------------------------------------------------
(* The mouse.                                                              *)

\* get_mouse: creation may fail, and is attempted again by the next call.
\* Once created the mouse stays.
WithMouse(call, Action) ==
  \/ /\ ~mouseReady
     /\ UNCHANGED <<mouseVars, wheel>> /\ Return(call, FALSE)
  \/ /\ mouseReady' = TRUE
     /\ Action /\ Return(call, TRUE)

mouseMoveR ==
  /\ UNCHANGED keyVars
  /\ WithMouse("move", /\ ptr' = [ptr EXCEPT !.absolute = FALSE, !.mode = "rel"]
                       /\ UNCHANGED <<buttonVars, wheel>>)

\* The position is computed from the monitors; without an X display or with an
\* unknown screen the call fails after get_mouse.
mouseMoveA(p) ==
  /\ UNCHANGED <<keyVars, buttonVars, wheel>>
  /\ \/ WithMouse("move", ptr' = [absolute |-> TRUE, mode |-> "abs", absPos |-> p, last_abs |-> p])
     \/ mouseReady' = TRUE /\ UNCHANGED ptr /\ Return("move", FALSE)

\* Mutant: the plugin's own idea of the current mode is not updated.
set_mouse_modeSilently(p, m) ==
  [p EXCEPT !.absolute = (m = "abs"), !.absPos = IF m = "abs" THEN p.last_abs ELSE @]

\* set_mouse_mode: a move by nothing on the relative device, or to the last
\* position on the absolute one, selects the device.
set_mouse_mode(p, m) ==
  [absolute |-> (m = "abs"), mode |-> m, last_abs |-> p.last_abs,
   absPos |-> IF m = "abs" THEN p.last_abs ELSE p.absPos]

Device(p) == IF p.absolute THEN "abs" ELSE "rel"

recorded(b) == b \in DOMAIN pressed_buttons

\* perform_mouse_button, isDown: the press goes to inputtino's current device
\* and the plugin's current mode is recorded for the release.
pressButton(b) ==
  /\ pressed_buttons' = [x \in DOMAIN pressed_buttons \cup {b} |->
                          IF x = b THEN ptr.mode ELSE pressed_buttons[x]]
  /\ down' = [down EXCEPT ![Device(ptr)] = @ \cup {b}]
  /\ rebound' = IF recorded(b) /\ pressed_buttons[b] # ptr.mode
                  THEN rebound \cup {<<b, pressed_buttons[b]>>} ELSE rebound
  /\ UNCHANGED <<ptr, wheel>>

\* mouse->release(b) after set_mouse_mode(m).
releaseInMode(st, b, m) ==
  LET p == set_mouse_mode(st.ptr, m)
  IN  [ptr |-> p, down |-> [st.down EXCEPT ![Device(p)] = @ \ {b}]]

\* What holds of rebound presses after b has been released on device d.
Unbound(b, d) == rebound \ {<<b, d>>}

\* perform_mouse_button, released: back to the device the press went to; a
\* button that is not recorded is released on the current device.
releaseButton(b) ==
  LET m  == IF recorded(b) THEN pressed_buttons[b] ELSE Device(ptr)
      st == [ptr |-> ptr, down |-> down]
      r  == IF recorded(b) THEN releaseInMode(st, b, m)
                           ELSE [st EXCEPT !.down[m] = @ \ {b}]
  IN  /\ ptr' = r.ptr /\ down' = r.down
      /\ pressed_buttons' = Restrict(pressed_buttons, DOMAIN pressed_buttons \ {b})
      /\ rebound' = Unbound(b, m)
      /\ UNCHANGED wheel

mousePress(b, isDown) ==
  /\ UNCHANGED keyVars
  /\ WithMouse("button", IF isDown THEN pressButton(b) ELSE releaseButton(b))

\* Mutant: the release of one button ends the loop.
clearMouseStopsEarly ==
  LET b == Min(DOMAIN pressed_buttons)
      r == releaseInMode([ptr |-> ptr, down |-> down], b, pressed_buttons[b])
  IN  /\ ptr' = r.ptr /\ down' = r.down
      /\ pressed_buttons' = <<>>
      /\ rebound' = Unbound(b, pressed_buttons[b])
      /\ UNCHANGED mouseReady

\* clear_all_pressed_mouse_buttons: each button is released in its recorded
\* mode, in the order of the map.  A recorded button was pressed, so get_mouse
\* finds the mouse; where it did not, the buttons would be put back.
clearMouse ==
  LET after[S \in SUBSET DOMAIN pressed_buttons] ==     \* the buttons of S are released
        IF S = {} THEN [ptr |-> ptr, down |-> down]
        ELSE releaseInMode(after[S \ {Max(S)}], Max(S), pressed_buttons[Max(S)])
      r == after[DOMAIN pressed_buttons]
  IN  /\ ptr' = r.ptr /\ down' = r.down
      /\ pressed_buttons' = <<>>
      /\ rebound' = {x \in rebound : ~recorded(x[1]) \/ pressed_buttons[x[1]] # x[2]}
      /\ UNCHANGED mouseReady

\* clear_all_pressed_events: the mouse first, then the keyboard in any case.
clearAllPressedEvents ==
  /\ IF pressed_buttons = <<>> THEN UNCHANGED mouseVars ELSE clearMouse
  /\ \E failed \in SUBSET kbd.pressed, sync \in BOOLEAN :
       /\ clearKeyboard(failed, sync)
       /\ Return("clear", failed = {} /\ (kbd.device => sync))
  /\ UNCHANGED wheel

----------------------------------------------------------------------------
(* The wheel.                                                              *)

\* Integer division of C++, which truncates towards zero.
Quot(t, n) == IF t >= 0 THEN t \div n ELSE -((-t) \div n)

\* Mutant: % and / round differently.
RemFloored(t, n) == t % n

\* Mutant: the whole distance is kept.
RemWhole(t, n) == t

Rem(t, n) == t - n * Quot(t, n)

\* logical_scroll_to_linux_wheel: inverted, clamped, rounded half away from zero.
logical_scroll_to_linux_wheel(delta, invert) ==
  IF delta = NotFinite THEN 0
  ELSE LET d == IF invert THEN -delta ELSE delta
           c == IF d > 2 * MaxWheel THEN 2 * MaxWheel ELSE IF d < -2 * MaxWheel THEN -2 * MaxWheel ELSE d
       IN  Quot(c + (IF c < 0 THEN -1 ELSE 1), 2)

\* LinuxMouse::scroll on device m: whole notches, then the high-resolution
\* distance; the rest is kept per device and axis.
Scroll(wh, m, a, distance) ==
  LET total == wh.remainder[m][a] + distance
  IN  [remainder |-> [wh.remainder EXCEPT ![m][a] = Rem(total, 120)],
       detents   |-> [wh.detents EXCEPT ![m][a] = @ + Quot(total, 120)],
       hires     |-> [wh.hires EXCEPT ![m][a] = @ + distance]]

\* perform_mouse_scroll: a distance of zero is not sent, which is as sending it.
mouseScroll(dx, dy) ==
  /\ UNCHANGED keyVars
  /\ WithMouse("scroll",
       /\ LET m  == Device(ptr)
              v  == Scroll(wheel, m, "v", logical_scroll_to_linux_wheel(dy, TRUE))
          IN  wheel' = Scroll(v, m, "h", logical_scroll_to_linux_wheel(dx, FALSE))
       /\ UNCHANGED <<ptr, buttonVars>>)

----------------------------------------------------------------------------
Next ==
  \/ \E vk \in Vks, isDown \in BOOLEAN : KeyPress(vk, isDown)
  \/ mouseMoveR
  \/ \E p \in Positions : mouseMoveA(p)
  \/ \E b \in Buttons, isDown \in BOOLEAN : mousePress(b, isDown)
  \/ \E dx, dy \in Deltas : mouseScroll(dx, dy)
  \/ clearAllPressedEvents

Spec == Init /\ [][Next]_vars

----------------------------------------------------------------------------
(* Properties.                                                             *)

\* Type correctness; what is carried over to the next scroll is always less than
\* a notch.
TypeOK ==
  /\ kbd.device \in BOOLEAN /\ kbd.sync_pending \in BOOLEAN
  /\ kbd.pressed \subseteq Codes /\ kernel \subseteq Codes /\ seen \subseteq Codes
  /\ {mouseReady, ptr.absolute} \subseteq BOOLEAN /\ ptr.mode \in Modes
  /\ {ptr.absPos, ptr.last_abs} \subseteq Positions \cup {Origin}
  /\ down \in [Modes -> SUBSET Buttons]
  /\ DOMAIN pressed_buttons \subseteq Buttons /\ Range(pressed_buttons) \subseteq Modes
  /\ \A m \in Modes, a \in Axes : wheel.remainder[m][a] \in -119 .. 119

\* LinuxKeyboard never loses track of the device, whichever writes fail: pressed_
\* is what the kernel holds, and unless a sync is pending the desktop has seen it.
\* So KeyPress reports success only for what the desktop can see, a resend after a
\* failed SYN_REPORT included.
KeysTracked ==
  /\ kbd.pressed = kernel
  /\ ~kbd.sync_pending => seen = kernel
  /\ answer = <<"key", TRUE>> => seen = kbd.pressed

\* No button is left held on a device the release will not go to, except where
\* the button was pressed again after the mode had changed.
HeldWhereRecorded ==
  \A m \in Modes : \A b \in down[m] :
    (recorded(b) /\ pressed_buttons[b] = m) \/ <<b, m>> \in rebound

\* A successful clearAllPressedEvents leaves no key and, but for presses repeated
\* in another mode, no button held that the desktop can see.
ClearReleases ==
  answer = <<"clear", TRUE>> =>
    /\ seen = {}
    /\ \A m \in Modes : \A b \in down[m] : <<b, m>> \in rebound

\* Every key and button that is down is known to the side that has to release it,
\* whichever writes fail, and a clear that succeeds has released it.
HeldIsTracked == KeysTracked /\ HeldWhereRecorded /\ ClearReleases

\* The notches and the remainder account for every high-resolution unit, per
\* device and axis, across changes of mode, so no scrolling is lost or invented.
WheelConserves ==
  \A m \in Modes, a \in Axes :
    wheel.hires[m][a] = 120 * wheel.detents[m][a] + wheel.remainder[m][a]
=============================================================================
