------------------------- MODULE MacSystemShortcuts -------------------------
(***************************************************************************)
(* MacOSSystemShortcutCapture with its router and its event tap            *)
(* (macos/Classes): while an owner has it armed, Command-Tab and           *)
(* Control-arrow go to the remote host instead of this Mac.  Everything    *)
(* runs on the main thread.  The tap is global, so it must not outlive its *)
(* use: an arming ends if the consumer does not answer heartbeats for two  *)
(* seconds, and after a stop the tap stays two seconds at most, to pair    *)
(* key-ups with the key-downs that it took.                                *)
(***************************************************************************)
EXTENDS Naturals, Sequences

CONSTANTS
  Keys,           \* the keys of the router (Tab and the arrows)
  ChordOf,        \* the modifiers with which each is a system shortcut
  Owners,
  MaxChallenge    \* bound on heartbeats

ASSUME ShortcutsAssumption == MaxChallenge \in Nat /\ "none" \notin Owners /\ DOMAIN ChordOf = Keys

VARIABLES
  cap,            \* the capture object and its router, a record
  toDart,         \* events under way to Dart
  acks,           \* acknowledgements under way to the plugin
  consumer,       \* the application answers
  focused,        \* the app is active and its window is the key window
  permitted,      \* accessibility is granted and no secure input is on
  held, mods,     \* what the user holds down: keys, and the modifiers
  localDown,      \* keys that are down for this Mac
  taken,          \* held keys whose key-down was kept from this Mac
  remote,         \* <<owner, key>> that are down at the remote host
  missed,         \* taken keys of which the tap did not see an event
  staleAck        \* an acknowledgement of another arming was accepted

userVars     == <<focused, permitted, held, mods>>
consumerVars == <<acks, consumer, remote, staleAck>>
keyVars      == <<localDown, taken, missed>>
shortcutVars == <<cap, toDart, userVars, consumerVars, keyVars>>

Modifiers == {"none"} \cup {ChordOf[k] : k \in Keys}

\* tap: none, on, or off (disabled by the system); out: what a step tells Dart; dropped
\* and session are history: keys given up by a discarding stop, the number of armings.
ShortcutsInit ==
  /\ cap = [armed |-> FALSE, pressed |-> {}, tails |-> {}, owner |-> "none", tap |-> "none",
            timer |-> FALSE, overdue |-> FALSE, tailDeadline |-> "none", pending |-> 0,
            challenge |-> 0, out |-> <<>>, dropped |-> {}, session |-> 0]
  /\ toDart = <<>> /\ acks = {} /\ consumer = TRUE
  /\ focused = TRUE /\ permitted = TRUE /\ held = {} /\ mods = "none"
  /\ localDown = {} /\ taken = {} /\ remote = {} /\ missed = {} /\ staleAck = FALSE

Pending(s) == s.pressed \cup s.tails

----------------------------------------------------------------------------
(* Stopping.                                                               *)

\* Mutant: keys that are down when the router stops are forgotten.
RouterStopForgets(s) == [s EXCEPT !.armed = FALSE, !.pressed = {}]
RouterStop(s)        == [s EXCEPT !.armed = FALSE, !.tails = @ \cup s.pressed, !.pressed = {}]
RouterReset(s)       == [s EXCEPT !.armed = FALSE, !.tails = {}, !.pressed = {}, !.dropped = @ \cup Pending(s)]

Emit(s, event) == [s EXCEPT !.out = Append(@, event)]

closeTap(s) == [s EXCEPT !.tap = "none", !.timer = FALSE, !.pending = 0, !.tailDeadline = "none"]

\* Mutant: a stop with keys down sets no deadline.
TailUnlimited(s) == s
TailLimited(s)   == IF s.tailDeadline = "none" THEN [s EXCEPT !.tailDeadline = "set"] ELSE s

stop(s, discardPending) ==
  LET r == [RouterStop(s) EXCEPT !.pending = 0]
      d == IF discardPending THEN RouterReset(r) ELSE r
      c == IF Pending(d) = {} THEN closeTap(d) ELSE TailLimited(d)
  IN  IF s.armed THEN Emit(c, [kind |-> "stopped", owner |-> s.owner]) ELSE c

expireIfNeeded(s) == IF s.armed /\ s.overdue THEN stop(s, TRUE) ELSE s

\* A handler ends in s.
Ends(s) == cap' = [s EXCEPT !.out = <<>>] /\ toDart' = toDart \o s.out

----------------------------------------------------------------------------
(* Calls from Dart.                                                        *)

\* Mutant: challenges are numbered from the start at every arming.
startHealthCheckAnew(s) ==
  [s EXCEPT !.tailDeadline = "none", !.overdue = FALSE, !.pending = 0, !.timer = TRUE, !.challenge = 0]
startHealthCheck(s) ==
  [s EXCEPT !.tailDeadline = "none", !.overdue = FALSE, !.pending = 0, !.timer = TRUE]

Arm(s, o) ==
  startHealthCheck([s EXCEPT !.owner = o, !.tap = "on", !.armed = TRUE, !.session = @ + 1])

Disable(o) ==
  LET s == expireIfNeeded(cap) IN Ends(IF s.owner = o THEN stop(s, FALSE) ELSE s)

AlreadyOn(s, o) == s.owner = o /\ s.armed /\ s.tap = "on" /\ focused /\ permitted

\* Owner-change stop and reconcileReleasedKeys, before the gate.
Reconciled(s, o) ==
  LET t == IF s.owner # o THEN stop(s, FALSE) ELSE s IN [t EXCEPT !.tails = @ \cap held]

Gate(s) == focused /\ permitted /\ Pending(s) = {} /\ mods = "none" /\ held = {}

\* set(owner, enabled: true): armed already, refused, or armed; the tap may fail.
Enable(o) ==
  LET s == expireIfNeeded(cap)
      r == Reconciled(s, o)
  IN  \/ AlreadyOn(s, o) /\ Ends(s)
      \/ ~AlreadyOn(s, o) /\ ~Gate(r) /\ Ends(stop(r, TRUE))
      \/ ~AlreadyOn(s, o) /\ Gate(r) /\ Ends(Arm(r, o))
      \/ ~AlreadyOn(s, o) /\ Gate(r) /\ r.tap # "on" /\ Ends(stop([r EXCEPT !.owner = o], TRUE))

ShortcutCalls ==
  /\ consumer
  /\ \E o \in Owners : Enable(o) \/ Disable(o)
  /\ UNCHANGED <<userVars, consumerVars, keyVars>>

Accepts(s, a) == s.armed /\ s.owner = a.owner /\ s.pending = a.challenge

\* acknowledgeMacOSSystemShortcutCapture: an answer, to this arming or an earlier one.
acknowledge(a) ==
  LET s == expireIfNeeded(cap) IN
  /\ Ends(IF Accepts(s, a) THEN [s EXCEPT !.pending = 0, !.overdue = FALSE] ELSE s)
  /\ staleAck' = (staleAck \/ (Accepts(s, a) /\ a.session # s.session))
  /\ acks' = acks \ {a}
  /\ UNCHANGED <<userVars, consumer, remote, keyVars>>

----------------------------------------------------------------------------
(* The 0.5 s timer, and time.                                              *)

Unhealthy(s) == ~permitted \/ s.tap # "on"

Checked(s) ==
  LET e == expireIfNeeded(s)
      t == IF e.tailDeadline = "due" THEN stop(e, TRUE) ELSE e
  IN  IF (t.armed \/ Pending(t) # {}) /\ Unhealthy(t) THEN stop(t, TRUE) ELSE t

checkHealth ==
  /\ cap.timer
  /\ LET t == Checked(cap)
         beats == t.armed /\ t.pending = 0
     IN  /\ beats => t.challenge < MaxChallenge
         /\ Ends(IF beats
                 THEN Emit([t EXCEPT !.challenge = @ + 1, !.pending = t.challenge + 1],
                           [kind |-> "heartbeat", owner |-> t.owner, challenge |-> t.challenge + 1,
                            session |-> t.session])
                 ELSE t)
  /\ UNCHANGED <<userVars, consumerVars, keyVars>>

\* Two seconds since the last acknowledgement; two seconds since a stop.
AckOverdue ==
  /\ cap.armed /\ ~cap.overdue /\ cap' = [cap EXCEPT !.overdue = TRUE]
  /\ UNCHANGED <<toDart, userVars, consumerVars, keyVars>>
TailDue ==
  /\ cap.tailDeadline = "set" /\ cap' = [cap EXCEPT !.tailDeadline = "due"]
  /\ UNCHANGED <<toDart, userVars, consumerVars, keyVars>>

----------------------------------------------------------------------------
(* Events at the tap.                                                      *)

\* Mutant: an automatic repeat counts as a press.
MatchesRepeats(s, k, repeat) == s.armed /\ mods = ChordOf[k]
Matches(s, k, repeat)        == s.armed /\ ~repeat /\ mods = ChordOf[k]

\* MacOSSystemShortcutRouter.handle: what becomes of the key, and the new state.
Routed(s, k, down, repeat) ==
  LET tail  == k \in s.tails /\ ~(down /\ ~repeat)
      fresh == [s EXCEPT !.tails = @ \ {k}]
  IN  IF tail THEN [as |-> "consume", s |-> IF down THEN s ELSE fresh]
      ELSE IF ~down THEN [as |-> IF k \in s.pressed THEN "send" ELSE "pass",
                          s  |-> [fresh EXCEPT !.pressed = @ \ {k}]]
      ELSE IF k \in s.pressed THEN [as |-> "consume", s |-> fresh]
      ELSE IF Matches(s, k, repeat) THEN [as |-> "send", s |-> [fresh EXCEPT !.pressed = @ \cup {k}]]
      ELSE [as |-> "pass", s |-> fresh]

\* Before the router: expiry, a missing permission, a lost focus.
Screened(s) ==
  LET e == expireIfNeeded(s)
  IN  IF (e.armed \/ Pending(e) # {}) /\ ~permitted THEN stop(e, TRUE)
      ELSE IF e.armed /\ ~focused THEN stop(e, FALSE)
      ELSE e

\* The deferred end of a tail.
TailEnds(s) == IF ~s.armed /\ Pending(s) = {} /\ s.tailDeadline # "none" THEN closeTap(s) ELSE s

LocalKey(k, down) ==
  /\ localDown' = IF down THEN localDown \cup {k} ELSE localDown \ {k}
  /\ taken' = taken \ {k}

\* handle(): permission is checked before the router is asked.
Handle(k, down, repeat) ==
  LET e == Screened(cap)
      r == IF permitted THEN Routed(e, k, down, repeat) ELSE [as |-> "pass", s |-> e]
      t == IF permitted THEN TailEnds(r.s) ELSE e
      d == [t EXCEPT !.dropped = IF down /\ ~repeat THEN @ \ {k} ELSE @]
  IN  /\ Ends(IF r.as = "send" THEN Emit(d, [kind |-> "key", owner |-> e.owner, key |-> k, down |-> down])
              ELSE d)
      /\ IF r.as = "pass" THEN LocalKey(k, down)
         ELSE UNCHANGED localDown /\ taken' = IF down THEN taken \cup {k} ELSE taken \ {k}
      /\ UNCHANGED missed

\* A tap that is not on, or with secure input on, may not see the event.
Bypass(k, down) ==
  /\ LocalKey(k, down)
  /\ missed' = IF k \in Pending(cap) THEN missed \cup {k} ELSE missed
  /\ UNCHANGED <<cap, toDart>>

UserKey(k, down) ==
  /\ down \/ k \in held
  /\ held' = IF down THEN held \cup {k} ELSE held \ {k}
  /\ \/ cap.tap = "on" /\ Handle(k, down, down /\ k \in held)
     \/ (cap.tap # "on" \/ ~permitted) /\ Bypass(k, down)
  /\ UNCHANGED <<focused, permitted, mods, consumerVars>>

\* flagsChanged is passed on; it is told to Dart too, which is left out.
UserModifiers(m) ==
  /\ m # mods /\ mods' = m
  /\ \/ cap.tap = "on" /\ Ends(TailEnds(Screened(cap)))
     \/ (cap.tap # "on" \/ ~permitted) /\ UNCHANGED <<cap, toDart>>
  /\ UNCHANGED <<focused, permitted, held, consumerVars, keyVars>>

\* tapDisabledByTimeout, tapDisabledByUserInput: the system, then its notice.
TapDisabled ==
  /\ cap.tap = "on" /\ cap' = [cap EXCEPT !.tap = "off"]
  /\ UNCHANGED <<toDart, userVars, consumerVars, keyVars>>
HandleTapDisabled ==
  /\ cap.tap = "off" /\ Ends(stop(expireIfNeeded(cap), TRUE))
  /\ UNCHANGED <<userVars, consumerVars, keyVars>>

FocusMoves ==
  /\ focused' = ~focused
  /\ UNCHANGED <<cap, toDart, permitted, held, mods, consumerVars, keyVars>>
\* didResignKey and didResignActive.
ResignNotified ==
  /\ ~focused /\ cap.armed /\ Ends(stop(cap, FALSE))
  /\ UNCHANGED <<userVars, consumerVars, keyVars>>
PermissionChanges ==
  /\ permitted' = ~permitted
  /\ UNCHANGED <<cap, toDart, focused, held, mods, consumerVars, keyVars>>

ShortcutUser ==
  \/ \E k \in Keys, down \in BOOLEAN : UserKey(k, down)
  \/ \E m \in Modifiers : UserModifiers(m)
  \/ FocusMoves \/ PermissionChanges \/ TapDisabled

----------------------------------------------------------------------------
(* The consumer in the application.                                        *)

\* It answers heartbeats, and lets go of an owner's keys when told of its end.
Consume ==
  LET e == Head(toDart) IN
  /\ consumer /\ toDart # <<>> /\ toDart' = Tail(toDart)
  /\ acks' = IF e.kind = "heartbeat" THEN acks \cup {e} ELSE acks
  /\ remote' = IF e.kind = "heartbeat" THEN remote
               ELSE IF e.kind = "stopped" THEN {d \in remote : d[1] # e.owner}
               ELSE IF e.down THEN remote \cup {<<e.owner, e.key>>}
               ELSE remote \ {<<e.owner, e.key>>}
  /\ UNCHANGED <<cap, userVars, consumer, staleAck, keyVars>>

\* It hangs, or dies.
ConsumerGone ==
  /\ consumer /\ consumer' = FALSE
  /\ UNCHANGED <<cap, toDart, userVars, acks, remote, staleAck, keyVars>>

ShortcutEvents ==
  \/ checkHealth \/ AckOverdue \/ TailDue \/ HandleTapDisabled \/ ResignNotified
  \/ Consume \/ ConsumerGone \/ \E a \in acks : acknowledge(a)

\* The timer fires, time passes, notices arrive.  An acknowledgement is known to be
\* overdue only if nobody is there to give it.
ShortcutFairness ==
  /\ WF_shortcutVars(checkHealth) /\ WF_shortcutVars(TailDue)
  /\ WF_shortcutVars(~consumer /\ AckOverdue)

----------------------------------------------------------------------------
ShortcutTypeOK ==
  /\ cap.owner \in Owners \cup {"none"} /\ cap.tap \in {"none", "on", "off"}
  /\ cap.tailDeadline \in {"none", "set", "due"} /\ cap.pending \in 0 .. MaxChallenge
  /\ cap.pressed \cup cap.tails \cup held \cup localDown \cup missed \subseteq Keys
  /\ mods \in Modifiers /\ {focused, permitted, consumer} \subseteq BOOLEAN

\* Key-downs and key-ups stay paired: no key that the user let go of is left down for
\* this Mac, and of every held key that was taken the key-up will be taken too, unless a
\* stop gave it up.  (Of a key the tap missed an event of, nothing is said.)
KeysPaired ==
  \A k \in Keys \ missed :
    /\ k \in localDown => k \in held
    /\ k \in taken => k \in held /\ (k \in Pending(cap) \/ k \in cap.dropped)

\* What is down at the remote host, once Dart has heard everything, belongs to the
\* present owner and will be let go of: no key is stuck there after a stop.
RemotePaired ==
  toDart = <<>> /\ consumer => \A d \in remote : d[1] = cap.owner /\ d[2] \in cap.pressed

\* A global tap is never without the timer that ends it, and is there when armed.
TapWatched == (cap.tap # "none" <=> cap.timer) /\ (cap.armed => cap.timer)

\* An arming is renewed only by answers to its own heartbeats.
AcksFresh == ~staleAck

\* MacOSSystemShortcutCapture keeps presses and releases paired on both sides, keeps its
\* tap under its timer, and counts only the answers of the arming that is on.
ShortcutsSound == KeysPaired /\ RemotePaired /\ TapWatched /\ AcksFresh

\* After a stop, or without its consumer, the global tap has to go, whatever the user
\* does: only a consumer that is there can keep it, by arming the capture again.
Ending == cap.tap # "none" /\ (~cap.armed \/ ~consumer)
=============================================================================
