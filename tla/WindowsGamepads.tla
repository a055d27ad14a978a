--------------------------- MODULE WindowsGamepads ---------------------------
(***************************************************************************)
(* Virtual gamepads (windows/gamecontroller_manager.cc), the registry of   *)
(* their rumble callbacks (windows/rumble_callback_registry.h), and Dart's *)
(* GameController handles.  ViGEm calls OnRumble on threads of its own and *)
(* does not wait for them when a notification is unregistered; a callback  *)
(* carries a cookie, and posts it to the window thread, where subscribing, *)
(* removing and ResolveRumble run.                                         *)
(*                                                                         *)
(* A call of Dart and its handler are one step: the channel keeps order,   *)
(* and a handle ignores events from the moment it calls dispose.  Replies  *)
(* and events reach Dart later.  What is in a rumble or a control action   *)
(* does not matter here; a rumble carries the target it came from.         *)
(***************************************************************************)
EXTENDS Naturals, Sequences, FiniteSets

CONSTANTS
  NPads,          \* the size of controllers (4)
  MaxTargets,     \* bound on gamepads ever plugged in
  MaxCallbacks    \* bound on callbacks, window messages and events under way

Slots   == 1 .. NPads
Targets == 1 .. MaxTargets
None    == 0      \* a null target, an invalid cookie, no token

ASSUME GamepadAssumption == {NPads, MaxTargets, MaxCallbacks} \subseteq Nat \ {0}

VARIABLES
  initialized, controllers,
  targets,         \* how many targets were allocated so far
  rumble_contexts,
  entries, next_,  \* the registry: cookies with their slot and token
  notify,          \* the cookie that ViGEm has for each target
  inCallback,      \* OnRumble calls that looked their cookie up and have yet to post
  messages,        \* window messages
  rumble_proc,     \* rumble_proc_id_: the window procedure is registered
  padToDart,       \* replies and events on the channel
  pads,            \* Dart's handles, by token
  heard            \* the targets whose rumble each handle was given

registryVars == <<entries, next_>>
padVars == <<initialized, controllers, targets, rumble_contexts, registryVars, notify,
             inCallback, messages, rumble_proc, padToDart, pads, heard>>

NoContext == [token |-> None, cookie |-> None]
Tokens    == DOMAIN pads

PadInit ==
  /\ initialized = FALSE /\ controllers = [s \in Slots |-> None] /\ targets = 0
  /\ rumble_contexts = [s \in Slots |-> NoContext]
  /\ entries = {} /\ next_ = 0 /\ notify = [t \in Targets |-> None]
  /\ inCallback = {} /\ messages = <<>> /\ rumble_proc = FALSE
  /\ padToDart = <<>> /\ pads = <<>> /\ heard = {}

----------------------------------------------------------------------------
(* The registry and its use.  A context is registered when it has a cookie. *)

Lookup(cookie) == {e \in entries : e.cookie = cookie}

\* Mutant: a cookie that is no longer in use serves again.
FirstFreeCookie == CHOOSE c \in 1 .. next_ + 1 :
                     Lookup(c) = {} /\ \A d \in 1 .. c - 1 : Lookup(d) # {}
NextCookie == next_ + 1

\* UnregisterRumble for the gamepads in the slots S.
UnregisterRumble(S) ==
  /\ entries' = {e \in entries : \A s \in S : e.cookie # rumble_contexts[s].cookie}
  /\ rumble_contexts' = [s \in Slots |-> IF s \in S THEN [rumble_contexts[s] EXCEPT !.cookie = None]
                                         ELSE rumble_contexts[s]]
  /\ notify' = [t \in Targets |-> IF \E s \in S : controllers[s] = t THEN None ELSE notify[t]]
  /\ UNCHANGED next_

\* SubscribeRumble: the old registration goes first; ViGEm may refuse the new one.
Subscribe(s, token, ok) ==
  /\ entries' = (entries \ Lookup(rumble_contexts[s].cookie)) \cup
                 (IF ok THEN {[cookie |-> NextCookie, id |-> s, token |-> token]} ELSE {})
  /\ next_' = next_ + 1
  /\ rumble_contexts' = [rumble_contexts EXCEPT ![s] =
                           [token |-> token, cookie |-> IF ok THEN NextCookie ELSE None]]
  /\ notify' = [notify EXCEPT ![controllers[s]] = IF ok THEN NextCookie ELSE None]

----------------------------------------------------------------------------
(* The calls.  The slot of a live handle is never empty (HandlesHavePads),  *)
(* so the early returns for an empty slot are not reached from Dart.        *)

\* createGameController: ViGEm may be missing, and may refuse the new target, which
\* then keeps its slot though Dart gets no handle for it.
CreateGameController ==
  /\ targets < MaxTargets
  /\ \E vigem \in IF initialized THEN {TRUE} ELSE BOOLEAN, added \in BOOLEAN :
       LET free == {s \in Slots : controllers[s] = None}
           s    == CHOOSE x \in free : \A y \in free : x <= y
       IN  /\ initialized' = vigem
           /\ IF vigem /\ free # {}
                THEN /\ targets' = targets + 1
                     /\ controllers' = [controllers EXCEPT ![s] = targets + 1]
                     /\ padToDart' = IF added THEN Append(padToDart,
                                       [type |-> "created", id |-> s, target |-> targets + 1])
                                     ELSE padToDart
                ELSE UNCHANGED <<targets, controllers, padToDart>>
  /\ UNCHANGED <<rumble_contexts, registryVars, notify, inCallback, messages, rumble_proc,
                 pads, heard>>

\* subscribeGamepadRumble, by enableRumbleFeedback of a handle not disposed.
SubscribeRumble(t) ==
  /\ ~pads[t].disposed
  /\ rumble_proc' = TRUE
  /\ \E ok \in BOOLEAN : Subscribe(pads[t].id, t, ok)
  /\ UNCHANGED <<initialized, controllers, targets, inCallback, messages, padToDart, pads, heard>>

\* Mutant: the notification of a removed gamepad is forgotten.
RemoveKeepsRumble(t) ==
  /\ ~pads[t].disposed
  /\ controllers' = [controllers EXCEPT ![pads[t].id] = None]
  /\ pads' = [pads EXCEPT ![t].disposed = TRUE]
  /\ UNCHANGED <<initialized, targets, rumble_contexts, registryVars, notify, inCallback,
                 messages, rumble_proc, padToDart, heard>>

\* removeGameController, by dispose.  If ViGEm refuses, a subscription is made again.
RemoveGameController(t) ==
  LET s == pads[t].id
  IN  /\ ~pads[t].disposed
      /\ pads' = [pads EXCEPT ![t].disposed = TRUE]
      /\ \/ /\ UnregisterRumble({s})
            /\ controllers' = [controllers EXCEPT ![s] = None]
            /\ UNCHANGED padToDart
         \/ /\ IF rumble_contexts[s].cookie # None
                 THEN \E ok \in BOOLEAN : Subscribe(s, rumble_contexts[s].token, ok)
                 ELSE UNCHANGED <<registryVars, rumble_contexts, notify>>
            /\ padToDart' = Append(padToDart, [type |-> "kept", token |-> t])
            /\ UNCHANGED controllers
      /\ UNCHANGED <<initialized, targets, inCallback, messages, rumble_proc, heard>>

\* The gamepads' part of the destructor: notifications end, the window procedure
\* goes and its messages are drained.
StopRumbleNotifications ==
  /\ UnregisterRumble({s \in Slots : controllers[s] # None})
  /\ rumble_proc' = FALSE /\ messages' = <<>>
  /\ UNCHANGED <<initialized, controllers, targets, inCallback, padToDart, pads, heard>>

----------------------------------------------------------------------------
(* Rumble.                                                                 *)

\* ViGEm calls OnRumble for a target with the cookie it has.
RumbleBegins(t) ==
  /\ notify[t] # None
  /\ Cardinality(inCallback) + Len(messages) + Len(padToDart) < MaxCallbacks
  /\ inCallback' = inCallback \cup {[cookie |-> notify[t], target |-> t, found |-> FALSE]}
  /\ UNCHANGED <<initialized, controllers, targets, rumble_contexts, registryVars, notify,
                 messages, rumble_proc, padToDart, pads, heard>>

\* OnRumble looks the cookie up, and posts if it is there.
OnRumbleLookup(c) ==
  /\ c \in inCallback /\ ~c.found
  /\ inCallback' = (inCallback \ {c}) \cup
                   (IF Lookup(c.cookie) = {} THEN {} ELSE {[c EXCEPT !.found = TRUE]})
  /\ UNCHANGED <<initialized, controllers, targets, rumble_contexts, registryVars, notify,
                 messages, rumble_proc, padToDart, pads, heard>>

OnRumblePost(c) ==
  /\ c \in inCallback /\ c.found
  /\ inCallback' = inCallback \ {c}
  /\ messages' = Append(messages, c)
  /\ UNCHANGED <<initialized, controllers, targets, rumble_contexts, registryVars, notify,
                 rumble_proc, padToDart, pads, heard>>

\* The window procedure of subscribeGamepadRumble: ResolveRumble looks the cookie up
\* again.  Without the procedure the message is lost.
ResolveRumble ==
  /\ messages # <<>>
  /\ messages' = Tail(messages)
  /\ IF rumble_proc /\ Lookup(Head(messages).cookie) # {}
       THEN \E e \in Lookup(Head(messages).cookie) :
              padToDart' = Append(padToDart, [type |-> "rumble", id |-> e.id, token |-> e.token,
                                              target |-> Head(messages).target])
       ELSE UNCHANGED padToDart
  /\ UNCHANGED <<initialized, controllers, targets, rumble_contexts, registryVars, notify,
                 inCallback, rumble_proc, pads, heard>>

\* Dart: a new handle with the next token; a handle whose dispose failed lives on; an
\* event goes to the handles that pass the filter of rumbleEvents.
PadDart ==
  /\ padToDart # <<>>
  /\ padToDart' = Tail(padToDart)
  /\ LET m == Head(padToDart) IN
     \/ /\ m.type = "created"
        /\ pads' = Append(pads, [id |-> m.id, target |-> m.target, disposed |-> FALSE])
        /\ UNCHANGED heard
     \/ /\ m.type = "kept"
        /\ pads' = [pads EXCEPT ![m.token].disposed = FALSE]
        /\ UNCHANGED heard
     \/ /\ m.type = "rumble"
        /\ heard' = heard \cup {<<t, m.target>> : t \in
             {u \in Tokens : ~pads[u].disposed /\ pads[u].id = m.id /\ u = m.token}}
        /\ UNCHANGED pads
  /\ UNCHANGED <<initialized, controllers, targets, rumble_contexts, registryVars, notify,
                 inCallback, messages, rumble_proc>>

PadCalls ==
  \/ CreateGameController
  \/ \E t \in Tokens : SubscribeRumble(t) \/ RemoveGameController(t)

PadEvents ==
  \/ \E t \in Targets : RumbleBegins(t)
  \/ \E c \in inCallback : OnRumbleLookup(c) \/ OnRumblePost(c)
  \/ ResolveRumble \/ PadDart

----------------------------------------------------------------------------
(* Properties.                                                             *)

\* Types of the gamepads' state.
PadTypeOK ==
  /\ initialized \in BOOLEAN /\ rumble_proc \in BOOLEAN
  /\ controllers \in [Slots -> 0 .. targets] /\ targets \in 0 .. MaxTargets
  /\ rumble_contexts \in [Slots -> [token : 0 .. MaxTargets, cookie : 0 .. next_]]
  /\ entries \subseteq [cookie : 1 .. next_, id : Slots, token : 1 .. MaxTargets]
  /\ notify \in [Targets -> 0 .. next_]
  /\ Len(messages) + Cardinality(inCallback) <= MaxCallbacks

\* A handle is given only the rumble of its own gamepad: not that of the gamepad
\* which had the slot before, however late its callbacks and messages come.
RumbleOfOwnPad == \A h \in heard : h[2] = pads[h[1]].target

\* The registry holds exactly the registrations ViGEm has, so late callbacks find
\* nothing and the entries stay bounded, as RumbleCallbacks() says.
RegistryIsCurrent ==
  /\ \A t \in Targets : notify[t] # None => \E s \in Slots : controllers[s] = t
  /\ {e.cookie : e \in entries} = {notify[t] : t \in Targets} \ {None}
  /\ \A e \in entries : rumble_contexts[e.id].cookie = e.cookie
                         /\ notify[controllers[e.id]] = e.cookie

\* Handles that are not disposed have a slot each, with their own gamepad in it.
HandlesHavePads ==
  \A t \in Tokens : ~pads[t].disposed => controllers[pads[t].id] = pads[t].target

\* A rumble reaches the handle of the gamepad it came from or nobody, whatever was
\* unsubscribed, removed or created while OnRumble or its message was under way.
RumbleSound == RumbleOfOwnPad /\ RegistryIsCurrent /\ HandlesHavePads
=============================================================================
