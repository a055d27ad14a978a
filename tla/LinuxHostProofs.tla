-------------------------- MODULE LinuxHostProofs ---------------------------
(***************************************************************************)
(* Proofs about the Linux host's input: keyboard, mouse and wheel          *)
(* (LinuxInput, part one) and committed text (LinuxTextInput, part two),   *)
(* for every value of their constants: any keys, buttons, wheel deltas,    *)
(* engines, contexts and number of calls.  The two parts share nothing but *)
(* the library.                                                            *)
(***************************************************************************)
EXTENDS LinuxInput, LinuxTextInput,
        FiniteSetTheorems, WellFoundedInduction, SequenceTheorems, TLAPS

----------------------------------------------------------------------------
(* The inductive invariant.  It adds to the properties the shapes of the   *)
(* records, that nothing is pressed or pending before the device exists,   *)
(* and that the mode the plugin has is the device inputtino has selected.  *)

Keyboards == [device : BOOLEAN, pressed : SUBSET Codes, sync_pending : BOOLEAN]
Pointers  == [mode : Modes, absolute : BOOLEAN, absPos : Positions \cup {Origin},
              last_abs : Positions \cup {Origin}]
Units     == [Modes -> [Axes -> Int]]

KeyForm ==
  /\ kbd \in Keyboards /\ kernel \subseteq Codes /\ seen \subseteq Codes
  /\ ~kbd.device => kbd.pressed = {} /\ ~kbd.sync_pending

PtrForm == ptr \in Pointers /\ Device(ptr) = ptr.mode /\ mouseReady \in BOOLEAN

ButtonForm ==
  /\ down \in [Modes -> SUBSET Buttons]
  /\ DOMAIN pressed_buttons \subseteq Buttons
  /\ \A btn \in DOMAIN pressed_buttons : pressed_buttons[btn] \in Modes

WheelForm ==
  /\ wheel \in [remainder : Units, hires : Units, detents : Units]
  /\ \A m \in Modes, a \in Axes : wheel.remainder[m][a] \in -119 .. 119

KeyInv    == KeyForm /\ KeysTracked
ButtonInv == PtrForm /\ ButtonForm /\ HeldWhereRecorded
WheelInv  == WheelForm /\ WheelConserves

LinuxIInv == KeyInv /\ ButtonInv /\ WheelInv /\ ClearReleases

----------------------------------------------------------------------------
(* Numbers and finite sets.                                                *)

\* A set of numbers that is not empty has a least one.
LEMMA LeastExists ==
  ASSUME NEW S \in SUBSET Nat, S # {}
  PROVE  \E x \in S : \A y \in S : x <= y
<1> DEFINE R == {ss \in Nat \X Nat : ss[1] < ss[2]}
<1>1. IsWellFoundedOn(R, Nat)
  BY NatLessThanWellFounded, Zenon DEF OpToRel
<1>2. PICK x \in S : \A y \in S : <<y, x>> \notin R
  <2> HIDE DEF R
  <2> QED BY <1>1, WFMin, Zenon
<1>3. ASSUME NEW y \in S PROVE x <= y
  <2>1. ~(<<y, x>> \in Nat \X Nat /\ <<y, x>>[1] < <<y, x>>[2])
    BY <1>2, Zenon
  <2> QED BY <2>1
<1> QED BY <1>3, Zenon

HasGreatest(S) == \E x \in S : \A y \in S : x >= y

\* A finite set of integers that is not empty has a greatest one.
LEMMA GreatestExists ==
  ASSUME NEW S \in SUBSET Int, IsFiniteSet(S), S # {}
  PROVE  HasGreatest(S)
<1> DEFINE Bad == {T \in SUBSET Int : IsFiniteSet(T) /\ T # {} /\ ~HasGreatest(T)}
           N   == {Cardinality(T) : T \in Bad}
<1>1. SUFFICES ASSUME Bad # {} PROVE FALSE
  BY Zenon
<1>2. N \in SUBSET Nat /\ N # {}
  BY <1>1, FS_CardinalityType
<1>3. PICK n \in N : \A k \in N : n <= k
  <2> HIDE DEF N
  <2> QED BY <1>2, LeastExists
<1>4. PICK T \in Bad : n = Cardinality(T)
  OBVIOUS
<1>5. PICK x \in T : TRUE
  OBVIOUS
<1>6. /\ IsFiniteSet(T \ {x}) /\ Cardinality(T \ {x}) = n - 1 /\ n \in Nat
  BY <1>4, FS_RemoveElement, FS_CardinalityType
<1>7. T \ {x} \notin Bad
  BY <1>3, <1>6
<1>8. CASE T \ {x} = {}
  BY <1>5, <1>8 DEF HasGreatest
<1>9. CASE HasGreatest(T \ {x})
  <2>1. PICK m \in T \ {x} : \A y \in T \ {x} : m >= y
    BY <1>9 DEF HasGreatest
  <2>2. CASE x >= m
    BY <2>1, <2>2 DEF HasGreatest
  <2>3. CASE m >= x
    BY <2>1, <2>3 DEF HasGreatest
  <2> QED BY <2>1, <2>2, <2>3
<1> QED BY <1>6, <1>7, <1>8, <1>9

LEMMA MaxFacts ==
  ASSUME NEW S \in SUBSET Int, IsFiniteSet(S), S # {}
  PROVE  Max(S) \in S
<1>1. \E x \in S : \A y \in S : x >= y
  BY GreatestExists DEF HasGreatest
<1> QED BY <1>1, Zenon DEF Max

\* C++ division: the remainder is less than the divisor, and the two make up the number.
LEMMA QuotRem ==
  ASSUME NEW t \in Int
  PROVE  /\ Quot(t, 120) \in Int /\ Rem(t, 120) \in -119 .. 119
         /\ t = 120 * Quot(t, 120) + Rem(t, 120)
  BY DEF Quot, Rem

----------------------------------------------------------------------------
(* The loop of clear_all_pressed_mouse_buttons.                             *)

\* The state after the buttons of S were released, given those with fewer.
OneMore(f) ==
  [S \in SUBSET DOMAIN pressed_buttons |->
     IF S = {} THEN [ptr |-> ptr, down |-> down]
     ELSE releaseInMode(f[S \ {Max(S)}], Max(S), pressed_buttons[Max(S)])]

\* The loop has one result.
LEMMA OneMoreUnique ==
  ASSUME NEW f, NEW g, f = OneMore(f), g = OneMore(g),
         DOMAIN pressed_buttons \subseteq Int, IsFiniteSet(DOMAIN pressed_buttons)
  PROVE  f[DOMAIN pressed_buttons] = g[DOMAIN pressed_buttons]
<1> DEFINE D   == DOMAIN pressed_buttons
           Bad == {S \in SUBSET D : f[S] # g[S]}
           N   == {Cardinality(S) : S \in Bad}
<1>1. SUFFICES ASSUME Bad # {} PROVE FALSE
  BY Zenon
<1>2. \A S \in SUBSET D : IsFiniteSet(S) /\ Cardinality(S) \in Nat
  BY FS_Subset, FS_CardinalityType
<1>3. N \in SUBSET Nat /\ N # {}
  BY <1>1, <1>2
<1>4. PICK n \in N : \A k \in N : n <= k
  <2> HIDE DEF N
  <2> QED BY <1>3, LeastExists
<1>5. PICK S \in Bad : n = Cardinality(S)
  OBVIOUS
<1>6. \A h : h = OneMore(h) =>
        h[S] = IF S = {} THEN [ptr |-> ptr, down |-> down]
               ELSE releaseInMode(h[S \ {Max(S)}], Max(S), pressed_buttons[Max(S)])
  BY Zenon DEF OneMore
<1>7. CASE S = {}
  BY <1>6, <1>7, Zenon
<1>8. CASE S # {}
  <2>1. Max(S) \in S
    BY <1>2, <1>8, MaxFacts
  <2>2. S \ {Max(S)} \in SUBSET D /\ Cardinality(S \ {Max(S)}) = n - 1 /\ n \in Nat
    BY <1>2, <1>5, <2>1, FS_RemoveElement
  <2>3. f[S \ {Max(S)}] = g[S \ {Max(S)}]
    BY <1>4, <2>2
  <2>4. f[S] = g[S]
    BY <1>6, <1>8, <2>3, Zenon
  <2> QED BY <2>4
<1> QED BY <1>7, <1>8

\* What is left of down, and where the pointer is, when the buttons of S were released.
DownWithout(S) == [m \in Modes |-> down[m] \ {btn \in S : pressed_buttons[btn] = m}]
PtrAfter(S) ==
  IF S = {} THEN ptr
  ELSE [mode |-> pressed_buttons[Max(S)], absolute |-> (pressed_buttons[Max(S)] = "abs"),
        absPos |-> IF \E btn \in S : pressed_buttons[btn] = "abs" THEN ptr.last_abs ELSE ptr.absPos,
        last_abs |-> ptr.last_abs]

LEMMA ReleaseOne ==
  ASSUME PtrForm, ButtonForm, LinuxInputAssumption,
         NEW S \in SUBSET DOMAIN pressed_buttons, S # {}
  PROVE  releaseInMode([ptr |-> PtrAfter(S \ {Max(S)}), down |-> DownWithout(S \ {Max(S)})],
                       Max(S), pressed_buttons[Max(S)])
           = [ptr |-> PtrAfter(S), down |-> DownWithout(S)]
<1> DEFINE x == Max(S)
           T == S \ {x}
           m == pressed_buttons[x]
<1>1. x \in S /\ m \in Modes
  <2>1. S \in SUBSET Int /\ IsFiniteSet(S)
    BY FS_Subset DEF ButtonForm, LinuxInputAssumption
  <2>2. x \in S
    BY <2>1, MaxFacts
  <2> QED BY <2>2 DEF ButtonForm
<1>2. S = T \cup {x} /\ x \notin T /\ T \subseteq S
  BY <1>1
<1> HIDE DEF x, T, m
<1>3. set_mouse_mode(PtrAfter(T), m) = PtrAfter(S)
  <2>1. PtrAfter(S) = [mode |-> m, absolute |-> (m = "abs"),
                       absPos |-> IF \E btn \in S : pressed_buttons[btn] = "abs" THEN ptr.last_abs ELSE ptr.absPos,
                       last_abs |-> ptr.last_abs]
    BY <1>1 DEF PtrAfter, x, m
  <2>2. (\E btn \in S : pressed_buttons[btn] = "abs") <=> (m = "abs" \/ \E btn \in T : pressed_buttons[btn] = "abs")
    BY <1>2 DEF m
  <2>3. /\ PtrAfter(T).last_abs = ptr.last_abs
        /\ PtrAfter(T).absPos = IF \E k \in T : pressed_buttons[k] = "abs" THEN ptr.last_abs ELSE ptr.absPos
    <3>1. CASE T = {}
      BY <3>1 DEF PtrAfter
    <3>2. CASE T # {}
      BY <3>2 DEF PtrAfter
    <3> QED BY <3>1, <3>2
  <2>4. set_mouse_mode(PtrAfter(T), m) =
          [mode |-> m, absolute |-> (m = "abs"),
           absPos |-> IF m = "abs" THEN ptr.last_abs
                      ELSE IF \E k \in T : pressed_buttons[k] = "abs" THEN ptr.last_abs ELSE ptr.absPos,
           last_abs |-> ptr.last_abs]
    BY <2>3, Zenon DEF set_mouse_mode
  <2>5. (IF m = "abs" THEN ptr.last_abs
         ELSE IF \E k \in T : pressed_buttons[k] = "abs" THEN ptr.last_abs ELSE ptr.absPos)
        = IF \E btn \in S : pressed_buttons[btn] = "abs" THEN ptr.last_abs ELSE ptr.absPos
    BY <2>2
  <2> QED BY <2>1, <2>4, <2>5, Zenon
<1>4. Device(PtrAfter(S)) = m
  BY <1>1 DEF PtrAfter, Device, x, m, Modes
<1>5. [DownWithout(T) EXCEPT ![m] = @ \ {x}] = DownWithout(S)
  BY <1>1, <1>2 DEF DownWithout, m
<1>6. releaseInMode([ptr |-> PtrAfter(T), down |-> DownWithout(T)], x, m)
        = [ptr |-> PtrAfter(S), down |-> DownWithout(S)]
  BY <1>3, <1>4, <1>5 DEF releaseInMode
<1> QED BY <1>6 DEF x, T, m

\* All recorded buttons are released, each on the device its press was recorded for.
LEMMA ClearMouseFacts ==
  ASSUME PtrForm, ButtonForm, clearMouse
  PROVE  /\ ptr' = PtrAfter(DOMAIN pressed_buttons)
         /\ down' = DownWithout(DOMAIN pressed_buttons)
<1> DEFINE D     == DOMAIN pressed_buttons
           g     == [S \in SUBSET D |-> [ptr |-> PtrAfter(S), down |-> DownWithout(S)]]
           after == CHOOSE f : f = OneMore(f)
<1>1. D \subseteq Int /\ IsFiniteSet(D)
  BY LinuxInputAssumption, FS_Subset DEF ButtonForm
<1>2. g = OneMore(g)
  <2>1. ASSUME NEW S \in SUBSET D
        PROVE  g[S] = IF S = {} THEN [ptr |-> ptr, down |-> down]
                      ELSE releaseInMode(g[S \ {Max(S)}], Max(S), pressed_buttons[Max(S)])
    <3>1. CASE S = {}
      <4>1. PtrAfter(S) = ptr /\ DownWithout(S) = down
        BY <3>1 DEF PtrAfter, DownWithout, ButtonForm
      <4> QED BY <3>1, <4>1
    <3>2. CASE S # {}
      <4>1. g[S] = [ptr |-> PtrAfter(S), down |-> DownWithout(S)]
        BY Zenon
      <4>2. S \ {Max(S)} \in SUBSET D
        OBVIOUS
      <4>3. g[S \ {Max(S)}] = [ptr |-> PtrAfter(S \ {Max(S)}), down |-> DownWithout(S \ {Max(S)})]
        BY <4>2, Zenon
      <4> HIDE DEF g
      <4> QED BY <3>2, <4>1, <4>3, ReleaseOne, LinuxInputAssumption, Zenon
    <3> QED BY <3>1, <3>2
  <2> QED BY <2>1, Zenon DEF OneMore
<1>3. after = OneMore(after)
  BY <1>2, Zenon
<1>4. after[D] = g[D]
  <2> HIDE DEF g, after
  <2> QED BY <1>1, <1>2, <1>3, OneMoreUnique
<1>5. ptr' = after[D].ptr /\ down' = after[D].down
  BY Zenon DEF clearMouse, OneMore
<1>6. g[D].ptr = PtrAfter(D) /\ g[D].down = DownWithout(D)
  OBVIOUS
<1> QED BY <1>4, <1>5, <1>6, Zenon

----------------------------------------------------------------------------
(* The steps.                                                              *)

\* A step is one call, or nothing.
LEMMA InputSteps ==
  ASSUME [Next]_vars
  PROVE  \/ \E vk \in Vks, isDown \in BOOLEAN : KeyPress(vk, isDown)
         \/ mouseMoveR
         \/ \E p \in Positions : mouseMoveA(p)
         \/ \E btn \in Buttons, isDown \in BOOLEAN : mousePress(btn, isDown)
         \/ \E dx, dy \in Deltas : mouseScroll(dx, dy)
         \/ clearAllPressedEvents
         \/ UNCHANGED vars
  BY Zenon DEF Next

MouseCalls == {"move", "button", "scroll"}

\* Calls of the mouse leave the keyboard alone and answer for themselves.
LEMMA MouseFrame ==
  ASSUME \/ mouseMoveR
         \/ \E p \in Positions : mouseMoveA(p)
         \/ \E btn \in Buttons, isDown \in BOOLEAN : mousePress(btn, isDown)
         \/ \E dx, dy \in Deltas : mouseScroll(dx, dy)
  PROVE  UNCHANGED keyVars /\ \E c \in MouseCalls, ok \in BOOLEAN : answer' = <<c, ok>>
<1>1. "move" \in MouseCalls /\ "button" \in MouseCalls /\ "scroll" \in MouseCalls
  BY DEF MouseCalls
<1> QED
  BY <1>1, Zenon DEF mouseMoveR, mouseMoveA, mousePress, mouseScroll, WithMouse, Return

\* A key is written, or not, and then shown, or not.
LEMMA SendKeeps ==
  ASSUME KeyInv, NEW code \in Codes, NEW isDown \in BOOLEAN, NEW key \in BOOLEAN, NEW sync \in BOOLEAN,
         sendOpen([kbd EXCEPT !.device = TRUE], code, isDown, key, sync)
  PROVE  KeyInv' /\ \E ok \in BOOLEAN : answer' = <<"key", ok>>
<1> DEFINE k == [kbd EXCEPT !.device = TRUE]
           w == IF isDown THEN kbd.pressed \cup {code} ELSE kbd.pressed \ {code}
<1>1. /\ k \in Keyboards /\ k.device = TRUE /\ k.pressed = kbd.pressed
      /\ k.sync_pending = kbd.sync_pending /\ kbd.pressed \subseteq Codes
  BY DEF KeyInv, KeyForm, Keyboards
<1> HIDE DEF k
<1>2. ASSUME NEW q \in Keyboards, NEW P \in SUBSET Codes
      PROVE  /\ [q EXCEPT !.pressed = P] \in Keyboards
             /\ [q EXCEPT !.pressed = P].pressed = P
             /\ [q EXCEPT !.pressed = P].device = q.device
             /\ [q EXCEPT !.pressed = P].sync_pending = q.sync_pending
  BY DEF Keyboards
<1>3. ASSUME NEW q \in Keyboards, NEW z \in BOOLEAN
      PROVE  /\ [q EXCEPT !.sync_pending = z] \in Keyboards
             /\ [q EXCEPT !.sync_pending = z].pressed = q.pressed
             /\ [q EXCEPT !.sync_pending = z].device = q.device
             /\ [q EXCEPT !.sync_pending = z].sync_pending = z
  BY DEF Keyboards
<1>4. ASSUME NEW q \in Keyboards
      PROVE  /\ synchronize(q, sync) \in Keyboards /\ synchronize(q, sync).pressed = q.pressed
             /\ synchronize(q, sync).device = q.device
             /\ synchronize(q, sync).sync_pending = ~sync
  BY <1>3 DEF synchronize
<1>5. CASE isDown = (code \in k.pressed)
  <2>1. kernel' = kernel
    BY <1>5, Zenon DEF sendOpen, k
  <2>2. CASE k.sync_pending
    <3>1. kbd' = synchronize(k, sync) /\ (seen' = IF sync THEN kernel ELSE seen) /\ answer' = <<"key", sync>>
      BY <1>5, <2>1, <2>2, Zenon DEF sendOpen, k, resend, Shown, Return
    <3>2. kbd' \in Keyboards /\ kbd'.pressed = kbd.pressed /\ kbd'.device = TRUE /\ kbd'.sync_pending = ~sync
      BY <1>1, <1>4, <3>1
    <3>3. CASE sync = TRUE
      BY <2>1, <3>1, <3>2, <3>3 DEF KeyInv, KeyForm, KeysTracked
    <3>4. CASE sync = FALSE
      BY <2>1, <3>1, <3>2, <3>4 DEF KeyInv, KeyForm, KeysTracked
    <3> QED BY <3>3, <3>4
  <2>3. CASE ~k.sync_pending
    <3>1. kbd' = k /\ seen' = seen /\ answer' = <<"key", TRUE>>
      BY <1>5, <2>3, Zenon DEF sendOpen, k, resend, Return
    <3> QED
      BY <1>1, <2>1, <2>3, <3>1 DEF KeyInv, KeyForm, KeysTracked
  <2> QED BY <2>2, <2>3
<1>6. CASE isDown # (code \in k.pressed)
  <2>1. CASE key = TRUE
    <3>1. /\ kernel' = IF isDown THEN kernel \cup {code} ELSE kernel \ {code}
          /\ kbd' = synchronize([k EXCEPT !.pressed = IF isDown THEN k.pressed \cup {code} ELSE k.pressed \ {code}], sync)
          /\ seen' = IF sync THEN kernel' ELSE seen
          /\ answer' = <<"key", sync>>
      <4>1. (key /\ sync) = sync
        BY <2>1
      <4> QED
        BY <1>6, <2>1, <4>1, Zenon DEF sendOpen, k, writeKey, Shown, Return
    <3>2. w \in SUBSET Codes /\ kernel' = w
      BY <1>1, <3>1 DEF KeyInv, KeysTracked
    <3>3. [k EXCEPT !.pressed = IF isDown THEN k.pressed \cup {code} ELSE k.pressed \ {code}] = [k EXCEPT !.pressed = w]
      BY <1>1, Zenon
    <3> HIDE DEF w
    <3>4. kbd' \in Keyboards /\ kbd'.pressed = w /\ kbd'.device = TRUE /\ kbd'.sync_pending = ~sync
      <4> DEFINE q == [k EXCEPT !.pressed = w]
      <4>1. q \in Keyboards /\ q.pressed = w /\ q.device = TRUE
        BY <1>1, <1>2, <3>2
      <4>2. kbd' = synchronize(q, sync)
        BY <3>1, <3>3, Zenon
      <4> HIDE DEF q
      <4> QED BY <1>4, <4>1, <4>2
    <3>5. CASE sync = TRUE
      BY <3>1, <3>2, <3>4, <3>5 DEF KeyInv, KeyForm, KeysTracked
    <3>6. CASE sync = FALSE
      BY <3>1, <3>2, <3>4, <3>6 DEF KeyInv, KeyForm, KeysTracked
    <3> QED BY <3>5, <3>6
  <2>2. CASE key = FALSE
    <3>1. kernel' = kernel /\ kbd' = k /\ seen' = seen /\ answer' = <<"key", FALSE>>
      <4>1. (key /\ sync) = FALSE
        BY <2>2
      <4> QED
        BY <1>6, <2>2, <4>1, Zenon DEF sendOpen, k, writeKey, Shown, Return
    <3> QED
      BY <1>1, <3>1 DEF KeyInv, KeyForm, KeysTracked
  <2> QED BY <2>1, <2>2
<1> QED BY <1>5, <1>6

LEMMA KeyStart ==
  ASSUME Init
  PROVE  KeyInv
  BY DEF Init, KeyInv, KeyForm, Keyboards, KeysTracked

\* LinuxKeyboard never loses track of the device.
LEMMA KeyStep ==
  ASSUME KeyInv, [Next]_vars
  PROVE  KeyInv'
<1>1. ASSUME NEW vk \in Vks, NEW isDown \in BOOLEAN, KeyPress(vk, isDown) PROVE KeyInv'
  <2>1. CASE UNCHANGED keyVars /\ answer' = <<"key", FALSE>>
    BY <2>1 DEF KeyInv, KeyForm, KeysTracked, keyVars
  <2>2. KeyCode[vk] \in Codes
    BY LinuxInputAssumption
  <2> QED
    BY <1>1, <2>1, <2>2, SendKeeps, Zenon DEF KeyPress, Return
<1>2. CASE clearAllPressedEvents
  <2>1. PICK failed \in SUBSET kbd.pressed, sync \in BOOLEAN :
          clearKeyboard(failed, sync) /\ \E ok \in BOOLEAN : answer' = <<"clear", ok>>
    BY <1>2, Zenon DEF clearAllPressedEvents, Return
  <2>a. answer' # <<"key", TRUE>>
    BY <2>1
  <2>2. kernel' = failed /\ failed \subseteq Codes
    BY <2>1 DEF clearKeyboard, KeyInv, KeyForm, KeysTracked, Keyboards
  <2>3. CASE kbd.device
    <3>1. kbd' = [[kbd EXCEPT !.pressed = failed] EXCEPT !.sync_pending = ~sync]
      BY <2>1, <2>3 DEF clearKeyboard, synchronize
    <3>2. seen' = IF sync THEN failed ELSE seen
      BY <2>1, <2>2, <2>3, Zenon DEF clearKeyboard, Shown
    <3>3. kbd' \in Keyboards /\ kbd'.pressed = failed /\ kbd'.sync_pending = ~sync /\ kbd'.device = kbd.device
      <4> DEFINE q == [kbd EXCEPT !.pressed = failed]
      <4>1. q \in Keyboards /\ q.pressed = failed /\ q.device = kbd.device
        BY <2>2 DEF KeyInv, KeyForm, Keyboards
      <4>2. kbd' = [q EXCEPT !.sync_pending = ~sync]
        BY <3>1
      <4> HIDE DEF q
      <4> QED BY <4>1, <4>2 DEF Keyboards
    <3>4. CASE sync = TRUE
      BY <2>a, <2>2, <2>3, <3>2, <3>3, <3>4 DEF KeyInv, KeyForm, KeysTracked
    <3>5. CASE sync = FALSE
      BY <2>a, <2>2, <2>3, <3>2, <3>3, <3>5 DEF KeyInv, KeyForm, KeysTracked
    <3> QED BY <3>4, <3>5
  <2>4. CASE ~kbd.device
    BY <2>a, <2>1, <2>2, <2>4 DEF clearKeyboard, KeyInv, KeyForm, KeysTracked
  <2> QED BY <2>3, <2>4
<1>3. CASE UNCHANGED vars
  BY <1>3 DEF KeyInv, KeyForm, KeysTracked, keyVars, vars
<1>4. ASSUME UNCHANGED keyVars, NEW c \in MouseCalls, NEW ok \in BOOLEAN, answer' = <<c, ok>> PROVE KeyInv'
  <2>1. answer' # <<"key", TRUE>>
    BY <1>4 DEF MouseCalls
  <2> QED
    BY <1>4, <2>1 DEF KeyInv, KeyForm, KeysTracked, keyVars
<1> QED
  BY <1>1, <1>2, <1>3, <1>4, InputSteps, MouseFrame, Zenon

LEMMA ButtonStart ==
  ASSUME Init
  PROVE  ButtonInv
<1>1. PtrForm
  <2>1. mouseReady \in BOOLEAN
    BY Zenon DEF Init
  <2>2. ptr \in Pointers /\ Device(ptr) = ptr.mode
    BY DEF Init, Pointers, Device, Modes
  <2> QED BY <2>1, <2>2 DEF PtrForm
<1>2. ButtonForm /\ HeldWhereRecorded
  BY DEF Init, ButtonForm, HeldWhereRecorded
<1> QED BY <1>1, <1>2 DEF ButtonInv

\* A pointer in a mode is a pointer on the device of that mode.
LEMMA SelectedDevice ==
  ASSUME NEW p \in Pointers, NEW m \in Modes
  PROVE  /\ set_mouse_mode(p, m) \in Pointers /\ set_mouse_mode(p, m).mode = m
         /\ Device(set_mouse_mode(p, m)) = m
<1>1. set_mouse_mode(p, m).mode = m /\ Device(set_mouse_mode(p, m)) = m
  BY DEF set_mouse_mode, Device, Modes
<1>2. ASSUME NEW z \in BOOLEAN, NEW a \in Positions \cup {Origin}, NEW l \in Positions \cup {Origin}
      PROVE  [absolute |-> z, mode |-> m, last_abs |-> l, absPos |-> a] \in Pointers
  BY DEF Pointers
<1>3. p.last_abs \in Positions \cup {Origin} /\ (IF m = "abs" THEN p.last_abs ELSE p.absPos) \in Positions \cup {Origin}
  BY DEF Pointers
<1>4. (m = "abs") \in BOOLEAN
  OBVIOUS
<1>5. set_mouse_mode(p, m) \in Pointers
  BY <1>2, <1>3, <1>4, Zenon DEF set_mouse_mode
<1> QED BY <1>1, <1>5

LEMMA ReleasedInMode ==
  ASSUME ptr \in Pointers, NEW btn \in Buttons, NEW m \in Modes
  PROVE  /\ releaseInMode([ptr |-> ptr, down |-> down], btn, m).ptr = set_mouse_mode(ptr, m)
         /\ releaseInMode([ptr |-> ptr, down |-> down], btn, m).down = [down EXCEPT ![m] = @ \ {btn}]
<1> DEFINE q == set_mouse_mode(ptr, m)
<1>1. Device(q) = m
  BY SelectedDevice
<1>2. \A x, y : [ptr |-> x, down |-> y].ptr = x /\ [ptr |-> x, down |-> y].down = y
  OBVIOUS
<1>3. releaseInMode([ptr |-> ptr, down |-> down], btn, m)
        = [ptr |-> q, down |-> [down EXCEPT ![Device(q)] = @ \ {btn}]]
  BY <1>2, Zenon DEF releaseInMode
<1> HIDE DEF q
<1>4. releaseInMode([ptr |-> ptr, down |-> down], btn, m) = [ptr |-> q, down |-> [down EXCEPT ![m] = @ \ {btn}]]
  BY <1>1, <1>3, Zenon
<1>5. releaseInMode([ptr |-> ptr, down |-> down], btn, m).ptr = q
  BY <1>2, <1>4
<1>6. releaseInMode([ptr |-> ptr, down |-> down], btn, m).down = [down EXCEPT ![m] = @ \ {btn}]
  BY <1>2, <1>4, ZenonT(60)
<1> QED BY <1>5, <1>6 DEF q

LEMMA DeviceOf ==
  ASSUME NEW q, NEW m \in Modes, q.mode = m, q.absolute = (m = "abs")
  PROVE  Device(q) = q.mode
<1>1. CASE m = "abs"
  BY <1>1 DEF Device
<1>2. CASE m = "rel"
  BY <1>2 DEF Device
<1> QED BY <1>1, <1>2 DEF Modes

\* A press is recorded for the device it goes to.
LEMMA PressKeeps ==
  ASSUME ButtonInv, NEW btn \in Buttons, pressButton(btn), mouseReady' \in BOOLEAN
  PROVE  ButtonInv'
<1>1. ptr' = ptr /\ Device(ptr) = ptr.mode /\ ptr.mode \in Modes
  BY DEF pressButton, ButtonInv, PtrForm, Pointers
<1>2. /\ DOMAIN pressed_buttons' = DOMAIN pressed_buttons \cup {btn} /\ pressed_buttons'[btn] = ptr.mode
      /\ \A x \in DOMAIN pressed_buttons : x # btn => pressed_buttons'[x] = pressed_buttons[x]
  BY DEF pressButton
<1>3. down' = [down EXCEPT ![ptr.mode] = @ \cup {btn}]
  BY <1>1 DEF pressButton
<1>4. PtrForm'
  BY <1>1 DEF ButtonInv, PtrForm
<1>5. ButtonForm'
  BY <1>1, <1>2, <1>3 DEF ButtonInv, ButtonForm
<1>6. HeldWhereRecorded'
  <2>1. ASSUME NEW m \in Modes, NEW x \in down'[m]
        PROVE  (x \in DOMAIN pressed_buttons' /\ pressed_buttons'[x] = m) \/ <<x, m>> \in rebound'
    <3>1. CASE x = btn /\ m = ptr.mode
      BY <1>2, <3>1
    <3>2. CASE x \in down[m] /\ (x # btn \/ m # ptr.mode)
      <4>1. (x \in DOMAIN pressed_buttons /\ pressed_buttons[x] = m) \/ <<x, m>> \in rebound
        BY <3>2 DEF ButtonInv, HeldWhereRecorded, recorded
      <4>2. rebound' = IF btn \in DOMAIN pressed_buttons /\ pressed_buttons[btn] # ptr.mode
                         THEN rebound \cup {<<btn, pressed_buttons[btn]>>} ELSE rebound
        BY DEF pressButton, recorded
      <4> QED
        BY <1>2, <3>2, <4>1, <4>2
    <3> QED
      BY <1>1, <1>3, <2>1, <3>1, <3>2 DEF ButtonInv, ButtonForm
  <2> QED
    BY <2>1 DEF HeldWhereRecorded, recorded
<1> QED BY <1>4, <1>5, <1>6 DEF ButtonInv

\* A release goes to the device the press was recorded for.
LEMMA ReleaseKeeps ==
  ASSUME ButtonInv, NEW btn \in Buttons, releaseButton(btn), mouseReady' \in BOOLEAN
  PROVE  ButtonInv'
<1> DEFINE m == IF recorded(btn) THEN pressed_buttons[btn] ELSE Device(ptr)
<1>1. ptr \in Pointers /\ m \in Modes /\ down \in [Modes -> SUBSET Buttons]
  BY DEF ButtonInv, PtrForm, ButtonForm, recorded, Device, Modes
<1>2. pressed_buttons' = Restrict(pressed_buttons, DOMAIN pressed_buttons \ {btn}) /\ rebound' = rebound \ {<<btn, m>>}
  BY Zenon DEF releaseButton, Unbound
<1>3. ptr' \in Pointers /\ Device(ptr') = ptr'.mode /\ down' = [down EXCEPT ![m] = @ \ {btn}]
  <2>1. CASE recorded(btn)
    <3>1. ptr' = releaseInMode([ptr |-> ptr, down |-> down], btn, m).ptr
      BY <2>1, Zenon DEF releaseButton
    <3>2. down' = releaseInMode([ptr |-> ptr, down |-> down], btn, m).down
      BY <2>1, Zenon DEF releaseButton
    <3> HIDE DEF m
    <3>3. ptr' = set_mouse_mode(ptr, m) /\ down' = [down EXCEPT ![m] = @ \ {btn}]
      <4>1. /\ releaseInMode([ptr |-> ptr, down |-> down], btn, m).ptr = set_mouse_mode(ptr, m)
            /\ releaseInMode([ptr |-> ptr, down |-> down], btn, m).down = [down EXCEPT ![m] = @ \ {btn}]
        BY <1>1, ReleasedInMode
      <4> QED BY <3>1, <3>2, <4>1
    <3> QED
      BY <1>1, <3>3, SelectedDevice
  <2>2. CASE ~recorded(btn)
    <3> DEFINE st == [ptr |-> ptr, down |-> down]
    <3>1. ptr' = [st EXCEPT !.down[m] = @ \ {btn}].ptr /\ down' = [st EXCEPT !.down[m] = @ \ {btn}].down
      BY <2>2, Zenon DEF releaseButton
    <3> HIDE DEF m
    <3>2. ptr' = ptr /\ down' = [down EXCEPT ![m] = @ \ {btn}]
      BY <3>1
    <3> QED
      BY <3>2 DEF ButtonInv, PtrForm
  <2> QED BY <2>1, <2>2
<1>4. PtrForm'
  BY <1>3 DEF PtrForm
<1>5. /\ DOMAIN pressed_buttons' = DOMAIN pressed_buttons \ {btn}
      /\ \A x \in DOMAIN pressed_buttons : x # btn => pressed_buttons'[x] = pressed_buttons[x]
  BY <1>2 DEF Restrict
<1>6. recorded(btn) => m = pressed_buttons[btn]
  OBVIOUS
<1> HIDE DEF m
<1>7. ButtonForm'
  BY <1>1, <1>3, <1>5 DEF ButtonInv, ButtonForm
<1>8. HeldWhereRecorded'
  <2>1. ASSUME NEW d \in Modes, NEW x \in down'[d]
        PROVE  (x \in DOMAIN pressed_buttons' /\ pressed_buttons'[x] = d) \/ <<x, d>> \in rebound'
    <3>1. x \in down[d] /\ (x # btn \/ d # m)
      BY <1>1, <1>3, <2>1
    <3>2. (x \in DOMAIN pressed_buttons /\ pressed_buttons[x] = d) \/ <<x, d>> \in rebound
      BY <3>1 DEF ButtonInv, HeldWhereRecorded, recorded
    <3> QED
      BY <1>2, <1>5, <1>6, <3>1, <3>2 DEF recorded
  <2> QED BY <2>1 DEF HeldWhereRecorded, recorded
<1> QED BY <1>4, <1>7, <1>8 DEF ButtonInv

\* A clear releases every recorded button on its device.
LEMMA ClearKeeps ==
  ASSUME ButtonInv, clearMouse
  PROVE  ButtonInv' /\ DOMAIN pressed_buttons' = {}
<1> DEFINE D == DOMAIN pressed_buttons
<1>1. /\ ptr' = PtrAfter(D) /\ down' = DownWithout(D)
      /\ mouseReady' = mouseReady /\ pressed_buttons' = <<>>
      /\ rebound' = {x \in rebound : ~recorded(x[1]) \/ pressed_buttons[x[1]] # x[2]}
  <2>1. PtrForm /\ ButtonForm
    BY DEF ButtonInv
  <2> QED BY <2>1, ClearMouseFacts DEF clearMouse
<1>2. PtrAfter(D) \in Pointers /\ Device(PtrAfter(D)) = PtrAfter(D).mode
  <2>1. CASE D = {}
    BY <2>1 DEF PtrAfter, ButtonInv, PtrForm
  <2>2. CASE D # {}
    <3> DEFINE m == pressed_buttons[Max(D)]
    <3>1. D \in SUBSET Int /\ IsFiniteSet(D)
      BY FS_Subset, LinuxInputAssumption DEF ButtonForm, ButtonInv
    <3>2. Max(D) \in D
      BY <2>2, <3>1, MaxFacts
    <3>3. m \in Modes
      BY <3>2 DEF ButtonInv, ButtonForm
    <3> HIDE DEF m
    <3>4. PtrAfter(D) = [mode |-> m, absolute |-> (m = "abs"),
             absPos |-> IF \E btn \in D : pressed_buttons[btn] = "abs" THEN ptr.last_abs ELSE ptr.absPos,
             last_abs |-> ptr.last_abs]
      BY <2>2, Zenon DEF PtrAfter, m
    <3>5. ASSUME NEW z \in BOOLEAN, NEW a \in Positions \cup {Origin}, NEW l \in Positions \cup {Origin}
          PROVE  [mode |-> m, absolute |-> z, absPos |-> a, last_abs |-> l] \in Pointers
      BY <3>3 DEF Pointers
    <3>6. /\ ptr.last_abs \in Positions \cup {Origin}
          /\ (IF \E btn \in D : pressed_buttons[btn] = "abs" THEN ptr.last_abs ELSE ptr.absPos) \in Positions \cup {Origin}
      BY DEF ButtonInv, PtrForm, Pointers
    <3>7. (m = "abs") \in BOOLEAN
      OBVIOUS
    <3>8. PtrAfter(D) \in Pointers
      BY <3>4, <3>5, <3>6, <3>7, Zenon
    <3>9. Device(PtrAfter(D)) = PtrAfter(D).mode
      <4>2. PtrAfter(D).mode = m /\ PtrAfter(D).absolute = (m = "abs")
        <5> DEFINE A == IF \E btn \in D : pressed_buttons[btn] = "abs" THEN ptr.last_abs ELSE ptr.absPos
                   Z == (m = "abs")
                   L == ptr.last_abs
        <5>1. PtrAfter(D) = [mode |-> m, absolute |-> Z, absPos |-> A, last_abs |-> L]
          BY <3>4
        <5> HIDE DEF A, Z, L
        <5>2. PtrAfter(D).mode = m
          BY <5>1
        <5>3. PtrAfter(D).absolute = Z
          BY <5>1
        <5> QED BY <5>2, <5>3 DEF Z
      <4> QED BY <3>3, <4>2, DeviceOf
    <3> QED BY <3>8, <3>9
  <2> QED BY <2>1, <2>2
<1>3. PtrForm'
  BY <1>1, <1>2 DEF ButtonInv, PtrForm
<1>4. ButtonForm' /\ DOMAIN pressed_buttons' = {}
  BY <1>1 DEF ButtonInv, ButtonForm, DownWithout
<1>5. HeldWhereRecorded'
  <2>1. ASSUME NEW m \in Modes, NEW x \in down'[m] PROVE <<x, m>> \in rebound'
    <3>1. x \in down[m] /\ ~(x \in D /\ pressed_buttons[x] = m)
      BY <1>1, <2>1 DEF DownWithout
    <3>2. <<x, m>> \in rebound
      BY <3>1 DEF ButtonInv, HeldWhereRecorded, recorded
    <3> QED
      BY <1>1, <3>1, <3>2 DEF recorded
  <2> QED BY <2>1 DEF HeldWhereRecorded
<1> QED BY <1>3, <1>4, <1>5 DEF ButtonInv

LEMMA ButtonFrame ==
  ASSUME ButtonInv, UNCHANGED buttonVars, PtrForm'
  PROVE  ButtonInv'
  BY DEF ButtonInv, buttonVars, ButtonForm, HeldWhereRecorded, recorded

LEMMA MouseUnchanged ==
  ASSUME ButtonInv, UNCHANGED mouseVars
  PROVE  ButtonInv'
<1>1. UNCHANGED buttonVars
  BY Zenon DEF mouseVars
<1>2. PtrForm'
  BY DEF ButtonInv, PtrForm, mouseVars
<1> QED BY <1>1, <1>2, ButtonFrame

LEMMA ButtonStep ==
  ASSUME ButtonInv, [Next]_vars
  PROVE  ButtonInv'
<1>1. CASE mouseMoveR
  <2>1. CASE UNCHANGED mouseVars
    BY <2>1, MouseUnchanged
  <2>2. CASE mouseReady' = TRUE /\ ptr' = [ptr EXCEPT !.absolute = FALSE, !.mode = "rel"] /\ UNCHANGED buttonVars
    <3>1. ptr' \in Pointers /\ ptr'.mode = "rel" /\ ptr'.absolute = FALSE
      BY <2>2 DEF ButtonInv, PtrForm, Pointers, Modes
    <3>2. PtrForm'
      BY <2>2, <3>1 DEF PtrForm, Device
    <3> QED BY <2>2, <3>2, ButtonFrame
  <2> QED BY <1>1, <2>1, <2>2, Zenon DEF mouseMoveR, WithMouse
<1>2. ASSUME NEW p \in Positions, mouseMoveA(p) PROVE ButtonInv'
  <2>1. CASE UNCHANGED mouseVars
    BY <2>1, MouseUnchanged
  <2>2. UNCHANGED buttonVars
    BY <1>2, Zenon DEF mouseMoveA
  <2>3. CASE mouseReady' = TRUE /\ ptr' = [absolute |-> TRUE, mode |-> "abs", absPos |-> p, last_abs |-> p]
    <3>1. ptr' \in Pointers /\ ptr'.mode = "abs" /\ ptr'.absolute = TRUE
      BY <2>3 DEF Pointers, Modes
    <3>2. PtrForm'
      BY <2>3, <3>1 DEF PtrForm, Device
    <3> QED BY <2>2, <3>2, ButtonFrame
  <2>4. CASE mouseReady' = TRUE /\ UNCHANGED ptr
    <3>1. PtrForm'
      BY <2>4 DEF ButtonInv, PtrForm
    <3> QED BY <2>2, <3>1, ButtonFrame
  <2> QED BY <1>2, <2>1, <2>3, <2>4, Zenon DEF mouseMoveA, WithMouse
<1>3. ASSUME NEW btn \in Buttons, NEW isDown \in BOOLEAN, mousePress(btn, isDown) PROVE ButtonInv'
  <2>1. CASE UNCHANGED mouseVars
    BY <2>1, MouseUnchanged
  <2>2. CASE mouseReady' = TRUE /\ pressButton(btn)
    BY <2>2, PressKeeps
  <2>3. CASE mouseReady' = TRUE /\ releaseButton(btn)
    BY <2>3, ReleaseKeeps
  <2> QED BY <1>3, <2>1, <2>2, <2>3, Zenon DEF mousePress, WithMouse
<1>4. ASSUME NEW dx \in Deltas, NEW dy \in Deltas, mouseScroll(dx, dy) PROVE ButtonInv'
  <2>1. CASE UNCHANGED mouseVars
    BY <2>1, MouseUnchanged
  <2>2. CASE mouseReady' = TRUE /\ UNCHANGED <<ptr, buttonVars>>
    <3>1. PtrForm'
      BY <2>2 DEF ButtonInv, PtrForm
    <3> QED BY <2>2, <3>1, ButtonFrame
  <2> QED BY <1>4, <2>1, <2>2, Zenon DEF mouseScroll, WithMouse
<1>5. CASE clearAllPressedEvents
  <2>1. CASE UNCHANGED mouseVars
    BY <2>1, MouseUnchanged
  <2>2. CASE clearMouse
    BY <2>2, ClearKeeps
  <2> QED BY <1>5, <2>1, <2>2, Zenon DEF clearAllPressedEvents
<1>6. CASE UNCHANGED mouseVars
  BY <1>6, MouseUnchanged
<1> QED BY <1>1, <1>2, <1>3, <1>4, <1>5, <1>6, InputSteps, Zenon DEF KeyPress, vars

----------------------------------------------------------------------------
(* The wheel.                                                              *)

LEMMA WheelStart ==
  ASSUME Init
  PROVE  WheelInv
<1> DEFINE zero == [m \in Modes |-> [a \in Axes |-> 0]]
<1>1. wheel = [remainder |-> zero, hires |-> zero, detents |-> zero]
  BY Zenon DEF Init
<1>2. zero \in Units /\ \A m \in Modes, a \in Axes : zero[m][a] = 0
  BY DEF Units
<1> HIDE DEF zero
<1> QED BY <1>1, <1>2 DEF WheelInv, WheelForm, WheelConserves

Wheels == [remainder : Units, hires : Units, detents : Units]

\* What WheelInv says of a wheel.
Balanced(wh) ==
  /\ wh \in Wheels
  /\ \A m \in Modes, a \in Axes :
       /\ wh.remainder[m][a] \in -119 .. 119
       /\ wh.hires[m][a] = 120 * wh.detents[m][a] + wh.remainder[m][a]

LEMMA WheelIsBalanced ==
  WheelInv <=> Balanced(wheel)
  BY DEF WheelInv, Balanced, WheelForm, WheelConserves, Wheels

\* One value of one device and axis is replaced.
LEMMA UnitSet ==
  ASSUME NEW u \in Units, NEW m \in Modes, NEW a \in Axes, NEW v \in Int
  PROVE  /\ [u EXCEPT ![m][a] = v] \in Units
         /\ \A n \in Modes, x \in Axes :
              [u EXCEPT ![m][a] = v][n][x] = IF n = m /\ x = a THEN v ELSE u[n][x]
  BY DEF Units

\* A scroll keeps the account, by what division leaves.
LEMMA ScrollKeeps ==
  ASSUME NEW wh, Balanced(wh), NEW m \in Modes, NEW a \in Axes, NEW distance \in Int
  PROVE  Balanced(Scroll(wh, m, a, distance))
<1> DEFINE total == wh.remainder[m][a] + distance
           R == [wh.remainder EXCEPT ![m][a] = Rem(total, 120)]
           T == [wh.detents EXCEPT ![m][a] = @ + Quot(total, 120)]
           H == [wh.hires EXCEPT ![m][a] = @ + distance]
<1>1. /\ wh.remainder \in Units /\ wh.detents \in Units /\ wh.hires \in Units
      /\ \A n \in Modes, x \in Axes : /\ wh.remainder[n][x] \in -119 .. 119 /\ wh.detents[n][x] \in Int
                                      /\ wh.hires[n][x] \in Int
                                      /\ wh.hires[n][x] = 120 * wh.detents[n][x] + wh.remainder[n][x]
  BY DEF Balanced, Wheels, Units
<1>2. total \in Int
  <2>1. wh.remainder[m][a] \in -119 .. 119
    BY <1>1
  <2> QED BY <2>1
<1>3. Quot(total, 120) \in Int /\ Rem(total, 120) \in -119 .. 119 /\ total = 120 * Quot(total, 120) + Rem(total, 120)
  <2> HIDE DEF total
  <2> QED BY <1>2, QuotRem
<1>4. Scroll(wh, m, a, distance) = [remainder |-> R, detents |-> T, hires |-> H]
  BY Zenon DEF Scroll
<1> DEFINE q == Quot(total, 120)
           r == Rem(total, 120)
<1>5. /\ R \in Units
      /\ \A n \in Modes, x \in Axes : R[n][x] = IF n = m /\ x = a THEN r ELSE wh.remainder[n][x]
  <2>1. r \in Int
    BY <1>3
  <2> HIDE DEF r
  <2> QED BY <1>1, <2>1, UnitSet DEF r
<1>6. /\ T \in Units
      /\ \A n \in Modes, x \in Axes : T[n][x] = IF n = m /\ x = a THEN wh.detents[m][a] + q ELSE wh.detents[n][x]
  <2>1. wh.detents[m][a] + q \in Int
    BY <1>1, <1>3
  <2> HIDE DEF q
  <2> QED BY <1>1, <2>1, UnitSet DEF q
<1>7. /\ H \in Units
      /\ \A n \in Modes, x \in Axes : H[n][x] = IF n = m /\ x = a THEN wh.hires[m][a] + distance ELSE wh.hires[n][x]
  <2> DEFINE h == wh.hires[m][a] + distance
  <2>1. h \in Int
    <3>1. wh.hires[m][a] \in Int
      BY <1>1
    <3> QED BY <3>1
  <2>2. H = [wh.hires EXCEPT ![m][a] = h]
    BY Zenon
  <2> HIDE DEF h, H
  <2>3. /\ H \in Units
        /\ \A n \in Modes, x \in Axes : H[n][x] = IF n = m /\ x = a THEN h ELSE wh.hires[n][x]
    BY <1>1, <2>1, <2>2, UnitSet
  <2> QED BY <2>3, Zenon DEF h
<1>8. r \in -119 .. 119 /\ q \in Int /\ wh.remainder[m][a] + distance = 120 * q + r
  BY <1>3
<1> HIDE DEF total, q, r, R, T, H
<1>9. ASSUME NEW n \in Modes, NEW x \in Axes
      PROVE  R[n][x] \in -119 .. 119 /\ H[n][x] = 120 * T[n][x] + R[n][x]
  <2>1. CASE n = m /\ x = a
    <3> DEFINE h == wh.hires[m][a]
               t == wh.detents[m][a]
               o == wh.remainder[m][a]
    <3>1. h \in Int /\ t \in Int /\ o \in -119 .. 119 /\ h = 120 * t + o
      BY <1>1
    <3>2. R[n][x] = r /\ T[n][x] = t + q /\ H[n][x] = h + distance
      BY <1>5, <1>6, <1>7, <2>1
    <3>3. o + distance = 120 * q + r
      BY <1>8
    <3> HIDE DEF h, t, o
    <3>4. h + distance = 120 * (t + q) + r
      BY <1>8, <3>1, <3>3
    <3> QED BY <1>8, <3>2, <3>4
  <2>2. CASE ~(n = m /\ x = a)
    BY <1>1, <1>5, <1>6, <1>7, <2>2
  <2> QED BY <2>1, <2>2
<1> QED BY <1>4, <1>5, <1>6, <1>7, <1>9 DEF Balanced, Wheels

LEMMA DistanceIsWhole ==
  ASSUME NEW delta \in Deltas, NEW invert \in BOOLEAN
  PROVE  logical_scroll_to_linux_wheel(delta, invert) \in Int
<1>1. delta = NotFinite \/ delta \in Int
  BY LinuxInputAssumption
<1>2. \A c \in Int : Quot(c + (IF c < 0 THEN -1 ELSE 1), 2) \in Int
  BY DEF Quot
<1>3. CASE delta \in Int
  <2> DEFINE d == IF invert THEN -delta ELSE delta
             c == IF d > 2 * MaxWheel THEN 2 * MaxWheel ELSE IF d < -2 * MaxWheel THEN -2 * MaxWheel ELSE d
  <2>1. c \in Int
    BY <1>3, LinuxInputAssumption
  <2>2. logical_scroll_to_linux_wheel(delta, invert) = IF delta = NotFinite THEN 0 ELSE Quot(c + (IF c < 0 THEN -1 ELSE 1), 2)
    BY Zenon DEF logical_scroll_to_linux_wheel
  <2> HIDE DEF c
  <2> QED BY <1>2, <2>1, <2>2
<1>4. CASE delta = NotFinite
  BY <1>4 DEF logical_scroll_to_linux_wheel
<1> QED BY <1>1, <1>3, <1>4

LEMMA WheelStep ==
  ASSUME WheelInv, ButtonInv, [Next]_vars
  PROVE  WheelInv'
<1>1. Balanced(wheel)
  BY WheelIsBalanced
<1>2. ASSUME NEW dx \in Deltas, NEW dy \in Deltas, mouseScroll(dx, dy), wheel' # wheel PROVE Balanced(wheel')
  <2> DEFINE m == Device(ptr)
             y == logical_scroll_to_linux_wheel(dy, TRUE)
             x == logical_scroll_to_linux_wheel(dx, FALSE)
  <2>1. m \in Modes
    BY DEF ButtonInv, PtrForm, Pointers
  <2>2. x \in Int /\ y \in Int
    BY DistanceIsWhole
  <2>3. wheel' = Scroll(Scroll(wheel, m, "v", y), m, "h", x)
    BY <1>2, Zenon DEF mouseScroll, WithMouse
  <2> HIDE DEF m, x, y
  <2>4. "v" \in Axes /\ "h" \in Axes
    BY DEF Axes
  <2>5. Balanced(Scroll(wheel, m, "v", y))
    BY <1>1, <2>1, <2>2, <2>4, ScrollKeeps
  <2>6. Balanced(Scroll(Scroll(wheel, m, "v", y), m, "h", x))
    BY <2>1, <2>2, <2>4, <2>5, ScrollKeeps
  <2> QED BY <2>3, <2>6, Zenon
<1>3. Balanced(wheel')
  <2>1. CASE wheel' = wheel
    BY <1>1, <2>1, Zenon
  <2>2. wheel' = wheel \/ \E dx, dy \in Deltas : mouseScroll(dx, dy)
    BY InputSteps, Zenon DEF KeyPress, mouseMoveR, mouseMoveA, mousePress, WithMouse, pressButton, releaseButton,
       clearAllPressedEvents, vars, buttonVars
  <2> QED BY <1>2, <2>1, <2>2, Zenon
<1>4. (WheelInv <=> Balanced(wheel))'
  BY WheelIsBalanced, PTL
<1> QED BY <1>3, <1>4, Zenon

----------------------------------------------------------------------------
(* A clear that succeeds has released what was held.                       *)

LEMMA ClearStep ==
  ASSUME KeyInv, ButtonInv, ClearReleases, [Next]_vars
  PROVE  ClearReleases'
<1>1. CASE clearAllPressedEvents
  <2>1. PICK failed \in SUBSET kbd.pressed, sync \in BOOLEAN :
          /\ clearKeyboard(failed, sync)
          /\ answer' = <<"clear", failed = {} /\ (kbd.device => sync)>>
    BY <1>1, Zenon DEF clearAllPressedEvents, Return
  <2>2. SUFFICES ASSUME failed = {}, kbd.device => sync
                 PROVE  seen' = {} /\ \A m \in Modes : \A btn \in down'[m] : <<btn, m>> \in rebound'
    BY <2>1 DEF ClearReleases
  <2>3. kernel' = {}
    BY <2>1, <2>2 DEF clearKeyboard, KeyInv, KeysTracked
  <2>4. seen' = {}
    <3>1. CASE kbd.device
      BY <2>1, <2>2, <2>3, <3>1, Zenon DEF clearKeyboard, Shown
    <3>2. CASE ~kbd.device
      BY <2>1, <3>2 DEF clearKeyboard, KeyInv, KeyForm, KeysTracked
    <3> QED BY <3>1, <3>2
  <2>5. DOMAIN pressed_buttons' = {}
    <3>1. CASE pressed_buttons = <<>> /\ UNCHANGED mouseVars
      BY <3>1 DEF mouseVars, buttonVars
    <3>2. CASE clearMouse
      BY <3>2, ClearKeeps
    <3> QED BY <1>1, <3>1, <3>2, Zenon DEF clearAllPressedEvents
  <2>6. HeldWhereRecorded'
    BY ButtonStep DEF ButtonInv
  <2> QED BY <2>4, <2>5, <2>6 DEF HeldWhereRecorded, recorded
<1>2. ASSUME NEW vk \in Vks, NEW isDown \in BOOLEAN, KeyPress(vk, isDown) PROVE ClearReleases'
  <2>1. KeyCode[vk] \in Codes
    BY LinuxInputAssumption
  <2>2. \E ok \in BOOLEAN : answer' = <<"key", ok>>
    BY <1>2, <2>1, SendKeeps, Zenon DEF KeyPress, Return
  <2> QED BY <2>2 DEF ClearReleases
<1>3. ASSUME NEW c \in MouseCalls, NEW ok \in BOOLEAN, answer' = <<c, ok>> PROVE ClearReleases'
  BY <1>3 DEF ClearReleases, MouseCalls
<1>4. CASE UNCHANGED vars
  BY <1>4 DEF ClearReleases, vars, keyVars, mouseVars, buttonVars
<1> QED
  BY <1>1, <1>2, <1>3, <1>4, InputSteps, MouseFrame, Zenon

----------------------------------------------------------------------------
(* The theorems.                                                           *)

LEMMA ClearStart ==
  ASSUME Init
  PROVE  ClearReleases
  BY DEF Init, ClearReleases

LEMMA Inductive ==
  Spec => []LinuxIInv
<1>1. Init => LinuxIInv
  BY KeyStart, ButtonStart, WheelStart, ClearStart, Zenon DEF LinuxIInv
<1>2. LinuxIInv /\ [Next]_vars => LinuxIInv'
  BY KeyStep, ButtonStep, WheelStep, ClearStep, Zenon DEF LinuxIInv
<1> QED BY <1>1, <1>2, PTL DEF Spec

LEMMA ImpliesTypeOK ==
  ASSUME LinuxIInv
  PROVE  TypeOK
<1>1. KeyForm /\ PtrForm /\ ButtonForm /\ WheelForm
  BY Zenon DEF LinuxIInv, KeyInv, ButtonInv, WheelInv
<1>2. /\ kbd.device \in BOOLEAN /\ kbd.sync_pending \in BOOLEAN
      /\ kbd.pressed \subseteq Codes /\ kernel \subseteq Codes /\ seen \subseteq Codes
  BY <1>1 DEF KeyForm, Keyboards
<1>3. /\ mouseReady \in BOOLEAN /\ ptr.absolute \in BOOLEAN
  BY <1>1 DEF PtrForm, Pointers
<1>4. /\ ptr.mode \in Modes /\ ptr.absPos \in Positions \cup {Origin} /\ ptr.last_abs \in Positions \cup {Origin}
  BY <1>1 DEF PtrForm, Pointers
<1>5. \A x, y, S : x \in S /\ y \in S => {x, y} \subseteq S
  OBVIOUS
<1>6. {mouseReady, ptr.absolute} \subseteq BOOLEAN /\ {ptr.absPos, ptr.last_abs} \subseteq Positions \cup {Origin}
  BY <1>3, <1>4, <1>5, Zenon
<1>7. Range(pressed_buttons) \subseteq Modes /\ DOMAIN pressed_buttons \subseteq Buttons
  BY <1>1 DEF ButtonForm, Range
<1>8. down \in [Modes -> SUBSET Buttons]
  BY <1>1, Zenon DEF ButtonForm
<1>9. \A m \in Modes, a \in Axes : wheel.remainder[m][a] \in -119 .. 119
  BY <1>1, Zenon DEF WheelForm
<1> QED BY <1>2, <1>4, <1>6, <1>7, <1>8, <1>9, Zenon DEF TypeOK

\* Every call, whichever of its writes fail, leaves the state well formed, and what
\* the wheel carries over to the next scroll is always less than a notch.
THEOREM TypeCorrect == Spec => []TypeOK
  BY Inductive, ImpliesTypeOK, PTL

\* Whatever calls are made in whatever order and whichever writes to uinput fail,
\* every key and button that is down is known to the side that has to release it,
\* and a clearAllPressedEvents that succeeds has released it.
THEOREM HeldAreTracked == Spec => []HeldIsTracked
<1>1. LinuxIInv => HeldIsTracked
  BY Zenon DEF LinuxIInv, KeyInv, ButtonInv, HeldIsTracked
<1> QED BY Inductive, <1>1, PTL

\* No scrolling is lost or invented: for any sequence of deltas the notches and the
\* remainder of LinuxMouse account for every high-resolution unit, across changes
\* of the mouse mode.
THEOREM WheelIsConserved == Spec => []WheelConserves
<1>1. LinuxIInv => WheelConserves
  BY Zenon DEF LinuxIInv, WheelInv
<1> QED BY Inductive, <1>1, PTL

----------------------------------------------------------------------------
(***************************************************************************)
(* Part two: LinuxTextInput.                                               *)
(*                                                                         *)
(* That a transaction has one owner is a matter of counting: of all that   *)
(* is under way to and from the daemon, one continuation at most holds     *)
(* busy_ (BusyHasOneOwner).  That its text can only reach the context it   *)
(* was prepared for depends on the order of the daemon's signals           *)
(* (LastSignal, Prepared).  TextInv has both parts, Core and FocusInv.     *)
(***************************************************************************)

----------------------------------------------------------------------------
(* Counting the continuations under way.                                   *)

LEMMA StepsType ==
  ASSUME NEW M, NEW q \in Seq(M), NEW K
  PROVE  /\ IsFiniteSet({i \in DOMAIN q : q[i].k \in K}) /\ Steps(q, K) \in Nat
         /\ DOMAIN q = 1 .. Len(q) /\ Len(q) \in Nat
<1>1. DOMAIN q = 1 .. Len(q) /\ Len(q) \in Nat
  BY LenProperties
<1>2. IsFiniteSet(1 .. Len(q))
  BY <1>1, FS_Interval
<1>3. {i \in DOMAIN q : q[i].k \in K} \in SUBSET (1 .. Len(q))
  BY <1>1
<1>4. IsFiniteSet({i \in DOMAIN q : q[i].k \in K})
  BY <1>2, <1>3, FS_Subset
<1> QED BY <1>1, <1>4, FS_CardinalityType DEF Steps

LEMMA StepsConcat ==
  ASSUME NEW M, NEW p \in Seq(M), NEW q \in Seq(M), NEW K
  PROVE  Steps(p \o q, K) = Steps(p, K) + Steps(q, K)
<1> DEFINE A == {i \in DOMAIN p : p[i].k \in K}
           B == {i \in DOMAIN q : q[i].k \in K}
           C == {i + Len(p) : i \in B}
           AC == {i \in DOMAIN (p \o q) : (p \o q)[i].k \in K}
<1>1. /\ DOMAIN p = 1 .. Len(p) /\ Len(p) \in Nat /\ IsFiniteSet(A)
      /\ DOMAIN q = 1 .. Len(q) /\ Len(q) \in Nat /\ IsFiniteSet(B)
  BY StepsType
<1>2. /\ DOMAIN (p \o q) = 1 .. Len(p) + Len(q)
      /\ \A i \in 1 .. Len(p) + Len(q) : (p \o q)[i] = IF i <= Len(p) THEN p[i] ELSE q[i - Len(p)]
  <2>1. p \o q \in Seq(M) /\ Len(p \o q) = Len(p) + Len(q)
        /\ \A i \in 1 .. Len(p) + Len(q) : (p \o q)[i] = IF i <= Len(p) THEN p[i] ELSE q[i - Len(p)]
    BY ConcatProperties
  <2> QED BY <2>1, LenProperties
<1>3. AC = A \cup C
  <2>1. ASSUME NEW i \in AC PROVE i \in A \cup C
    <3>1. i \in 1 .. Len(p) + Len(q) /\ (p \o q)[i].k \in K
      BY <1>2
    <3>2. CASE i <= Len(p)
      BY <1>1, <1>2, <3>1, <3>2
    <3>3. CASE ~(i <= Len(p))
      <4>1. i - Len(p) \in DOMAIN q /\ i = (i - Len(p)) + Len(p) /\ (p \o q)[i] = q[i - Len(p)]
        BY <1>1, <1>2, <3>1, <3>3
      <4>2. i - Len(p) \in B
        BY <3>1, <4>1
      <4> QED BY <4>1, <4>2
    <3> QED BY <3>2, <3>3
  <2>2. ASSUME NEW i \in A PROVE i \in AC
    <3>1. i \in 1 .. Len(p) + Len(q) /\ i <= Len(p)
      BY <1>1
    <3> QED BY <1>2, <3>1
  <2>3. ASSUME NEW i \in B PROVE i + Len(p) \in AC
    <3>1. i + Len(p) \in 1 .. Len(p) + Len(q) /\ ~(i + Len(p) <= Len(p)) /\ (i + Len(p)) - Len(p) = i
      BY <1>1
    <3> QED BY <1>2, <3>1
  <2> QED BY <2>1, <2>2, <2>3
<1>4. A \cap C = {}
  BY <1>1
<1>5. IsFiniteSet(C) /\ Cardinality(C) = Cardinality(B)
  <2> DEFINE f == [i \in B |-> i + Len(p)]
  <2>1. f \in [B -> C] /\ (\A i, j \in B : f[i] = f[j] => i = j) /\ (\A x \in C : \E i \in B : f[i] = x)
    BY <1>1
  <2> HIDE DEF f, B, C
  <2>2. f \in Bijection(B, C)
    BY <2>1 DEF Bijection, Injection, Surjection, IsInjective
  <2> QED BY <1>1, <2>2, FS_Bijection DEF ExistsBijection
<1> HIDE DEF A, B, C, AC
<1>6. Cardinality(A \cup C) = Cardinality(A) + Cardinality(C) - Cardinality(A \cap C)
  BY <1>1, <1>5, FS_Union
<1>7. Cardinality(A \cap C) = 0 /\ Cardinality(A) \in Nat /\ Cardinality(C) \in Nat
  BY <1>1, <1>4, <1>5, FS_EmptySet, FS_CardinalityType
<1>8. Cardinality(AC) = Cardinality(A) + Cardinality(B)
  BY <1>3, <1>5, <1>6, <1>7
<1> QED BY <1>8 DEF Steps, A, B, AC

LEMMA StepsNone ==
  ASSUME NEW M, NEW q \in Seq(M), NEW K, \A i \in DOMAIN q : q[i].k \notin K
  PROVE  Steps(q, K) = 0
<1>1. {i \in DOMAIN q : q[i].k \in K} = {}
  OBVIOUS
<1> QED BY <1>1, FS_EmptySet DEF Steps

LEMMA StepsZero ==
  ASSUME NEW M, NEW q \in Seq(M), NEW K, Steps(q, K) = 0
  PROVE  \A i \in DOMAIN q : q[i].k \notin K
<1>1. {i \in DOMAIN q : q[i].k \in K} = {}
  BY StepsType, FS_EmptySet, ZenonT(40) DEF Steps
<1> QED BY <1>1

LEMMA StepsOne ==
  ASSUME NEW M, NEW m \in M, NEW K
  PROVE  Steps(<<m>>, K) = IF m.k \in K THEN 1 ELSE 0
<1>1. <<m>> \in Seq(M) /\ DOMAIN <<m>> = {1} /\ <<m>>[1] = m
  OBVIOUS
<1>2. CASE m.k \in K
  <2>1. {i \in DOMAIN <<m>> : <<m>>[i].k \in K} = {1}
    BY <1>1, <1>2
  <2> QED BY <1>2, <2>1, FS_Singleton DEF Steps
<1>3. CASE m.k \notin K
  BY <1>1, <1>3, StepsNone
<1> QED BY <1>2, <1>3

LEMMA StepsAppend ==
  ASSUME NEW M, NEW q \in Seq(M), NEW m \in M, NEW K
  PROVE  Steps(Append(q, m), K) = Steps(q, K) + (IF m.k \in K THEN 1 ELSE 0)
<1>1. Append(q, m) = q \o <<m>> /\ <<m>> \in Seq(M)
  BY AppendIsConcat
<1>2. Steps(q \o <<m>>, K) = Steps(q, K) + Steps(<<m>>, K)
  BY <1>1, StepsConcat
<1> QED BY <1>1, <1>2, StepsOne

LEMMA StepsTail ==
  ASSUME NEW M, NEW q \in Seq(M), q # <<>>, NEW K
  PROVE  Steps(q, K) = Steps(Tail(q), K) + (IF Head(q).k \in K THEN 1 ELSE 0)
<1>1. Head(q) \in M /\ Tail(q) \in Seq(M) /\ <<Head(q)>> \in Seq(M)
  BY HeadTailProperties
<1>2. q = <<Head(q)>> \o Tail(q)
  OBVIOUS
<1>3. Steps(<<Head(q)>> \o Tail(q), K) = Steps(<<Head(q)>>, K) + Steps(Tail(q), K)
  BY <1>1, StepsConcat
<1>4. Steps(Tail(q), K) \in Nat
  BY <1>1, StepsType
<1>5. Steps(<<Head(q)>>, K) = IF Head(q).k \in K THEN 1 ELSE 0
  BY <1>1, StepsOne
<1> DEFINE h == IF Head(q).k \in K THEN 1 ELSE 0
           t == Steps(Tail(q), K)
<1>6. Steps(q, K) = h + t
  BY <1>2, <1>3, <1>5, Zenon
<1>7. h + t = t + h
  BY <1>4
<1> QED BY <1>6, <1>7, Zenon

\* A continuation at a place of the queue is dropped.
LEMMA StepsDrop ==
  ASSUME NEW M, NEW q \in Seq(M), NEW i \in DOMAIN q, NEW p \in Seq(M), NEW K,
         DOMAIN p = DOMAIN q, p[i].k \notin K, \A j \in DOMAIN q : j # i => p[j] = q[j]
  PROVE  Steps(q, K) = Steps(p, K) + (IF q[i].k \in K THEN 1 ELSE 0)
<1> DEFINE A == {j \in DOMAIN q : q[j].k \in K}
           B == {j \in DOMAIN p : p[j].k \in K}
<1>1. IsFiniteSet(A) /\ IsFiniteSet(B) /\ Cardinality(A) \in Nat /\ Cardinality(B) \in Nat
  BY StepsType DEF Steps
<1>2. B = A \ {i}
  OBVIOUS
<1>3. i \in A <=> q[i].k \in K
  OBVIOUS
<1> HIDE DEF A, B
<1>4. Cardinality(B) = IF i \in A THEN Cardinality(A) - 1 ELSE Cardinality(A)
  BY <1>1, <1>2, FS_RemoveElement
<1>5. Cardinality(A) = Cardinality(B) + (IF q[i].k \in K THEN 1 ELSE 0)
  BY <1>1, <1>3, <1>4
<1> QED BY <1>5 DEF Steps, A, B

\* The places of a queue in their order are all of them.
LEMMA InOrderFacts ==
  ASSUME NEW W, IsFiniteSet(W), W \subseteq Nat, NEW o \in InOrder(W)
  PROVE  /\ DOMAIN o = 1 .. Cardinality(W) /\ Cardinality(W) \in Nat
         /\ \A i \in DOMAIN o : o[i] \in W
         /\ o \in Bijection(1 .. Cardinality(W), W)
<1> DEFINE n == Cardinality(W)
<1>1. n \in Nat
  BY FS_CardinalityType
<1>2. o \in [1 .. n -> W] /\ \A i, j \in DOMAIN o : i < j => o[i] < o[j]
  BY DEF InOrder
<1> HIDE DEF n
<1>3. \A i, j \in 1 .. n : o[i] = o[j] => i = j
  <2> SUFFICES ASSUME NEW i \in 1 .. n, NEW j \in 1 .. n, i # j PROVE o[i] # o[j]
    OBVIOUS
  <2>1. i < j \/ j < i
    BY <1>1
  <2>2. o[i] < o[j] \/ o[j] < o[i]
    BY <1>2, <2>1
  <2>3. o[i] \in Nat /\ o[j] \in Nat
    BY <1>2
  <2> QED BY <2>2, <2>3
<1>4. o \in Injection(1 .. n, W)
  BY <1>2, <1>3 DEF Injection, IsInjective
<1>5. Cardinality(1 .. n) = n
  <2>1. Cardinality(1 .. n) = IF 1 > n THEN 0 ELSE n - 1 + 1
    BY <1>1, FS_Interval
  <2> QED BY <1>1, <2>1
<1>6. o \in Surjection(1 .. n, W)
  <2>1. Cardinality(1 .. n) = Cardinality(W) <=> o \in Surjection(1 .. n, W)
    BY <1>4, FS_Injection
  <2> QED BY <1>5, <2>1 DEF n
<1> QED BY <1>1, <1>2, <1>4, <1>6 DEF n, Bijection

\* Every call in flight fails, and no other.
LEMMA StepsFailures ==
  ASSUME NEW M, NEW q \in Seq(M), NEW o \in InOrder(Waiting(q)), NEW K, None \notin K
  PROVE  /\ Steps(Failures(q, o), K) = Steps(q, K)
         /\ DOMAIN o = 1 .. Cardinality(Waiting(q)) /\ Cardinality(Waiting(q)) \in Nat
         /\ \A i \in DOMAIN o : o[i] \in DOMAIN q
<1> DEFINE W == Waiting(q)
           n == Cardinality(W)
           A == {i \in DOMAIN Failures(q, o) : Failures(q, o)[i].k \in K}
           B == {i \in DOMAIN q : q[i].k \in K}
<1>1. IsFiniteSet(W) /\ W \subseteq Nat /\ W \subseteq DOMAIN q
  <2>1. DOMAIN q = 1 .. Len(q) /\ Len(q) \in Nat
    BY LenProperties
  <2>2. IsFiniteSet(1 .. Len(q)) /\ W \in SUBSET (1 .. Len(q))
    BY <2>1, FS_Interval DEF Waiting
  <2>3. IsFiniteSet(W)
    <3> HIDE DEF W
    <3> QED BY <2>2, FS_Subset
  <2> QED BY <2>1, <2>2, <2>3
<1>2. /\ DOMAIN o = 1 .. n /\ n \in Nat
      /\ \A i \in DOMAIN o : o[i] \in W
      /\ o \in Bijection(1 .. n, W)
  BY <1>1, InOrderFacts
<1>3. \A i \in DOMAIN o : Failures(q, o)[i].k = q[o[i]].k
  BY DEF Failures, Msg
<1>4. DOMAIN Failures(q, o) = DOMAIN o
  BY DEF Failures
<1>5. A = {i \in 1 .. n : q[o[i]].k \in K}
  BY <1>2, <1>3, <1>4
<1>6. B \subseteq W
  BY DEF Waiting
<1>7. IsFiniteSet(A)
  <2>1. IsFiniteSet(1 .. n)
    BY <1>2, FS_Interval
  <2>2. A \in SUBSET (1 .. n)
    BY <1>5
  <2> HIDE DEF A, n
  <2> QED BY <2>1, <2>2, FS_Subset
<1>8. Cardinality(A) = Cardinality(B)
  <2> DEFINE f == [i \in A |-> o[i]]
  <2>1. /\ \A i \in 1 .. n : o[i] \in W
        /\ \A i, j \in 1 .. n : o[i] = o[j] => i = j
        /\ \A x \in W : \E i \in 1 .. n : o[i] = x
    <3> HIDE DEF n, W
    <3> QED BY <1>2 DEF Bijection, Injection, Surjection, IsInjective
  <2> HIDE DEF n
  <2>2. f \in [A -> B]
    BY <1>1, <1>5, <2>1
  <2>3. \A i, j \in A : f[i] = f[j] => i = j
    BY <1>5, <2>1
  <2>4. \A x \in B : \E i \in A : f[i] = x
    BY <1>5, <1>6, <2>1
  <2> HIDE DEF A, B, f
  <2>5. f \in Bijection(A, B)
    BY <2>2, <2>3, <2>4 DEF Bijection, Injection, Surjection, IsInjective
  <2> QED BY <1>7, <2>5, FS_Bijection DEF ExistsBijection
<1> QED BY <1>1, <1>2, <1>8 DEF Steps

----------------------------------------------------------------------------
(* The Backend and its handlers.                                           *)

Args == Engines \cup Contexts \cup {Ours, Fake, None} \cup Nat
Kinds == TxnSteps \cup {"register", None}
OutMsgs == [k : Kinds, method : {"context", "get", "set", "register", "commit"}, arg : Args]
InMsgs == [k : Kinds, method : FocusSignals \cup {"reply", "disconnected"}, arg : Args]

Backend ==
  [ready : BOOLEAN, initializing : BOOLEAN, busy : BOOLEAN, waiters : Seq(BOOLEAN),
   engine : Nat, focused : BOOLEAN, previous : Engines \cup {None},
   context : Contexts \cup {None}, token : Nat, next_token : Nat, fresh : BOOLEAN,
   up : BOOLEAN, out : Seq(OutMsgs), gaveUp : BOOLEAN]

\* What a handler that only talks to the daemon leaves alone.
Keeps(s, r) ==
  /\ r.initializing = s.initializing /\ r.waiters = s.waiters
  /\ r.engine = s.engine /\ r.focused = s.focused
  /\ r.previous = s.previous /\ r.context = s.context
  /\ r.token = s.token /\ r.next_token = s.next_token
  /\ r.fresh = s.fresh /\ r.up = s.up

LEMMA SendFields ==
  ASSUME NEW s \in Backend, NEW m \in OutMsgs
  PROVE  /\ [s EXCEPT !.out = Append(@, m)] \in Backend
         /\ Keeps(s, [s EXCEPT !.out = Append(@, m)])
         /\ [s EXCEPT !.out = Append(@, m)].busy = s.busy
         /\ [s EXCEPT !.out = Append(@, m)].ready = s.ready
         /\ [s EXCEPT !.out = Append(@, m)].out = Append(s.out, m)
<1>1. Append(s.out, m) \in Seq(OutMsgs)
  BY AppendProperties DEF Backend
<1> QED BY <1>1 DEF Backend, Keeps

LEMMA FailFields ==
  ASSUME NEW s \in Backend
  PROVE  /\ restoreFails(s) \in Backend /\ Keeps(s, restoreFails(s))
         /\ restoreFails(s).busy = FALSE /\ restoreFails(s).out = s.out
<1>1. (s.gaveUp \/ (s.engine # 0 /\ s.focused)) \in BOOLEAN
  OBVIOUS
<1> QED BY <1>1 DEF restoreFails, Backend, Keeps

LEMMA RestoreFields ==
  ASSUME NEW s \in Backend
  PROVE  /\ restore(s) \in Backend /\ Keeps(s, restore(s))
         /\ \/ /\ s.up /\ restore(s).busy = s.busy
               /\ restore(s).out = Append(s.out, Msg("rget", "get", None))
            \/ ~s.up /\ restore(s).busy = FALSE /\ restore(s).out = s.out
<1>1. Msg("rget", "get", None) \in OutMsgs
  BY DEF Msg, OutMsgs, Kinds, TxnSteps, Args
<1>2. CASE s.up
  BY <1>1, <1>2, SendFields, Zenon DEF restore, call
<1>3. CASE ~s.up
  BY <1>3, FailFields, Zenon DEF restore, call
<1> QED BY <1>2, <1>3

\* The elements of a queue with one more.
LEMMA RangeAppend ==
  ASSUME NEW M, NEW q \in Seq(M), NEW m \in M
  PROVE  Range(Append(q, m)) = Range(q) \cup {m}
<1>1. Append(q, m) = q \o <<m>> /\ <<m>> \in Seq(M)
  BY AppendIsConcat
<1>2. Range(q \o <<m>>) = Range(q) \cup Range(<<m>>)
  BY <1>1, RangeConcatenation
<1>3. Range(<<m>>) = {m}
  BY DEF Range
<1> QED BY <1>1, <1>2, <1>3

\* What a request may be.
OutOK(m) ==
  /\ m.k \in {"ctx", "ctxAuto", "again", "againAuto"} => m.method = "context"
  /\ m.k \in {"get", "getAuto", "rget"} => m.method = "get"
  /\ m.k \in {"set", "setAuto"} => m.method = "set" /\ m.arg = Ours
  /\ m.k = "rset" => m.method = "set" /\ m.arg # Ours
  /\ m.k = "register" => m.method = "register"
  /\ m.method = "set" => m.arg \in Engines \cup {Ours}

\* The steps of a transaction whose context is known.
Mids == {"get", "getAuto", "set", "setAuto", "again", "againAuto"}

\* With n and m continuations in what the daemon sent: the owners of busy_ and of
\* initializing_ are as many as they should be.
Balance(s, n, m) ==
  /\ Steps(s.out, TxnSteps) + n + (IF s.token # 0 THEN 1 ELSE 0) = (IF s.busy THEN 1 ELSE 0)
  /\ Steps(s.out, {"register"}) + m = (IF s.initializing THEN 1 ELSE 0)

\* The code that runs owns busy_.
Claimed(s, n, m) ==
  /\ s.busy /\ s.token = 0 /\ n = 0 /\ Steps(s.out, TxnSteps) = 0
  /\ Steps(s.out, {"register"}) + m = (IF s.initializing THEN 1 ELSE 0)

\* It hands busy_ on, to a call or to a token, or gives it up.
LEMMA ClaimSent ==
  ASSUME NEW s \in Backend, NEW r \in Backend, NEW n \in Nat, NEW m \in Nat, Claimed(s, n, m),
         NEW x \in OutMsgs, x.k \in TxnSteps, r.busy, r.token = 0, r.out = Append(s.out, x),
         r.initializing = s.initializing
  PROVE  Balance(r, n, m)
<1>1. s.out \in Seq(OutMsgs) /\ "register" \notin TxnSteps
  BY DEF Backend, TxnSteps
<1>2. Steps(r.out, TxnSteps) = Steps(s.out, TxnSteps) + (IF x.k \in TxnSteps THEN 1 ELSE 0)
  BY <1>1, StepsAppend
<1>3. Steps(r.out, {"register"}) = Steps(s.out, {"register"}) + (IF x.k \in {"register"} THEN 1 ELSE 0)
  BY <1>1, StepsAppend
<1>4. Steps(s.out, {"register"}) \in Nat
  BY <1>1, StepsType
<1>5. Steps(r.out, TxnSteps) = 1 /\ Steps(r.out, {"register"}) = Steps(s.out, {"register"})
  BY <1>1, <1>2, <1>3, <1>4 DEF Claimed
<1> QED BY <1>5 DEF Balance, Claimed

LEMMA ClaimKept ==
  ASSUME NEW s \in Backend, NEW r \in Backend, NEW n \in Nat, NEW m \in Nat, Claimed(s, n, m),
         (r.busy /\ r.token # 0) \/ (~r.busy /\ r.token = 0),
         r.out = s.out, r.initializing = s.initializing
  PROVE  Balance(r, n, m)
<1>1. Steps(r.out, TxnSteps) = 0 /\ Steps(r.out, {"register"}) + m = (IF r.initializing THEN 1 ELSE 0)
  BY DEF Claimed
<1>2. n = 0
  BY DEF Claimed
<1>3. (IF r.token # 0 THEN 1 ELSE 0) = (IF r.busy THEN 1 ELSE 0) /\ (IF r.token # 0 THEN 1 ELSE 0) \in Nat
  OBVIOUS
<1>4. 0 + 0 + (IF r.token # 0 THEN 1 ELSE 0) = (IF r.token # 0 THEN 1 ELSE 0)
  BY <1>3
<1> QED BY <1>1, <1>2, <1>3, <1>4, Zenon DEF Balance

\* Nobody owns busy_ when it is not set.
LEMMA IdleFacts ==
  ASSUME NEW s \in Backend, NEW n \in Nat, NEW m \in Nat, Balance(s, n, m), ~s.busy
  PROVE  Steps(s.out, TxnSteps) = 0 /\ n = 0 /\ s.token = 0
<1> DEFINE c == IF s.token # 0 THEN 1 ELSE 0
           d == Steps(s.out, TxnSteps)
<1>1. d \in Nat
  BY StepsType DEF Backend
<1>2. c \in Nat /\ (c = 0 => s.token = 0)
  OBVIOUS
<1>3. d + n + c = 0
  BY Zenon DEF Balance
<1> HIDE DEF c, d
<1>4. d = 0 /\ n = 0 /\ c = 0
  BY <1>1, <1>2, <1>3
<1> QED BY <1>2, <1>4 DEF d

LEMMA RestoreBalance ==
  ASSUME NEW s \in Backend, NEW n \in Nat, NEW m \in Nat, Claimed(s, n, m)
  PROVE  Balance(restore(s), n, m)
<1> DEFINE r == restore(s)
<1>1. r \in Backend /\ Keeps(s, r) /\ \/ r.busy = s.busy /\ r.out = Append(s.out, Msg("rget", "get", None))
                                      \/ r.busy = FALSE /\ r.out = s.out
  BY RestoreFields
<1>2. r.token = 0 /\ r.initializing = s.initializing /\ s.busy
  BY <1>1 DEF Keeps, Claimed
<1>3. Msg("rget", "get", None) \in OutMsgs /\ Msg("rget", "get", None).k \in TxnSteps
  BY DEF Msg, OutMsgs, Kinds, TxnSteps, Args
<1> SUFFICES Balance(r, n, m)
  OBVIOUS
<1> HIDE DEF r
<1>4. CASE r.busy = s.busy /\ r.out = Append(s.out, Msg("rget", "get", None))
  BY <1>1, <1>2, <1>3, <1>4, ClaimSent
<1>5. CASE r.busy = FALSE /\ r.out = s.out
  BY <1>1, <1>2, <1>5, ClaimKept
<1> QED BY <1>1, <1>4, <1>5

\* Code that asks nothing of any engine and has not got a new token.
Quiet(s, r) ==
  /\ \A x \in Range(r.out) : x \in Range(s.out) \/ (OutOK(x) /\ x.k \notin Mids /\ x.method # "set")
  /\ r.previous = s.previous /\ r.context = s.context
  /\ r.engine = s.engine /\ r.focused = s.focused /\ r.up = s.up
  /\ r.waiters = s.waiters /\ r.initializing = s.initializing
  /\ r.next_token = s.next_token
  /\ r.token = 0 \/ (r.token = s.token /\ r.fresh = s.fresh)

LEMMA PlainMsgs ==
  /\ Msg("rget", "get", None) \in OutMsgs /\ OutOK(Msg("rget", "get", None))
  /\ Msg("rget", "get", None).k \in TxnSteps
  /\ Msg("rget", "get", None).k \notin Mids /\ Msg("rget", "get", None).method # "set"
  /\ \A k \in {"ctx", "ctxAuto"} :
       /\ Msg(k, "context", None) \in OutMsgs /\ OutOK(Msg(k, "context", None))
       /\ Msg(k, "context", None).k \in TxnSteps
       /\ Msg(k, "context", None).k \notin Mids /\ Msg(k, "context", None).method # "set"
  /\ Msg("register", "register", None) \in OutMsgs /\ OutOK(Msg("register", "register", None))
  /\ Msg("register", "register", None).k = "register"
  /\ Msg("register", "register", None).k \notin Mids /\ Msg("register", "register", None).method # "set"
  /\ \A e \in Nat :
       /\ Msg(None, "commit", e) \in OutMsgs /\ OutOK(Msg(None, "commit", e))
       /\ Msg(None, "commit", e).k = None
       /\ Msg(None, "commit", e).k \notin Mids /\ Msg(None, "commit", e).method # "set"
BY DEF Msg, OutMsgs, Kinds, TxnSteps, Args, OutOK, Mids, None

LEMMA RestoreQuiet ==
  ASSUME NEW s \in Backend
  PROVE  Quiet(s, restore(s))
<1> DEFINE r == restore(s)
           g == Msg("rget", "get", None)
<1>1. r \in Backend /\ Keeps(s, r) /\ (r.out = Append(s.out, g) \/ r.out = s.out)
  BY RestoreFields
<1>2. g \in OutMsgs /\ OutOK(g) /\ g.k \notin Mids /\ g.method # "set"
  BY PlainMsgs
<1> HIDE DEF g, r
<1>3. s.out \in Seq(OutMsgs)
  BY DEF Backend
<1>4. Range(Append(s.out, g)) = Range(s.out) \cup {g}
  BY <1>2, <1>3, RangeAppend
<1>5. \A x \in Range(r.out) : x \in Range(s.out) \/ (OutOK(x) /\ x.k \notin Mids /\ x.method # "set")
  BY <1>1, <1>2, <1>4
<1>6. Quiet(s, r)
  BY <1>1, <1>5 DEF Quiet, Keeps
<1> QED BY <1>6 DEF r

LEMMA QuietTrans ==
  ASSUME NEW s, NEW t, NEW r, Quiet(s, t), Quiet(t, r)
  PROVE  Quiet(s, r)
BY DEF Quiet

\* finish with its token.
LEMMA FinishFacts ==
  ASSUME NEW s \in Backend, s.token # 0, NEW valid \in BOOLEAN, NEW n \in Nat, NEW m \in Nat,
         Balance(s, n, m)
  PROVE  /\ finish(s, s.token, valid) \in Backend /\ Quiet(s, finish(s, s.token, valid))
         /\ Balance(finish(s, s.token, valid), n, m) /\ finish(s, s.token, valid).token = 0
<1> DEFINE u == [s EXCEPT !.token = 0]
           c == Msg(None, "commit", s.engine)
           v == IF valid /\ active(u) THEN call(u, None, "commit", s.engine, u) ELSE u
<1>1. u \in Backend /\ u.token = 0 /\ u.out = s.out /\ u.busy = s.busy /\ u.initializing = s.initializing
      /\ Quiet(s, u)
  BY DEF Backend, Quiet
<1>2. finish(s, s.token, valid) = restore(v)
  BY DEF finish
<1>3. s.out \in Seq(OutMsgs) /\ s.engine \in Nat
  BY DEF Backend
<1>4. c \in OutMsgs /\ OutOK(c) /\ c.k = None /\ c.k \notin Mids /\ c.method # "set"
  BY <1>3, PlainMsgs
<1>5. Claimed(u, n, m)
  <2>1. Steps(s.out, TxnSteps) \in Nat
    BY <1>3, StepsType
  <2>2. Steps(s.out, TxnSteps) = 0 /\ n = 0 /\ s.busy
    BY <2>1 DEF Balance
  <2> HIDE DEF u
  <2> QED BY <1>1, <2>2 DEF Claimed, Balance
<1>6. v = u \/ v = [u EXCEPT !.out = Append(@, c)]
  BY Zenon DEF call
<1> HIDE DEF u, c, v
<1>7. v \in Backend /\ Quiet(u, v) /\ Claimed(v, n, m) /\ v.token = 0
  <2>1. CASE v = u
    BY <1>1, <1>5, <2>1 DEF Quiet
  <2>2. CASE v = [u EXCEPT !.out = Append(@, c)]
    <3>1. v \in Backend /\ Keeps(u, v) /\ v.busy = u.busy /\ v.out = Append(u.out, c)
      BY <1>1, <1>4, <2>2, SendFields
    <3>2. Range(Append(u.out, c)) = Range(u.out) \cup {c}
      BY <1>1, <1>3, <1>4, RangeAppend
    <3>3. Quiet(u, v)
      BY <1>4, <3>1, <3>2 DEF Quiet, Keeps
    <3>4. c.k \notin TxnSteps /\ c.k \notin {"register"}
      BY <1>4 DEF TxnSteps, None
    <3>5. /\ Steps(v.out, TxnSteps) = Steps(u.out, TxnSteps) + 0
          /\ Steps(v.out, {"register"}) = Steps(u.out, {"register"}) + 0
      BY <1>1, <1>3, <1>4, <3>1, <3>4, StepsAppend
    <3>6. Steps(u.out, TxnSteps) \in Nat /\ Steps(u.out, {"register"}) \in Nat
      BY <1>1, <1>3, StepsType
    <3>7. Steps(v.out, TxnSteps) = Steps(u.out, TxnSteps)
          /\ Steps(v.out, {"register"}) = Steps(u.out, {"register"})
      BY <3>5, <3>6
    <3>8. Claimed(v, n, m) /\ v.token = 0
      BY <1>1, <1>5, <3>1, <3>7 DEF Claimed, Keeps
    <3> QED BY <3>1, <3>3, <3>8
  <2> QED BY <1>6, <2>1, <2>2
<1>8. restore(v) \in Backend /\ Quiet(v, restore(v)) /\ Balance(restore(v), n, m) /\ restore(v).token = 0
  BY <1>7, RestoreFields, RestoreQuiet, RestoreBalance DEF Keeps
<1>9. Quiet(s, restore(v))
  BY <1>1, <1>7, <1>8, QuietTrans, Zenon
<1> QED BY <1>2, <1>8, <1>9, Zenon

LEMMA PrepareFacts ==
  ASSUME NEW s \in Backend, NEW auto \in BOOLEAN, NEW n \in Nat, NEW m \in Nat, Balance(s, n, m)
  PROVE  /\ prepare(s, auto) \in Backend /\ Quiet(s, prepare(s, auto))
         /\ Balance(prepare(s, auto), n, m) /\ prepare(s, auto).token = s.token
<1>1. CASE ~(s.ready /\ ~s.busy /\ s.up)
  BY <1>1 DEF prepare, Quiet
<1>2. CASE s.ready /\ ~s.busy /\ s.up
  <2> DEFINE t == [s EXCEPT !.busy = TRUE]
             k == IF auto THEN "ctxAuto" ELSE "ctx"
             x == Msg(k, "context", None)
             r == [t EXCEPT !.out = Append(@, x)]
  <2>1. t \in Backend /\ t.busy /\ t.token = s.token /\ t.out = s.out /\ t.initializing = s.initializing
        /\ t.up = s.up /\ Quiet(s, t)
    BY DEF Backend, Quiet
  <2>2. prepare(s, auto) = r
    BY <1>2, <2>1, Zenon DEF prepare, call
  <2>3. s.out \in Seq(OutMsgs)
    BY DEF Backend
  <2>4. x \in OutMsgs /\ OutOK(x) /\ x.k \in TxnSteps /\ x.k \notin Mids /\ x.method # "set"
    <3>1. k \in {"ctx", "ctxAuto"}
      OBVIOUS
    <3> HIDE DEF k
    <3> QED BY <3>1, PlainMsgs
  <2> HIDE DEF t, x
  <2>5. r \in Backend /\ Keeps(t, r) /\ r.busy = t.busy /\ r.out = Append(t.out, x)
    BY <2>1, <2>4, SendFields
  <2> HIDE DEF r
  <2>6. Claimed(t, n, m)
    <3>1. Steps(s.out, TxnSteps) = 0 /\ n = 0 /\ s.token = 0
      BY <1>2, IdleFacts
    <3> QED BY <2>1, <3>1 DEF Claimed, Balance
  <2>7. Balance(r, n, m)
    BY <2>1, <2>4, <2>5, <2>6, ClaimSent DEF Keeps, Claimed
  <2>8. Range(Append(t.out, x)) = Range(t.out) \cup {x}
    BY <2>1, <2>3, <2>4, RangeAppend
  <2>9. Quiet(t, r)
    BY <2>4, <2>5, <2>8 DEF Quiet, Keeps
  <2>10. Quiet(s, r)
    BY <2>1, <2>9, QuietTrans
  <2> QED BY <2>1, <2>2, <2>5, <2>7, <2>10 DEF Keeps
<1> QED BY <1>1, <1>2

----------------------------------------------------------------------------
(* The continuations.                                                      *)

\* What a continuation k may have done on its reply v: a request for an engine asks
\* for ours, after the user's has been noted, or for the one noted, while ours is
\* there; a token is only there once the context has been seen again.
Told(s, k, v, r) ==
  /\ \A x \in Range(r.out) :
       \/ x \in Range(s.out)
       \/ /\ OutOK(x) /\ (x.k \in Mids => r.context # None)
          /\ x.method = "set" =>
               \/ x.arg = Ours /\ k \in {"get", "getAuto"} /\ v \in Engines /\ r.previous = v
               \/ x.arg = s.previous /\ k = "rget" /\ v = Ours
  /\ r.previous = s.previous \/ (k \in {"get", "getAuto"} /\ v \in Engines /\ r.previous = v)
  /\ r.context = s.context \/ r.context # None
  /\ r.engine = s.engine /\ r.focused = s.focused /\ r.up = s.up
  /\ r.waiters = s.waiters /\ r.initializing = s.initializing
  /\ r.token \in {0, r.next_token}
  /\ r.token # 0 => /\ k \in {"again", "againAuto"} /\ v = s.context /\ r.context = s.context
                    /\ s.engine # 0 /\ s.focused

Handled(s, k, v, r, n, m) == r \in Backend /\ Balance(r, n, m) /\ Told(s, k, v, r)

LEMMA QuietTold ==
  ASSUME NEW s, NEW k, NEW v, NEW r, Quiet(s, r), r.token = 0
  PROVE  Told(s, k, v, r)
BY DEF Quiet, Told

LEMMA Sent ==
  ASSUME NEW s \in Backend, NEW n \in Nat, NEW m \in Nat, Claimed(s, n, m),
         NEW x \in OutMsgs, x.k \in TxnSteps, NEW r, r = [s EXCEPT !.out = Append(@, x)]
  PROVE  /\ r \in Backend /\ Keeps(s, r) /\ Balance(r, n, m)
         /\ Range(r.out) = Range(s.out) \cup {x}
<1>1. r \in Backend /\ Keeps(s, r) /\ r.busy = s.busy /\ r.out = Append(s.out, x)
  BY SendFields
<1>2. Balance(r, n, m)
  BY <1>1, ClaimSent DEF Keeps, Claimed
<1>3. s.out \in Seq(OutMsgs)
  BY DEF Backend
<1> QED BY <1>1, <1>2, <1>3, RangeAppend

LEMMA Released ==
  ASSUME NEW s \in Backend, NEW n \in Nat, NEW m \in Nat, Claimed(s, n, m)
  PROVE  /\ Unprepared(s) \in Backend /\ Balance(Unprepared(s), n, m)
         /\ Quiet(s, Unprepared(s)) /\ Unprepared(s).token = 0
<1> DEFINE r == Unprepared(s)
<1>1. r \in Backend /\ ~r.busy /\ r.token = s.token /\ r.out = s.out /\ r.initializing = s.initializing
      /\ Quiet(s, r)
  BY DEF Backend, Unprepared, Quiet
<1> HIDE DEF r
<1>2. Balance(r, n, m)
  BY <1>1, ClaimKept DEF Claimed
<1>3. r.token = 0
  BY <1>1 DEF Claimed
<1> QED BY <1>1, <1>2, <1>3 DEF r

LEMMA Failed ==
  ASSUME NEW s \in Backend, NEW n \in Nat, NEW m \in Nat, Claimed(s, n, m)
  PROVE  /\ restoreFails(s) \in Backend /\ Balance(restoreFails(s), n, m)
         /\ Quiet(s, restoreFails(s)) /\ restoreFails(s).token = 0
<1> DEFINE r == restoreFails(s)
<1>1. r \in Backend /\ Keeps(s, r) /\ r.busy = FALSE /\ r.out = s.out
  BY FailFields
<1> HIDE DEF r
<1>2. r.token = 0 /\ Quiet(s, r)
  BY <1>1 DEF Keeps, Claimed, Quiet
<1>3. Balance(r, n, m)
  BY <1>1, <1>2, ClaimKept DEF Keeps
<1> QED BY <1>1, <1>2, <1>3 DEF r

LEMMA Restored ==
  ASSUME NEW s \in Backend, NEW n \in Nat, NEW m \in Nat, Claimed(s, n, m)
  PROVE  /\ restore(s) \in Backend /\ Balance(restore(s), n, m)
         /\ Quiet(s, restore(s)) /\ restore(s).token = 0
BY RestoreFields, RestoreBalance, RestoreQuiet DEF Keeps, Claimed

LEMMA StepNames ==
  ASSUME NEW auto \in BOOLEAN
  PROVE  /\ Step("get", auto) \in {"get", "getAuto"}
         /\ Step("set", auto) \in {"set", "setAuto"}
         /\ Step("again", auto) \in {"again", "againAuto"}
BY DEF Step

LEMMA OnContext ==
  ASSUME NEW s \in Backend, NEW n \in Nat, NEW m \in Nat, Claimed(s, n, m),
         NEW auto \in BOOLEAN, NEW k, NEW v \in Contexts \cup {Fake, None}
  PROVE  Handled(s, k, v, onContext(s, v, auto), n, m)
<1>1. CASE v \in {None, Fake}
  BY <1>1, Released, QuietTold, Zenon DEF onContext, Handled
<1>2. CASE v \notin {None, Fake}
  <2> DEFINE t == [s EXCEPT !.context = v]
             g == Step("get", auto)
             x == Msg(g, "get", None)
             r == onContext(s, v, auto)
  <2>1. /\ t \in Backend /\ Claimed(t, n, m) /\ t.context = v /\ v # None /\ t.token = 0 /\ t.out = s.out
        /\ t.previous = s.previous /\ t.engine = s.engine /\ t.focused = s.focused /\ t.up = s.up
        /\ t.waiters = s.waiters /\ t.initializing = s.initializing
    BY <1>2 DEF Backend, Claimed
  <2>2. x \in OutMsgs /\ x.k \in TxnSteps /\ OutOK(x) /\ x.method # "set"
    <3>1. g \in {"get", "getAuto"}
      BY StepNames
    <3> HIDE DEF g
    <3> QED BY <3>1 DEF Msg, OutMsgs, Kinds, TxnSteps, Args, OutOK, None
  <2>3. r = IF t.up THEN [t EXCEPT !.out = Append(@, x)] ELSE Unprepared(t)
    BY <1>2, Zenon DEF onContext, call
  <2> HIDE DEF t, x, r, g
  <2>4. CASE t.up
    <3>1. r \in Backend /\ Keeps(t, r) /\ Balance(r, n, m) /\ Range(r.out) = Range(t.out) \cup {x}
      BY <2>1, <2>2, <2>3, <2>4, Sent, ZenonT(40)
    <3>2. Told(s, k, v, r)
      BY <2>1, <2>2, <3>1 DEF Told, Keeps
    <3> QED BY <3>1, <3>2 DEF r, Handled
  <2>5. CASE ~t.up
    <3>1. r \in Backend /\ Balance(r, n, m) /\ Quiet(t, r) /\ r.token = 0
      BY <2>1, <2>3, <2>5, Released
    <3>2. Told(s, k, v, r)
      BY <2>1, <3>1 DEF Told, Quiet
    <3> QED BY <3>1, <3>2 DEF r, Handled
  <2> QED BY <2>4, <2>5
<1> QED BY <1>1, <1>2

LEMMA OnEngine ==
  ASSUME NEW s \in Backend, NEW n \in Nat, NEW m \in Nat, Claimed(s, n, m),
         NEW auto \in BOOLEAN, NEW k \in {"get", "getAuto"}, NEW v \in Engines \cup {Ours, None},
         s.context # None
  PROVE  Handled(s, k, v, onEngine(s, v, auto), n, m)
<1>1. CASE v \in {None, Ours}
  BY <1>1, Released, QuietTold, Zenon DEF onEngine, Handled
<1>2. CASE v \notin {None, Ours}
  <2> DEFINE t == [s EXCEPT !.previous = v]
             g == Step("set", auto)
             x == Msg(g, "set", Ours)
             r == onEngine(s, v, auto)
  <2>1. /\ t \in Backend /\ Claimed(t, n, m) /\ t.previous = v /\ v \in Engines /\ t.token = 0 /\ t.out = s.out
        /\ t.context = s.context /\ t.engine = s.engine /\ t.focused = s.focused /\ t.up = s.up
        /\ t.waiters = s.waiters /\ t.initializing = s.initializing
    BY <1>2 DEF Backend, Claimed
  <2>2. x \in OutMsgs /\ x.k \in TxnSteps /\ OutOK(x) /\ x.arg = Ours
    <3>1. g \in {"set", "setAuto"}
      BY StepNames
    <3> HIDE DEF g
    <3> QED BY <3>1 DEF Msg, OutMsgs, Kinds, TxnSteps, Args, OutOK
  <2>3. r = IF t.up THEN [t EXCEPT !.out = Append(@, x)] ELSE restore(t)
    BY <1>2, Zenon DEF onEngine, call
  <2> HIDE DEF t, x, r, g
  <2>4. CASE t.up
    <3>1. r \in Backend /\ Keeps(t, r) /\ Balance(r, n, m) /\ Range(r.out) = Range(t.out) \cup {x}
      BY <2>1, <2>2, <2>3, <2>4, Sent, ZenonT(40)
    <3>2. Told(s, k, v, r)
      BY <2>1, <2>2, <3>1 DEF Told, Keeps
    <3> QED BY <3>1, <3>2 DEF r, Handled
  <2>5. CASE ~t.up
    <3>1. r \in Backend /\ Balance(r, n, m) /\ Quiet(t, r) /\ r.token = 0
      BY <2>1, <2>3, <2>5, Restored
    <3>2. Told(s, k, v, r)
      BY <2>1, <3>1 DEF Told, Quiet
    <3> QED BY <3>1, <3>2 DEF r, Handled
  <2> QED BY <2>4, <2>5
<1> QED BY <1>1, <1>2

LEMMA OnSelected ==
  ASSUME NEW s \in Backend, NEW n \in Nat, NEW m \in Nat, Claimed(s, n, m),
         NEW auto \in BOOLEAN, NEW k, NEW v, s.context # None
  PROVE  Handled(s, k, v, onSelected(s, v, auto), n, m)
<1> DEFINE g == Step("again", auto)
           x == Msg(g, "context", None)
           r == onSelected(s, v, auto)
<1>1. x \in OutMsgs /\ x.k \in TxnSteps /\ OutOK(x) /\ x.method # "set"
  <2>1. g \in {"again", "againAuto"}
    BY StepNames
  <2> HIDE DEF g
  <2> QED BY <2>1 DEF Msg, OutMsgs, Kinds, TxnSteps, Args, OutOK, None
<1>2. r = restore(s) \/ r = [s EXCEPT !.out = Append(@, x)]
  BY Zenon DEF onSelected, call
<1> SUFFICES Handled(s, k, v, r, n, m)
  OBVIOUS
<1> HIDE DEF g, x, r
<1>3. CASE r = restore(s)
  BY <1>3, Restored, QuietTold, Zenon DEF Handled
<1>4. CASE r = [s EXCEPT !.out = Append(@, x)]
  <2>1. r \in Backend /\ Keeps(s, r) /\ Balance(r, n, m) /\ Range(r.out) = Range(s.out) \cup {x}
    BY <1>1, <1>4, Sent
  <2>2. Told(s, k, v, r)
    BY <1>1, <2>1 DEF Told, Keeps, Claimed
  <2> QED BY <2>1, <2>2 DEF Handled
<1> QED BY <1>2, <1>3, <1>4

LEMMA OnContextAgain ==
  ASSUME NEW s \in Backend, NEW n \in Nat, NEW m \in Nat, Claimed(s, n, m),
         NEW auto \in BOOLEAN, NEW k \in {"again", "againAuto"}, NEW v
  PROVE  Handled(s, k, v, onContextAgain(s, v, auto), n, m)
<1>1. CASE v # s.context \/ s.engine = 0 \/ ~s.focused
  BY <1>1, Restored, QuietTold, Zenon DEF onContextAgain, Handled
<1>2. CASE ~(v # s.context \/ s.engine = 0 \/ ~s.focused)
  <2> DEFINE t == [s EXCEPT !.next_token = @ + 1, !.token = s.next_token + 1, !.fresh = TRUE]
             r == onContextAgain(s, v, auto)
  <2>1. /\ t \in Backend /\ t.token # 0 /\ t.token = t.next_token /\ t.busy = s.busy /\ t.out = s.out
        /\ t.previous = s.previous /\ t.context = s.context
        /\ t.engine = s.engine /\ t.focused = s.focused /\ t.up = s.up
        /\ t.waiters = s.waiters /\ t.initializing = s.initializing
    <3>1. s.next_token \in Nat /\ s.next_token + 1 \in Nat /\ s.next_token + 1 # 0
      BY DEF Backend
    <3> DEFINE yes == TRUE
               w == s.next_token + 1
    <3>2. yes \in BOOLEAN
      OBVIOUS
    <3>3. t = [s EXCEPT !.next_token = w, !.token = w, !.fresh = yes]
      BY Zenon
    <3> HIDE DEF yes, w, t
    <3>4. w \in Nat /\ w # 0
      BY <3>1 DEF w
    <3> QED BY <3>2, <3>3, <3>4 DEF Backend
  <2>2. r = IF auto THEN finish(t, t.token, TRUE) ELSE t
    BY <1>2, Zenon DEF onContextAgain
  <2> HIDE DEF t, r
  <2>3. Balance(t, n, m)
    BY <2>1, ClaimKept DEF Claimed
  <2>4. CASE auto
    <3>1. r \in Backend /\ Quiet(t, r) /\ Balance(r, n, m) /\ r.token = 0
      BY <2>1, <2>2, <2>3, <2>4, FinishFacts
    <3>2. Told(s, k, v, r)
      BY <2>1, <3>1 DEF Told, Quiet
    <3> QED BY <3>1, <3>2 DEF r, Handled
  <2>5. CASE ~auto
    <3>1. Told(s, k, v, r)
      BY <1>2, <2>1, <2>2, <2>5 DEF Told
    <3> QED BY <2>1, <2>2, <2>3, <2>5, <3>1 DEF r, Handled
  <2> QED BY <2>4, <2>5
<1> QED BY <1>1, <1>2

LEMMA OnRestoreGet ==
  ASSUME NEW s \in Backend, NEW n \in Nat, NEW m \in Nat, Claimed(s, n, m),
         NEW v, v = Ours => s.previous \in Engines
  PROVE  Handled(s, "rget", v, onRestoreGet(s, v), n, m)
<1>1. CASE v # Ours
  <2>1. onRestoreGet(s, v) = restoreFails(s) \/ onRestoreGet(s, v) = Unprepared(s)
    BY <1>1, Zenon DEF onRestoreGet, Unprepared
  <2> QED BY <2>1, Failed, Released, QuietTold, Zenon DEF Handled
<1>2. CASE v = Ours
  <2> DEFINE x == Msg("rset", "set", s.previous)
             r == onRestoreGet(s, v)
  <2>1. x \in OutMsgs /\ x.k \in TxnSteps /\ x.k \notin Mids /\ OutOK(x) /\ x.arg = s.previous
    <3>1. s.previous \in Engines /\ s.previous # Ours
      BY <1>2, TextInputAssumption
    <3> QED BY <3>1 DEF Msg, OutMsgs, Kinds, TxnSteps, Args, OutOK, Mids, Ours
  <2>2. r = restoreFails(s) \/ r = [s EXCEPT !.out = Append(@, x)]
    BY <1>2, Zenon DEF onRestoreGet, call
  <2> SUFFICES Handled(s, "rget", v, r, n, m)
    OBVIOUS
  <2> HIDE DEF x, r
  <2>3. CASE r = restoreFails(s)
    BY <2>3, Failed, QuietTold, Zenon DEF Handled
  <2>4. CASE r = [s EXCEPT !.out = Append(@, x)]
    <3>1. r \in Backend /\ Keeps(s, r) /\ Balance(r, n, m) /\ Range(r.out) = Range(s.out) \cup {x}
      BY <2>1, <2>4, Sent
    <3>2. Told(s, "rget", v, r)
      BY <1>2, <2>1, <3>1 DEF Told, Keeps, Claimed
    <3> QED BY <3>1, <3>2 DEF Handled
  <2> QED BY <2>2, <2>3, <2>4
<1> QED BY <1>1, <1>2

LEMMA OnRestoreSet ==
  ASSUME NEW s \in Backend, NEW n \in Nat, NEW m \in Nat, Claimed(s, n, m), NEW k, NEW v
  PROVE  Handled(s, k, v, onRestoreSet(s, v), n, m)
<1>1. onRestoreSet(s, v) = restoreFails(s) \/ onRestoreSet(s, v) = Unprepared(s)
  BY Zenon DEF onRestoreSet, Unprepared
<1> QED BY <1>1, Failed, Released, QuietTold, Zenon DEF Handled

\* What a reply may carry.
ReplyOK(k, v) ==
  /\ k \in {"ctx", "ctxAuto", "again", "againAuto"} => v \in Contexts \cup {Fake, None}
  /\ k \in {"get", "getAuto", "rget"} => v \in Engines \cup {Ours, None}

\* Which handler a continuation is.
LEMMA ContinueCases ==
  ASSUME NEW s, NEW k, NEW v
  PROVE  /\ k \in {"ctx", "ctxAuto"} => continue(s, k, v) = onContext(s, v, k = "ctxAuto")
         /\ k \in {"get", "getAuto"} => continue(s, k, v) = onEngine(s, v, k = "getAuto")
         /\ k \in {"set", "setAuto"} => continue(s, k, v) = onSelected(s, v, k = "setAuto")
         /\ k \in {"again", "againAuto"} => continue(s, k, v) = onContextAgain(s, v, k = "againAuto")
         /\ k = "rget" => continue(s, k, v) = onRestoreGet(s, v)
         /\ k = "rset" => continue(s, k, v) = onRestoreSet(s, v)
         /\ k = "register" => continue(s, k, v) = initialized(s, v # None)
         /\ k = None => continue(s, k, v) = s
<1> DEFINE o1 == onContext(s, v, k = "ctxAuto")
           o2 == onEngine(s, v, k = "getAuto")
           o3 == onSelected(s, v, k = "setAuto")
           o4 == onContextAgain(s, v, k = "againAuto")
           o5 == onRestoreGet(s, v)
           o6 == onRestoreSet(s, v)
           o7 == initialized(s, v # None)
<1>1. continue(s, k, v) = CASE k \in {"ctx", "ctxAuto"} -> o1
                            [] k \in {"get", "getAuto"} -> o2
                            [] k \in {"set", "setAuto"} -> o3
                            [] k \in {"again", "againAuto"} -> o4
                            [] k = "rget" -> o5
                            [] k = "rset" -> o6
                            [] k = "register" -> o7
                            [] k = None -> s
  BY Zenon DEF continue
<1> SUFFICES /\ k \in {"ctx", "ctxAuto"} => continue(s, k, v) = o1
             /\ k \in {"get", "getAuto"} => continue(s, k, v) = o2
             /\ k \in {"set", "setAuto"} => continue(s, k, v) = o3
             /\ k \in {"again", "againAuto"} => continue(s, k, v) = o4
             /\ k = "rget" => continue(s, k, v) = o5
             /\ k = "rset" => continue(s, k, v) = o6
             /\ k = "register" => continue(s, k, v) = o7
             /\ k = None => continue(s, k, v) = s
  BY Zenon
<1> HIDE DEF o1, o2, o3, o4, o5, o6, o7
<1> QED BY <1>1, SMT DEF None

\* Every continuation of a transaction.
LEMMA Continued ==
  ASSUME NEW s \in Backend, NEW n \in Nat, NEW m \in Nat, Claimed(s, n, m),
         NEW k \in TxnSteps, NEW v, ReplyOK(k, v), k \in Mids => s.context # None,
         k = "rget" /\ v = Ours => s.previous \in Engines
  PROVE  Handled(s, k, v, continue(s, k, v), n, m)
<1>0. /\ k \in {"ctx", "ctxAuto"} => continue(s, k, v) = onContext(s, v, k = "ctxAuto")
      /\ k \in {"get", "getAuto"} => continue(s, k, v) = onEngine(s, v, k = "getAuto")
      /\ k \in {"set", "setAuto"} => continue(s, k, v) = onSelected(s, v, k = "setAuto")
      /\ k \in {"again", "againAuto"} => continue(s, k, v) = onContextAgain(s, v, k = "againAuto")
      /\ k = "rget" => continue(s, k, v) = onRestoreGet(s, v)
      /\ k = "rset" => continue(s, k, v) = onRestoreSet(s, v)
  BY ContinueCases
<1>1. CASE k \in {"ctx", "ctxAuto"}
  <2>1. continue(s, k, v) = onContext(s, v, k = "ctxAuto")
    BY <1>0, <1>1, Zenon
  <2>2. v \in Contexts \cup {Fake, None}
    BY <1>1 DEF ReplyOK
  <2>3. ASSUME NEW auto \in BOOLEAN PROVE Handled(s, k, v, onContext(s, v, auto), n, m)
    BY <1>1, <2>2, OnContext
  <2>4. (k = "ctxAuto") \in BOOLEAN
    OBVIOUS
  <2> QED BY <2>1, <2>3, <2>4, Zenon
<1>2. CASE k \in {"get", "getAuto"}
  <2>1. continue(s, k, v) = onEngine(s, v, k = "getAuto")
    BY <1>0, <1>2, Zenon
  <2>2. v \in Engines \cup {Ours, None} /\ s.context # None
    BY <1>2 DEF ReplyOK, Mids
  <2>3. ASSUME NEW auto \in BOOLEAN PROVE Handled(s, k, v, onEngine(s, v, auto), n, m)
    BY <1>2, <2>2, OnEngine
  <2>4. (k = "getAuto") \in BOOLEAN
    OBVIOUS
  <2> QED BY <2>1, <2>3, <2>4, Zenon
<1>3. CASE k \in {"set", "setAuto"}
  <2>1. continue(s, k, v) = onSelected(s, v, k = "setAuto")
    BY <1>0, <1>3, Zenon
  <2>2. s.context # None
    BY <1>3 DEF Mids
  <2>3. ASSUME NEW auto \in BOOLEAN PROVE Handled(s, k, v, onSelected(s, v, auto), n, m)
    BY <1>3, <2>2, OnSelected
  <2>4. (k = "setAuto") \in BOOLEAN
    OBVIOUS
  <2> QED BY <2>1, <2>3, <2>4, Zenon
<1>4. CASE k \in {"again", "againAuto"}
  <2>1. continue(s, k, v) = onContextAgain(s, v, k = "againAuto")
    BY <1>0, <1>4, Zenon
  <2>3. ASSUME NEW auto \in BOOLEAN PROVE Handled(s, k, v, onContextAgain(s, v, auto), n, m)
    BY <1>4, OnContextAgain
  <2>4. (k = "againAuto") \in BOOLEAN
    OBVIOUS
  <2> QED BY <2>1, <2>3, <2>4, Zenon
<1>5. CASE k = "rget"
  <2>1. continue(s, k, v) = onRestoreGet(s, v)
    BY <1>0, <1>5, Zenon
  <2>2. Handled(s, "rget", v, onRestoreGet(s, v), n, m)
    BY <1>5, OnRestoreGet, Zenon
  <2> QED BY <1>5, <2>1, <2>2, Zenon
<1>6. CASE k = "rset"
  <2>1. continue(s, k, v) = onRestoreSet(s, v)
    BY <1>0, <1>6, Zenon
  <2> QED BY <2>1, OnRestoreSet, Zenon
<1> QED BY <1>1, <1>2, <1>3, <1>4, <1>5, <1>6 DEF TxnSteps

\* initialized: the register call is over, and a waiting performTextInput begins.
LEMMA Initialized ==
  ASSUME NEW s \in Backend, NEW ok \in BOOLEAN, NEW n \in Nat, s.initializing,
         Balance([s EXCEPT !.initializing = FALSE], n, 0)
  PROVE  LET r == initialized(s, ok) IN
         /\ r \in Backend /\ Balance(r, n, 0) /\ ~r.initializing /\ r.waiters = <<>>
         /\ \A x \in Range(r.out) : x \in Range(s.out) \/ (OutOK(x) /\ x.k \notin Mids /\ x.method # "set")
         /\ r.previous = s.previous /\ r.context = s.context
         /\ r.engine = s.engine /\ r.focused = s.focused /\ r.up = s.up
         /\ r.next_token = s.next_token
         /\ r.token = 0 \/ (r.token = s.token /\ r.fresh = s.fresh)
<1> DEFINE t == [s EXCEPT !.ready = ok, !.initializing = FALSE, !.waiters = <<>>]
           u == [s EXCEPT !.initializing = FALSE]
           r == initialized(s, ok)
<1>1. /\ t \in Backend /\ t.busy = u.busy /\ t.token = u.token /\ t.out = u.out
      /\ t.initializing = u.initializing
      /\ t.initializing = FALSE /\ t.waiters = <<>> /\ t.out = s.out /\ t.token = s.token
      /\ t.previous = s.previous /\ t.context = s.context /\ t.engine = s.engine
      /\ t.focused = s.focused /\ t.up = s.up /\ t.next_token = s.next_token /\ t.fresh = s.fresh
  <2> DEFINE no == FALSE
             w == <<>>
  <2>1. no \in BOOLEAN /\ w \in Seq(BOOLEAN)
    OBVIOUS
  <2>2. /\ t = [s EXCEPT !.ready = ok, !.initializing = no, !.waiters = w]
        /\ u = [s EXCEPT !.initializing = no]
    OBVIOUS
  <2> SUFFICES
      /\ t \in Backend /\ t.busy = u.busy /\ t.token = u.token /\ t.out = u.out
      /\ t.initializing = u.initializing
      /\ t.initializing = no /\ t.waiters = w /\ t.out = s.out /\ t.token = s.token
      /\ t.previous = s.previous /\ t.context = s.context /\ t.engine = s.engine
      /\ t.focused = s.focused /\ t.up = s.up /\ t.next_token = s.next_token /\ t.fresh = s.fresh
    OBVIOUS
  <2> HIDE DEF no, w, t, u
  <2> QED BY <2>1, <2>2 DEF Backend
<1>2. Balance(t, n, 0)
  <2> HIDE DEF t, u
  <2>1. Balance(u, n, 0)
    BY DEF u
  <2> QED BY <1>1, <2>1, Zenon DEF Balance
<1>3. r = prepare(t, TRUE) \/ r = t
  BY Zenon DEF initialized
<1> HIDE DEF t, u
<1>4. r \in Backend /\ Quiet(t, r) /\ Balance(r, n, 0)
  <2>1. CASE r = prepare(t, TRUE)
    BY <1>1, <1>2, <2>1, PrepareFacts
  <2>2. CASE r = t
    BY <1>1, <1>2, <2>2 DEF Quiet
  <2> QED BY <1>3, <2>1, <2>2
<1> HIDE DEF r
<1>5. /\ r \in Backend /\ Balance(r, n, 0) /\ ~r.initializing /\ r.waiters = <<>>
      /\ \A x \in Range(r.out) : x \in Range(s.out) \/ (OutOK(x) /\ x.k \notin Mids /\ x.method # "set")
      /\ r.previous = s.previous /\ r.context = s.context
      /\ r.engine = s.engine /\ r.focused = s.focused /\ r.up = s.up
      /\ r.next_token = s.next_token
      /\ r.token = 0 \/ (r.token = s.token /\ r.fresh = s.fresh)
  BY <1>1, <1>4 DEF Quiet
<1> QED BY <1>5 DEF r

----------------------------------------------------------------------------
(* The inductive invariant: types, owners and queues.                      *)

\* What the daemon may have sent, with id engines created.
InOK(m, id) ==
  /\ m.method # "reply" => m.k = None
  /\ m.method \in FocusSignals => m.arg \in 1 .. id
  /\ m.method = "reply" => ReplyOK(m.k, m.arg)

TypesOK ==
  /\ b \in Backend /\ in \in Seq(InMsgs) /\ engine_id \in Nat /\ b.engine <= engine_id
  /\ global \in Engines \cup {Ours} /\ (global = Ours => engine_id # 0)
  /\ ctx \in Contexts \cup {Fake} /\ chosen \in Engines /\ raced \in BOOLEAN
  /\ b.token \in {0, b.next_token} /\ (b.waiters # <<>> => b.initializing)

QueuesOK == (\A x \in Range(b.out) : OutOK(x)) /\ (\A x \in Range(in) : InOK(x, engine_id))

\* An engine that is the user's, unless the user switched in between.
Users(e) == e \in Engines /\ (raced \/ e = chosen)

AsksOurs(x) == x.method = "set" /\ x.arg = Ours
SawOurs(x) == x.method = "reply" /\ x.k = "rget" /\ x.arg = Ours

\* Once our engine is asked for, there, or seen to be there, the engine to go back
\* to is known and is the user's.
PreviousOK ==
  (global = Ours \/ (\E x \in Range(b.out) : AsksOurs(x)) \/ (\E x \in Range(in) : SawOurs(x)))
    => Users(b.previous)

AsksUsers(x) == x.method = "set" /\ x.arg # Ours
SawUsers(x) == x.method = "reply" /\ x.k \in {"get", "getAuto"} /\ x.arg \in Engines

\* An engine of the user's that is asked for or reported is the one chosen.
ChoiceOK ==
  /\ global # Ours => Users(global)
  /\ \A x \in Range(b.out) : AsksUsers(x) => Users(x.arg)
  /\ \A x \in Range(in) : SawUsers(x) => Users(x.arg)

ContextOK == \A x \in Range(b.out) \cup Range(in) : x.k \in Mids => b.context # None

Core == TypesOK /\ BusyHasOneOwner /\ QueuesOK /\ PreviousOK /\ ChoiceOK /\ ContextOK

LEMMA OwnersBalance ==
  BusyHasOneOwner <=> Balance(b, Steps(in, TxnSteps), Steps(in, {"register"}))
BY Zenon DEF BusyHasOneOwner, Owners, Balance

LEMMA OwnersBalanceNext ==
  BusyHasOneOwner' <=> Balance(b', Steps(in', TxnSteps), Steps(in', {"register"}))
BY Zenon DEF BusyHasOneOwner, Owners, Balance, Steps

\* A request that the host may add to its queue in the state r.
MayAsk(r, x) ==
  /\ OutOK(x) /\ (x.k \in Mids => r.context # None)
  /\ AsksOurs(x) => Users(r.previous)
  /\ AsksUsers(x) => Users(x.arg)

\* A step of the host: it may consume what the daemon sent, and asks what it may.
HostStep(n, m) ==
  /\ UNCHANGED <<daemon, ghosts>>
  /\ in' \in Seq(InMsgs) /\ Range(in') \subseteq Range(in)
  /\ n = Steps(in', TxnSteps) /\ m = Steps(in', {"register"})
  /\ b' \in Backend /\ Balance(b', n, m) /\ b'.engine <= engine_id
  /\ \A x \in Range(b'.out) : x \in Range(b.out) \/ MayAsk(b', x)
  /\ b'.previous = b.previous \/ Users(b'.previous)
  /\ b'.context = b.context \/ b'.context # None
  /\ b'.token \in {0, b'.next_token} /\ (b'.waiters # <<>> => b'.initializing)

LEMMA HostStepCore ==
  ASSUME Core, NEW n, NEW m, HostStep(n, m)
  PROVE  Core'
<1>1. /\ global' = global /\ ctx' = ctx /\ engine_id' = engine_id /\ chosen' = chosen /\ raced' = raced
  BY DEF HostStep, daemon, ghosts
<1>2. TypesOK'
  BY <1>1 DEF Core, TypesOK, HostStep
<1>3. BusyHasOneOwner'
  BY OwnersBalanceNext DEF HostStep
<1>4. QueuesOK'
  BY <1>1 DEF Core, QueuesOK, HostStep, MayAsk
<1>5. \A e : Users(e)' <=> Users(e)
  BY <1>1 DEF Users
<1>6. Users(b.previous) => Users(b'.previous)
  BY DEF HostStep
<1>7. PreviousOK'
  BY <1>1, <1>5, <1>6 DEF Core, PreviousOK, HostStep, MayAsk
<1>8. ChoiceOK'
  BY <1>1, <1>5 DEF Core, ChoiceOK, HostStep, MayAsk
<1>9. ContextOK'
  BY DEF Core, ContextOK, HostStep, MayAsk
<1> QED BY <1>2, <1>3, <1>4, <1>7, <1>8, <1>9 DEF Core

LEMMA QuietStep ==
  ASSUME Core, UNCHANGED <<in, daemon, ghosts>>, b' \in Backend, Quiet(b, b'),
         Balance(b', Steps(in, TxnSteps), Steps(in, {"register"}))
  PROVE  Core'
<1>1. \A x \in Range(b'.out) : x \in Range(b.out) \/ MayAsk(b', x)
  BY DEF Quiet, MayAsk, AsksOurs, AsksUsers
<1>2. b \in Backend /\ in \in Seq(InMsgs) /\ b.engine <= engine_id /\ b.token \in {0, b.next_token}
      /\ (b.waiters # <<>> => b.initializing)
  BY DEF Core, TypesOK
<1>3. in' = in
  OBVIOUS
<1>4. b'.engine <= engine_id /\ b'.token \in {0, b'.next_token} /\ (b'.waiters # <<>> => b'.initializing)
      /\ b'.previous = b.previous /\ b'.context = b.context
  BY <1>2 DEF Quiet
<1>5. HostStep(Steps(in, TxnSteps), Steps(in, {"register"}))
  BY <1>1, <1>2, <1>3, <1>4 DEF HostStep
<1> QED BY <1>5, HostStepCore

LEMMA CoreFacts ==
  ASSUME Core
  PROVE  /\ b \in Backend /\ in \in Seq(InMsgs)
         /\ Steps(in, TxnSteps) \in Nat /\ Steps(in, {"register"}) \in Nat
         /\ Balance(b, Steps(in, TxnSteps), Steps(in, {"register"}))
<1>1. in \in Seq(InMsgs)
  BY DEF Core, TypesOK
<1>2. Steps(in, TxnSteps) \in Nat /\ Steps(in, {"register"}) \in Nat
  BY <1>1, StepsType
<1> QED BY <1>1, <1>2, OwnersBalance DEF Core, TypesOK

\* Every step of the host but a dispatch and a new connection is quiet.
LEMMA PrepareQuiet ==
  ASSUME Core, NEW auto \in BOOLEAN, b' = prepare(b, auto)
  PROVE  /\ b' \in Backend /\ Quiet(b, b')
         /\ Balance(b', Steps(in, TxnSteps), Steps(in, {"register"}))
BY CoreFacts, PrepareFacts

LEMMA FinishQuiet ==
  ASSUME Core, NEW t, t # 0, NEW valid \in BOOLEAN, b' = finish(b, t, valid)
  PROVE  /\ b' \in Backend /\ Quiet(b, b')
         /\ Balance(b', Steps(in, TxnSteps), Steps(in, {"register"}))
<1>1. CASE t # b.token
  <2>1. b' = b
    BY <1>1, Zenon DEF finish
  <2>2. Quiet(b, b)
    BY DEF Quiet
  <2> QED BY <2>1, <2>2, CoreFacts
<1>2. CASE t = b.token
  BY <1>2, CoreFacts, FinishFacts
<1> QED BY <1>1, <1>2

LEMMA ExpireQuiet ==
  ASSUME Core, Expire
  PROVE  /\ b' \in Backend /\ Quiet(b, b')
         /\ Balance(b', Steps(in, TxnSteps), Steps(in, {"register"}))
<1> DEFINE no == FALSE
<1>1. b.token # 0 /\ b' = restore([b EXCEPT !.token = 0])
  BY DEF Expire
<1>2. finish(b, b.token, no) = restore([b EXCEPT !.token = 0])
  BY <1>1, Zenon DEF finish
<1>3. no \in BOOLEAN
  OBVIOUS
<1> HIDE DEF no
<1>4. b' = finish(b, b.token, no)
  BY <1>1, <1>2
<1> QED BY <1>1, <1>3, <1>4, FinishQuiet

LEMMA AvailableQuiet ==
  ASSUME Core, NEW auto \in BOOLEAN, AvailableAnswers(auto)
  PROVE  Core' /\ b'.engine = b.engine /\ b'.focused = b.focused /\ b'.up = b.up /\ b'.context = b.context
         /\ (b'.token = 0 \/ (b'.token = b.token /\ b'.fresh = b.fresh))
<1>1. UNCHANGED <<in, daemon, ghosts>>
  BY DEF AvailableAnswers
<1>2. CASE b' = b
  <2>1. Quiet(b, b')
    BY <1>2 DEF Quiet
  <2> QED BY <1>1, <1>2, <2>1, CoreFacts, QuietStep
<1>3. CASE b' = prepare(b, TRUE)
  <2> DEFINE yes == TRUE
  <2>1. yes \in BOOLEAN /\ b' = prepare(b, yes)
    BY <1>3
  <2> HIDE DEF yes
  <2>2. /\ b' \in Backend /\ Quiet(b, b')
        /\ Balance(b', Steps(in, TxnSteps), Steps(in, {"register"}))
    BY <2>1, PrepareQuiet
  <2>3. Core'
    BY <1>1, <2>2, QuietStep
  <2> QED BY <2>2, <2>3 DEF Quiet
<1>4. CASE b' = [b EXCEPT !.waiters = Append(@, auto)] /\ b.initializing
  <2>1. b \in Backend /\ b.waiters \in Seq(BOOLEAN)
    BY CoreFacts DEF Backend
  <2>2. Append(b.waiters, auto) \in Seq(BOOLEAN)
    BY <2>1, AppendProperties
  <2>3. /\ b' \in Backend /\ b'.busy = b.busy /\ b'.token = b.token /\ b'.out = b.out
        /\ b'.initializing = b.initializing /\ b'.engine = b.engine /\ b'.focused = b.focused
        /\ b'.up = b.up /\ b'.context = b.context /\ b'.previous = b.previous
        /\ b'.next_token = b.next_token /\ b'.fresh = b.fresh
    BY <1>4, <2>1, <2>2 DEF Backend
  <2>4. Balance(b', Steps(in, TxnSteps), Steps(in, {"register"}))
    BY <2>3, CoreFacts, Zenon DEF Balance
  <2>5. b.engine <= engine_id /\ b.token \in {0, b.next_token} /\ in \in Seq(InMsgs)
    BY DEF Core, TypesOK
  <2>6. b'.engine <= engine_id /\ b'.token \in {0, b'.next_token} /\ b'.initializing /\ in' = in
    BY <1>1, <1>4, <2>3, <2>5
  <2>7. HostStep(Steps(in, TxnSteps), Steps(in, {"register"}))
    BY <1>1, <2>3, <2>4, <2>5, <2>6 DEF HostStep
  <2>8. Core'
    BY <2>7, HostStepCore
  <2> QED BY <2>3, <2>8
<1> QED BY <1>2, <1>3, <1>4, Zenon DEF AvailableAnswers

\* What a signal does.
Signalled(s, m, r) ==
  /\ \A x \in Range(r.out) : x \in Range(s.out) \/ (OutOK(x) /\ x.k \notin Mids /\ x.method # "set")
  /\ r.previous = s.previous /\ r.context = s.context /\ r.up = s.up
  /\ r.waiters = s.waiters /\ r.initializing = s.initializing
  /\ r.next_token = s.next_token /\ r.token = s.token
  /\ m.method = "create" => r.engine = m.arg
  /\ m.method # "create" => r.engine \in {0, s.engine}
  /\ m.method = "disconnected" => r.engine = s.engine /\ r.focused = s.focused /\ r.fresh = s.fresh
  /\ m.method = "focus-in" /\ s.engine = m.arg => ~r.fresh
  /\ m.method = "destroy" /\ s.engine = m.arg => r.engine = 0

LEMMA FocusInFacts ==
  ASSUME NEW s \in Backend, NEW n \in Nat, NEW mm \in Nat, Balance(s, n, mm),
         NEW m \in InMsgs, m.method = "focus-in"
  PROVE  LET r == focusIn(s, m.arg) IN r \in Backend /\ Balance(r, n, mm) /\ Signalled(s, m, r)
<1> DEFINE r == focusIn(s, m.arg)
           t == [s EXCEPT !.focused = TRUE, !.fresh = FALSE]
           u == [t EXCEPT !.busy = TRUE]
<1>1. /\ t \in Backend /\ ~t.fresh /\ t.busy = s.busy /\ t.token = s.token /\ t.out = s.out
      /\ t.initializing = s.initializing /\ t.previous = s.previous /\ t.context = s.context
      /\ t.engine = s.engine /\ t.up = s.up /\ t.waiters = s.waiters /\ t.next_token = s.next_token
  BY DEF Backend
<1>2. /\ u \in Backend /\ ~u.fresh /\ u.busy /\ u.token = s.token /\ u.out = s.out
      /\ u.initializing = s.initializing /\ u.previous = s.previous /\ u.context = s.context
      /\ u.engine = s.engine /\ u.up = s.up /\ u.waiters = s.waiters /\ u.next_token = s.next_token
  <2> HIDE DEF t
  <2> QED BY <1>1 DEF Backend
<1>3. \/ r = s /\ s.engine # m.arg
      \/ r = t
      \/ r = restore(u) /\ ~s.busy
  BY Zenon DEF focusIn
<1> SUFFICES r \in Backend /\ Balance(r, n, mm) /\ Signalled(s, m, r)
  OBVIOUS
<1> HIDE DEF r, t, u
<1>4. CASE r = s /\ s.engine # m.arg
  BY <1>4 DEF Signalled
<1>5. CASE r = t
  <2>1. Balance(t, n, mm)
    BY <1>1, Zenon DEF Balance
  <2> QED BY <1>1, <1>5, <2>1 DEF Signalled
<1>6. CASE r = restore(u) /\ ~s.busy
  <2>1. Steps(s.out, TxnSteps) = 0 /\ n = 0 /\ s.token = 0
    BY <1>6, IdleFacts
  <2>2. Claimed(u, n, mm)
    BY <1>2, <2>1 DEF Claimed, Balance
  <2>3. r \in Backend /\ Balance(r, n, mm) /\ Quiet(u, r) /\ r.token = 0 /\ Keeps(u, r)
    BY <1>2, <1>6, <2>2, Restored, RestoreFields
  <2> QED BY <1>2, <2>1, <2>3 DEF Signalled, Quiet, Keeps
<1> QED BY <1>3, <1>4, <1>5, <1>6

LEMMA SignalFacts ==
  ASSUME NEW s \in Backend, NEW n \in Nat, NEW mm \in Nat, Balance(s, n, mm),
         NEW m \in InMsgs, m.method \in FocusSignals \cup {"disconnected"},
         m.method \in FocusSignals => m.arg \in Nat
  PROVE  LET r == signal(s, m) IN r \in Backend /\ Balance(r, n, mm) /\ Signalled(s, m, r)
<1> DEFINE r == signal(s, m)
           o1 == focusIn(s, m.arg)
<1> SUFFICES r \in Backend /\ Balance(r, n, mm) /\ Signalled(s, m, r)
  OBVIOUS
<1>1. ASSUME NEW q \in Backend, q.busy = s.busy, q.token = s.token, q.out = s.out,
             q.initializing = s.initializing
      PROVE  Balance(q, n, mm)
  BY <1>1, Zenon DEF Balance
<1>2. CASE m.method = "disconnected"
  <2>1. r = [s EXCEPT !.ready = FALSE]
    <3> HIDE DEF o1
    <3> QED BY <1>2 DEF signal
  <2> HIDE DEF r
  <2>2. r \in Backend /\ r.busy = s.busy /\ r.token = s.token /\ r.out = s.out /\ r.initializing = s.initializing
        /\ Signalled(s, m, r)
    BY <1>2, <2>1 DEF Signalled, Backend
  <2> QED BY <1>1, <2>2
<1>3. CASE m.method = "create"
  <2>1. r = [s EXCEPT !.engine = m.arg, !.focused = FALSE] /\ m.arg \in Nat
    BY <1>3 DEF signal, FocusSignals
  <2> HIDE DEF r
  <2>2. r \in Backend /\ r.busy = s.busy /\ r.token = s.token /\ r.out = s.out /\ r.initializing = s.initializing
        /\ Signalled(s, m, r)
    BY <1>3, <2>1 DEF Signalled, Backend
  <2> QED BY <1>1, <2>2
<1>4. CASE m.method = "focus-in"
  <2>1. r = o1
    <3> HIDE DEF o1
    <3>1. o1 = focusIn(s, m.arg)
      BY DEF o1
    <3> QED BY <1>4, <3>1 DEF signal
  <2> QED BY <1>4, <2>1, FocusInFacts
<1>5. CASE m.method = "focus-out"
  <2>1. r = focusOut(s, m.arg)
    BY <1>5 DEF signal
  <2> HIDE DEF r
  <2>2. r \in Backend /\ r.busy = s.busy /\ r.token = s.token /\ r.out = s.out /\ r.initializing = s.initializing
        /\ Signalled(s, m, r)
    BY <1>5, <2>1 DEF Signalled, Backend, focusOut
  <2> QED BY <1>1, <2>2
<1>6. CASE m.method = "destroy"
  <2>1. r = IF s.engine # m.arg THEN s ELSE [s EXCEPT !.engine = 0, !.focused = FALSE]
    BY <1>6 DEF signal
  <2> HIDE DEF r
  <2>2. r \in Backend /\ r.busy = s.busy /\ r.token = s.token /\ r.out = s.out /\ r.initializing = s.initializing
        /\ Signalled(s, m, r)
    BY <1>6, <2>1 DEF Signalled, Backend
  <2> QED BY <1>1, <2>2
<1> QED BY <1>2, <1>3, <1>4, <1>5, <1>6 DEF FocusSignals

\* What a dispatch does to the engine and the token.
DispatchEffect(m) ==
  /\ b'.up = b.up
  /\ m.method \in FocusSignals => Signalled(b, m, b')
  /\ m.method \notin FocusSignals =>
       /\ b'.engine = b.engine /\ b'.focused = b.focused
       /\ \/ b'.token = 0
          \/ b'.token = b.token /\ b'.fresh = b.fresh /\ b'.context = b.context
          \/ /\ m.method = "reply" /\ m.k \in {"again", "againAuto"} /\ m.arg = b.context
             /\ b'.context = b.context /\ b.context # None

LEMMA DispatchFacts ==
  ASSUME Core, Dispatch
  PROVE  Core' /\ DispatchEffect(Head(in))
<1> DEFINE m == Head(in)
           n == Steps(Tail(in), TxnSteps)
           mm == Steps(Tail(in), {"register"})
<1>1. in # <<>> /\ in' = Tail(in) /\ UNCHANGED <<daemon, ghosts>>
      /\ b' = IF m.method = "reply" THEN continue(b, m.k, m.arg) ELSE signal(b, m)
  BY DEF Dispatch
<1>2. /\ b \in Backend /\ in \in Seq(InMsgs) /\ engine_id \in Nat /\ b.engine <= engine_id
      /\ b.token \in {0, b.next_token} /\ (b.waiters # <<>> => b.initializing)
  BY DEF Core, TypesOK
<1>3. /\ m \in InMsgs /\ Tail(in) \in Seq(InMsgs) /\ m \in Range(in) /\ Range(Tail(in)) \subseteq Range(in)
  <2>1. m \in InMsgs /\ Tail(in) \in Seq(InMsgs) /\ Len(Tail(in)) = Len(in) - 1
        /\ \A i \in 1 .. Len(Tail(in)) : Tail(in)[i] = in[i + 1]
    BY <1>1, <1>2, HeadTailProperties
  <2>2. DOMAIN in = 1 .. Len(in) /\ Len(in) \in Nat /\ Len(in) # 0 /\ m = in[1]
    BY <1>1, <1>2, LenProperties, EmptySeq
  <2>3. DOMAIN Tail(in) = 1 .. Len(Tail(in))
    BY <2>1, LenProperties
  <2> QED BY <2>1, <2>2, <2>3 DEF Range
<1>4. n \in Nat /\ mm \in Nat
  BY <1>3, StepsType
<1>5. /\ Steps(in, TxnSteps) = n + (IF m.k \in TxnSteps THEN 1 ELSE 0)
      /\ Steps(in, {"register"}) = mm + (IF m.k \in {"register"} THEN 1 ELSE 0)
  BY <1>1, <1>2, StepsTail
<1>6. Balance(b, Steps(in, TxnSteps), Steps(in, {"register"}))
  BY CoreFacts
<1>7. InOK(m, engine_id)
  BY <1>3 DEF Core, QueuesOK
<1>8. n = Steps(in', TxnSteps) /\ mm = Steps(in', {"register"})
  BY <1>1
<1>9. m.k \in Mids => b.context # None
  BY <1>3 DEF Core, ContextOK
<1>10. SawOurs(m) => Users(b.previous)
  BY <1>3 DEF Core, PreviousOK
<1>11. SawUsers(m) => Users(m.arg)
  BY <1>3 DEF Core, ChoiceOK
<1>12. m.k \in TxnSteps \cup {"register", None} /\ m.method \in FocusSignals \cup {"reply", "disconnected"}
  BY <1>3 DEF InMsgs, Kinds
<1> SUFFICES Core' /\ DispatchEffect(m)
  OBVIOUS
<1>13. in' \in Seq(InMsgs) /\ Range(in') \subseteq Range(in)
  BY <1>1, <1>3
<1> HIDE DEF m, n, mm
<1>14. ASSUME m.k = None PROVE Balance(b, n, mm)
  <2>1. m.k \notin TxnSteps /\ m.k \notin {"register"}
    BY <1>14 DEF TxnSteps, None
  <2> QED BY <1>4, <1>5, <1>6, <2>1
<1>15. CASE m.method = "reply" /\ m.k \in TxnSteps
  <2>1. Claimed(b, n, mm)
    <3>1. Steps(b.out, TxnSteps) \in Nat /\ m.k \notin {"register"}
      BY <1>2, <1>15, StepsType DEF Backend, TxnSteps
    <3>2. Steps(in, TxnSteps) = n + 1 /\ Steps(in, {"register"}) = mm
      BY <1>4, <1>5, <1>15, <3>1
    <3> DEFINE c == IF b.token # 0 THEN 1 ELSE 0
               d == IF b.busy THEN 1 ELSE 0
    <3>3. c \in Nat /\ (c = 0 => b.token = 0) /\ d <= 1 /\ d \in Nat /\ (d = 1 => b.busy)
      OBVIOUS
    <3>4. Steps(b.out, TxnSteps) + (n + 1) + c = d
      BY <1>6, <3>2, Zenon DEF Balance
    <3> HIDE DEF c, d
    <3>5. Steps(b.out, TxnSteps) = 0 /\ n = 0 /\ c = 0 /\ d = 1
      BY <1>4, <3>1, <3>3, <3>4
    <3> QED BY <1>6, <3>2, <3>3, <3>5 DEF Claimed, Balance
  <2>2. ReplyOK(m.k, m.arg) /\ (m.k = "rget" /\ m.arg = Ours => b.previous \in Engines)
    BY <1>7, <1>10, <1>15 DEF InOK, SawOurs, Users
  <2>3. b' = continue(b, m.k, m.arg)
    BY <1>1, <1>15
  <2>4. Handled(b, m.k, m.arg, b', n, mm)
    BY <1>2, <1>4, <1>9, <1>15, <2>1, <2>2, <2>3, Continued
  <2>5. b' \in Backend /\ Balance(b', n, mm) /\ Told(b, m.k, m.arg, b')
    BY <2>4 DEF Handled
  <2>6. \A x \in Range(b'.out) : x \in Range(b.out) \/ MayAsk(b', x)
    <3> SUFFICES ASSUME NEW x \in Range(b'.out), x \notin Range(b.out) PROVE MayAsk(b', x)
      OBVIOUS
    <3>1. OutOK(x) /\ (x.k \in Mids => b'.context # None)
      BY <2>5 DEF Told
    <3>2. AsksOurs(x) => Users(b'.previous)
      <4> SUFFICES ASSUME AsksOurs(x) PROVE Users(b'.previous)
        OBVIOUS
      <4>1. CASE m.k \in {"get", "getAuto"} /\ m.arg \in Engines /\ b'.previous = m.arg
        BY <1>11, <1>15, <4>1 DEF SawUsers
      <4>2. CASE x.arg = b.previous /\ m.k = "rget" /\ m.arg = Ours
        BY <2>2, <4>2, TextInputAssumption DEF AsksOurs
      <4> QED BY <2>5, <4>1, <4>2 DEF Told, AsksOurs
    <3>3. AsksUsers(x) => Users(x.arg)
      BY <1>10, <1>15, <2>5 DEF Told, AsksUsers, SawOurs
    <3> QED BY <3>1, <3>2, <3>3 DEF MayAsk
  <2>7. b'.previous = b.previous \/ Users(b'.previous)
    BY <1>11, <1>15, <2>5 DEF Told, SawUsers
  <2>8. /\ b'.context = b.context \/ b'.context # None
        /\ b'.engine <= engine_id /\ b'.token \in {0, b'.next_token} /\ (b'.waiters # <<>> => b'.initializing)
    BY <1>2, <2>5 DEF Told
  <2>9. HostStep(n, mm)
    BY <1>1, <1>8, <1>13, <2>5, <2>6, <2>7, <2>8 DEF HostStep
  <2>10. Core'
    BY <2>9, HostStepCore
  <2>11. DispatchEffect(m)
    BY <1>9, <1>15, <2>5 DEF Told, DispatchEffect, FocusSignals, Mids
  <2> QED BY <2>10, <2>11
<1>16. CASE m.method = "reply" /\ m.k = "register"
  <2> DEFINE ok == m.arg # None
             s == [b EXCEPT !.initializing = FALSE]
  <2>1. b' = initialized(b, ok) /\ ok \in BOOLEAN
    <3>1. b' = continue(b, m.k, m.arg)
      BY <1>1, <1>16
    <3>2. m.k = "register" => continue(b, m.k, m.arg) = initialized(b, m.arg # None)
      BY ContinueCases
    <3> QED BY <1>16, <3>1, <3>2, Zenon
  <2>2. s.initializing = FALSE /\ s.busy = b.busy /\ s.out = b.out /\ s.token = b.token
    BY <1>2 DEF Backend
  <2>3. b.initializing /\ Balance(s, n, 0) /\ mm = 0
    <3>1. m.k \notin TxnSteps /\ m.k \in {"register"} /\ Steps(b.out, {"register"}) \in Nat
      BY <1>2, <1>16, StepsType DEF Backend, TxnSteps
    <3>2. Steps(in, TxnSteps) = n /\ Steps(in, {"register"}) = mm + 1
      BY <1>4, <1>5, <3>1
    <3> DEFINE d == IF b.initializing THEN 1 ELSE 0
    <3>3. d \in Nat /\ d <= 1 /\ (d = 1 => b.initializing)
      OBVIOUS
    <3>4. Steps(b.out, {"register"}) + (mm + 1) = d
      BY <1>6, <3>2, Zenon DEF Balance
    <3> HIDE DEF d, s
    <3>5. Steps(b.out, {"register"}) = 0 /\ mm = 0 /\ d = 1
      BY <1>4, <3>1, <3>3, <3>4
    <3>6. Balance(s, n, 0)
      BY <1>6, <2>2, <3>2, <3>5 DEF Balance
    <3> QED BY <3>3, <3>5, <3>6
  <2>4. /\ b' \in Backend /\ Balance(b', n, 0) /\ ~b'.initializing /\ b'.waiters = <<>>
        /\ \A x \in Range(b'.out) : x \in Range(b.out) \/ (OutOK(x) /\ x.k \notin Mids /\ x.method # "set")
        /\ b'.previous = b.previous /\ b'.context = b.context
        /\ b'.engine = b.engine /\ b'.focused = b.focused /\ b'.up = b.up
        /\ b'.next_token = b.next_token
        /\ b'.token = 0 \/ (b'.token = b.token /\ b'.fresh = b.fresh)
    <3> HIDE DEF ok
    <3> QED BY <1>2, <1>4, <2>1, <2>3, Initialized
  <2>5. \A x \in Range(b'.out) : x \in Range(b.out) \/ MayAsk(b', x)
    BY <2>4 DEF MayAsk, AsksOurs, AsksUsers
  <2>6. b'.engine <= engine_id /\ b'.token \in {0, b'.next_token} /\ (b'.waiters # <<>> => b'.initializing)
    BY <1>2, <2>4
  <2>7. HostStep(n, mm)
    BY <1>1, <1>8, <1>13, <2>3, <2>4, <2>5, <2>6 DEF HostStep
  <2>8. Core'
    BY <2>7, HostStepCore
  <2>9. DispatchEffect(m)
    BY <1>16, <2>4 DEF DispatchEffect, FocusSignals
  <2> QED BY <2>8, <2>9
<1>17. CASE m.method = "reply" /\ m.k = None
  <2>1. b' = b
    <3>1. b' = continue(b, m.k, m.arg)
      BY <1>1, <1>17
    <3>2. m.k = None => continue(b, m.k, m.arg) = b
      BY ContinueCases
    <3> QED BY <1>17, <3>1, <3>2, Zenon
  <2>2. HostStep(n, mm)
    BY <1>1, <1>2, <1>8, <1>13, <1>14, <1>17, <2>1 DEF HostStep
  <2>3. DispatchEffect(m)
    BY <1>17, <2>1 DEF DispatchEffect, FocusSignals
  <2> QED BY <2>2, <2>3, HostStepCore
<1>18. CASE m.method # "reply"
  <2>1. m.k = None /\ (m.method \in FocusSignals => m.arg \in 1 .. engine_id)
    BY <1>7, <1>18 DEF InOK
  <2>2. m.method \in FocusSignals => m.arg \in Nat /\ m.arg <= engine_id
    BY <1>2, <2>1
  <2>3. m.method \in FocusSignals \cup {"disconnected"} /\ b' = signal(b, m)
    BY <1>1, <1>12, <1>18
  <2>4. b' \in Backend /\ Balance(b', n, mm) /\ Signalled(b, m, b')
    BY <1>2, <1>3, <1>4, <1>14, <2>1, <2>2, <2>3, SignalFacts DEF m
  <2>5. \A x \in Range(b'.out) : x \in Range(b.out) \/ MayAsk(b', x)
    BY <2>4 DEF Signalled, MayAsk, AsksOurs, AsksUsers
  <2>6. b'.engine <= engine_id /\ b'.token \in {0, b'.next_token} /\ (b'.waiters # <<>> => b'.initializing)
        /\ b'.previous = b.previous /\ b'.context = b.context
    BY <1>2, <2>2, <2>4 DEF Signalled, FocusSignals
  <2>7. HostStep(n, mm)
    BY <1>1, <1>8, <1>13, <2>4, <2>5, <2>6 DEF HostStep
  <2>8. Core'
    BY <2>7, HostStepCore
  <2>9. DispatchEffect(m)
    BY <2>3, <2>4 DEF Signalled, DispatchEffect, FocusSignals
  <2> QED BY <2>8, <2>9
<1> QED BY <1>12, <1>15, <1>16, <1>17, <1>18

\* The requests at the places o.
Kept(q, o) == [i \in DOMAIN o |-> q[o[i]]]

\* A new connection keeps no request but some for the user's engine.
LEMMA KeptRequests ==
  ASSUME NEW M, NEW q \in Seq(M), NEW o \in InOrder({}) \cup InOrder(UserSets(q)),
         NEW p, p = Kept(q, o)
  PROVE  /\ p \in Seq(M)
         /\ \A x \in Range(p) : x \in Range(q) /\ AsksUsers(x)
         /\ \A i \in DOMAIN p : \E j \in DOMAIN q : p[i] = q[j]
<1>1. DOMAIN q = 1 .. Len(q) /\ Len(q) \in Nat /\ \A j \in DOMAIN q : q[j] \in M
  BY LenProperties, ElementOfSeq
<1>2. PICK W \in {{}, UserSets(q)} : o \in InOrder(W)
  OBVIOUS
<1>3. W \subseteq DOMAIN q /\ W \subseteq Nat /\ \A j \in W : AsksUsers(q[j])
  BY <1>1 DEF UserSets, AsksUsers
<1>4. IsFiniteSet(W)
  <2>1. IsFiniteSet(1 .. Len(q))
    BY <1>1, FS_Interval
  <2>2. W \in SUBSET (1 .. Len(q))
    BY <1>1, <1>3
  <2> QED BY <2>1, <2>2, FS_Subset
<1>5. DOMAIN o = 1 .. Cardinality(W) /\ Cardinality(W) \in Nat /\ \A i \in DOMAIN o : o[i] \in W
  BY <1>2, <1>3, <1>4, InOrderFacts
<1>6. DOMAIN p = 1 .. Cardinality(W) /\ \A i \in DOMAIN p : p[i] = q[o[i]] /\ o[i] \in DOMAIN q /\ AsksUsers(p[i])
  BY <1>3, <1>5 DEF Kept
<1>7. p \in Seq(M)
  <2>1. p \in [1 .. Cardinality(W) -> M]
    BY <1>1, <1>5, <1>6 DEF Kept
  <2> QED BY <1>5, <2>1, IsASeq
<1> QED BY <1>6, <1>7 DEF Range

\* No request, no continuation.
LEMMA StepsEmpty ==
  ASSUME NEW K
  PROVE  Steps(<<>>, K) = 0
<1>1. {i \in DOMAIN <<>> : <<>>[i].k \in K} = {}
  OBVIOUS
<1> QED BY <1>1, FS_EmptySet DEF Steps

LEMMA InitializeCore ==
  ASSUME Core, NEW auto \in BOOLEAN, Initialize(auto)
  PROVE  Core' /\ in' = <<>> /\ b'.engine = 0 /\ engine_id' = engine_id
<1>1. PICK connected \in BOOLEAN, o \in InOrder({}) \cup InOrder(UserSets(b.out)) :
        LET t == [b EXCEPT !.engine = 0, !.focused = FALSE, !.ready = FALSE, !.up = connected,
                           !.waiters = <<auto>>, !.initializing = TRUE,
                           !.out = [i \in DOMAIN o |-> b.out[o[i]]]]
        IN  b' = call(t, "register", "register", None, initialized(t, FALSE))
  BY DEF Initialize
<1>2. /\ ~b.busy /\ ~b.initializing /\ in' = <<>> /\ global' = (IF global = Ours THEN chosen ELSE global)
      /\ ctx' = ctx /\ engine_id' = engine_id /\ chosen' = chosen /\ raced' = raced
  BY DEF Initialize, ghosts
<1> DEFINE p == [i \in DOMAIN o |-> b.out[o[i]]]
           no == FALSE
           yes == TRUE
           w == <<auto>>
           x == Msg("register", "register", None)
           t == [b EXCEPT !.engine = 0, !.focused = no, !.ready = no, !.up = connected,
                          !.waiters = w, !.initializing = yes, !.out = p]
           u == [t EXCEPT !.initializing = FALSE]
<1>3. b' = [t EXCEPT !.out = Append(@, x)] \/ b' = initialized(t, no)
  BY <1>1, Zenon DEF call
<1>4. b \in Backend /\ b.out \in Seq(OutMsgs) /\ b.token \in {0, b.next_token} /\ engine_id \in Nat
  BY DEF Core, TypesOK, Backend
<1>5. /\ p \in Seq(OutMsgs)
      /\ \A y \in Range(p) : y \in Range(b.out) /\ AsksUsers(y)
      /\ \A i \in DOMAIN p : \E j \in DOMAIN b.out : p[i] = b.out[j]
  <2>1. p = Kept(b.out, o)
    BY DEF Kept
  <2> HIDE DEF p
  <2> QED BY <1>4, <2>1, KeptRequests
<1>6. no \in BOOLEAN /\ yes \in BOOLEAN /\ w \in Seq(BOOLEAN) /\ ~no /\ yes
  OBVIOUS
<1> HIDE DEF p, no, yes, w
<1>7. /\ t \in Backend /\ t.engine = 0 /\ t.waiters = w /\ t.initializing = yes /\ t.out = p
      /\ t.busy = b.busy /\ t.token = b.token /\ t.next_token = b.next_token
      /\ t.previous = b.previous /\ t.context = b.context
  BY <1>4, <1>5, <1>6 DEF Backend
<1>8. x \in OutMsgs /\ OutOK(x) /\ x.k = "register" /\ x.k \notin Mids /\ x.method # "set"
  BY PlainMsgs
<1>9. /\ Balance(b, Steps(in, TxnSteps), Steps(in, {"register"})) /\ Steps(in, TxnSteps) \in Nat
      /\ Steps(in, {"register"}) \in Nat
  BY CoreFacts
<1>10. Steps(b.out, TxnSteps) = 0 /\ b.token = 0
  BY <1>2, <1>4, <1>9, IdleFacts
<1>11. Steps(b.out, {"register"}) = 0
  <2>1. Steps(b.out, {"register"}) \in Nat
    BY <1>4, StepsType
  <2> QED BY <1>2, <1>9, <2>1 DEF Balance
<1>12. Steps(p, TxnSteps) = 0 /\ Steps(p, {"register"}) = 0
  <2>1. \A j \in DOMAIN b.out : b.out[j].k \notin TxnSteps /\ b.out[j].k \notin {"register"}
    BY <1>4, <1>10, <1>11, StepsZero
  <2>2. \A i \in DOMAIN p : p[i].k \notin TxnSteps /\ p[i].k \notin {"register"}
    BY <1>5, <2>1
  <2> QED BY <1>5, <2>2, StepsNone
<1>13. Steps(in', TxnSteps) = 0 /\ Steps(in', {"register"}) = 0
  BY <1>2, StepsEmpty
<1>14. /\ b' \in Backend /\ Balance(b', 0, 0) /\ b'.engine = 0 /\ b'.token = 0
       /\ (b'.waiters # <<>> => b'.initializing)
       /\ b'.context = b.context
       /\ \A y \in Range(b'.out) : y \in Range(p) \/ (OutOK(y) /\ y.k \notin Mids /\ y.method # "set")
  <2>1. CASE b' = [t EXCEPT !.out = Append(@, x)]
    <3> HIDE DEF t, x
    <3>1. b' \in Backend /\ Keeps(t, b') /\ b'.busy = t.busy /\ b'.out = Append(p, x)
      BY <1>7, <1>8, <2>1, SendFields
    <3>2. Range(Append(p, x)) = Range(p) \cup {x}
      BY <1>5, <1>8, RangeAppend
    <3>3. /\ Steps(b'.out, TxnSteps) = 0 + (IF x.k \in TxnSteps THEN 1 ELSE 0)
          /\ Steps(b'.out, {"register"}) = 0 + (IF x.k \in {"register"} THEN 1 ELSE 0)
      BY <1>5, <1>8, <1>12, <3>1, StepsAppend
    <3>4. x.k \notin TxnSteps /\ x.k \in {"register"}
      BY <1>8 DEF TxnSteps
    <3>5. Steps(b'.out, TxnSteps) = 0 /\ Steps(b'.out, {"register"}) = 1
      BY <3>3, <3>4
    <3>6. b'.token = 0 /\ ~b'.busy /\ b'.initializing
      BY <1>2, <1>6, <1>7, <1>10, <3>1 DEF Keeps
    <3>7. Balance(b', 0, 0)
      BY <3>5, <3>6 DEF Balance
    <3> QED BY <1>7, <1>8, <3>1, <3>2, <3>6, <3>7 DEF Keeps
  <2>2. CASE b' = initialized(t, no)
    <3>1. u.initializing = FALSE /\ u.busy = b.busy /\ u.token = b.token /\ u.out = p
      <4> HIDE DEF t
      <4> QED BY <1>7 DEF Backend
    <3>2. Balance(u, 0, 0)
      <4> HIDE DEF u
      <4> QED BY <1>2, <1>10, <1>12, <3>1 DEF Balance
    <3>3. t.initializing
      <4> HIDE DEF t
      <4> QED BY <1>6, <1>7
    <3>4. Balance([t EXCEPT !.initializing = FALSE], 0, 0)
      <4> HIDE DEF t
      <4> QED BY <3>2 DEF u
    <3> HIDE DEF t, u
    <3>5. /\ b' \in Backend /\ Balance(b', 0, 0) /\ ~b'.initializing /\ b'.waiters = <<>>
          /\ \A y \in Range(b'.out) : y \in Range(t.out) \/ (OutOK(y) /\ y.k \notin Mids /\ y.method # "set")
          /\ b'.context = t.context /\ b'.engine = t.engine
          /\ b'.token = 0 \/ (b'.token = t.token /\ b'.fresh = t.fresh)
      BY <1>6, <1>7, <2>2, <3>3, <3>4, Initialized
    <3> QED BY <1>7, <1>10, <3>5
  <2> QED BY <1>3, <2>1, <2>2
<1> HIDE DEF t, u, x
<1>15. Range(in') = {} /\ in' \in Seq(InMsgs)
  BY <1>2 DEF Range
<1>16. TypesOK'
  BY <1>2, <1>14, <1>15, TextInputAssumption DEF Core, TypesOK
<1>17. BusyHasOneOwner'
  BY <1>13, <1>14, OwnersBalanceNext
<1>18. QueuesOK'
  BY <1>5, <1>14, <1>15 DEF Core, QueuesOK
<1>19. global' # Ours /\ \A e : Users(e)' <=> Users(e)
  BY <1>2, TextInputAssumption DEF Core, TypesOK, Users
<1>20. PreviousOK'
  BY <1>5, <1>14, <1>15, <1>19 DEF PreviousOK, AsksOurs, AsksUsers
<1>21. ChoiceOK'
  <2>1. Users(global)'
    BY <1>2, <1>19 DEF Core, ChoiceOK, TypesOK, Users
  <2>2. \A y \in Range(b'.out) : AsksUsers(y) => Users(y.arg)
    BY <1>5, <1>14, <1>19 DEF Core, ChoiceOK, AsksUsers
  <2> QED BY <1>15, <1>19, <2>1, <2>2 DEF ChoiceOK
<1>22. ContextOK'
  BY <1>5, <1>14, <1>15 DEF Core, ContextOK
<1> QED BY <1>2, <1>14, <1>16, <1>17, <1>18, <1>20, <1>21, <1>22, SMTT(30) DEF Core

\* A step of the daemon: it takes or fails requests and sends r.
EnvStep(r) ==
  /\ b' \in Backend
  /\ b'.initializing = b.initializing /\ b'.busy = b.busy /\ b'.waiters = b.waiters
  /\ b'.engine = b.engine /\ b'.previous = b.previous /\ b'.context = b.context
  /\ b'.token = b.token /\ b'.next_token = b.next_token
  /\ \A x \in Range(b'.out) : \E y \in Range(b.out) :
       x.method = y.method /\ x.arg = y.arg /\ x.k \in {y.k, None}
  /\ r \in Seq(InMsgs) /\ in' = in \o r
  /\ engine_id' \in Nat /\ engine_id <= engine_id'
  /\ \A x \in Range(r) : /\ InOK(x, engine_id')
                         /\ x.k \in Mids => b.context # None
                         /\ SawOurs(x) => Users(b.previous)
                         /\ SawUsers(x) => Users(x.arg)
  /\ \A K \in {TxnSteps, {"register"}} : Steps(b.out, K) = Steps(b'.out, K) + Steps(r, K)
  /\ chosen' = chosen /\ raced' = raced /\ ctx' \in Contexts \cup {Fake}
  /\ \/ global' = global
     \/ global' = Ours /\ Users(b.previous) /\ engine_id' # 0
     \/ global' # Ours /\ Users(global')

LEMMA InOKGrows ==
  ASSUME NEW x, NEW i \in Nat, NEW j \in Nat, i <= j, InOK(x, i)
  PROVE  InOK(x, j)
BY DEF InOK

LEMMA EnvStepCore ==
  ASSUME Core, NEW r, EnvStep(r)
  PROVE  Core'
<1>1. /\ b \in Backend /\ in \in Seq(InMsgs) /\ r \in Seq(InMsgs) /\ in' = in \o r
      /\ engine_id \in Nat /\ engine_id' \in Nat /\ engine_id <= engine_id' /\ b.engine \in Nat
      /\ b' \in Backend
  BY DEF Core, TypesOK, EnvStep, Backend
<1>2. Range(in') = Range(in) \cup Range(r) /\ in' \in Seq(InMsgs)
  BY <1>1, RangeConcatenation, ConcatProperties
<1>3. \A e : Users(e)' <=> Users(e)
  BY DEF Users, EnvStep
<1>4. TypesOK'
  <2>1. b'.engine <= engine_id'
    BY <1>1 DEF Core, TypesOK, EnvStep
  <2>2. global' \in Engines \cup {Ours} /\ (global' = Ours => engine_id' # 0)
    BY <1>1 DEF Core, TypesOK, EnvStep, Users
  <2> QED BY <1>1, <1>2, <2>1, <2>2 DEF Core, TypesOK, EnvStep
<1>5. BusyHasOneOwner'
  <2>1. ASSUME NEW K \in {TxnSteps, {"register"}}
        PROVE  Steps(b'.out, K) + Steps(in', K) = Steps(b.out, K) + Steps(in, K)
    <3>1. Steps(in', K) = Steps(in, K) + Steps(r, K)
      BY <1>1, StepsConcat
    <3>2. Steps(b.out, K) = Steps(b'.out, K) + Steps(r, K)
      BY DEF EnvStep
    <3>3. b'.out \in Seq(OutMsgs)
      BY <1>1 DEF Backend
    <3>4. Steps(in, K) \in Nat /\ Steps(r, K) \in Nat /\ Steps(b'.out, K) \in Nat
      BY <1>1, <3>3, StepsType
    <3> DEFINE i1 == Steps(in, K)
               r1 == Steps(r, K)
               o1 == Steps(b'.out, K)
    <3> SUFFICES o1 + Steps(in', K) = Steps(b.out, K) + i1
      OBVIOUS
    <3> HIDE DEF i1, r1, o1
    <3>5. Steps(in', K) = i1 + r1 /\ Steps(b.out, K) = o1 + r1
      BY <3>1, <3>2 DEF i1, r1, o1
    <3>6. i1 \in Nat /\ r1 \in Nat /\ o1 \in Nat
      BY <3>4 DEF i1, r1, o1
    <3> QED BY <3>5, <3>6
  <2>2. Owners(TxnSteps)' = Owners(TxnSteps) /\ Owners({"register"})' = Owners({"register"})
    BY <2>1, Zenon DEF Owners, Steps
  <2>3. b'.token = b.token /\ b'.busy = b.busy /\ b'.initializing = b.initializing /\ BusyHasOneOwner
    BY DEF Core, EnvStep
  <2> QED BY <2>2, <2>3, Zenon DEF BusyHasOneOwner
<1>6. QueuesOK'
  <2>1. \A x \in Range(b'.out) : OutOK(x)
    <3> SUFFICES ASSUME NEW x \in Range(b'.out) PROVE OutOK(x)
      OBVIOUS
    <3>1. PICK y \in Range(b.out) : x.method = y.method /\ x.arg = y.arg /\ x.k \in {y.k, None}
      BY DEF EnvStep
    <3>2. OutOK(y)
      BY DEF Core, QueuesOK
    <3> QED BY <3>1, <3>2 DEF OutOK, None
  <2>2. \A x \in Range(in') : InOK(x, engine_id')
    BY <1>1, <1>2, InOKGrows DEF Core, QueuesOK, EnvStep
  <2> QED BY <2>1, <2>2 DEF QueuesOK
<1>7. \A x \in Range(b'.out) : AsksOurs(x) => \E y \in Range(b.out) : AsksOurs(y)
  BY DEF EnvStep, AsksOurs
<1>8. PreviousOK'
  <2> SUFFICES ASSUME global' = Ours \/ (\E x \in Range(b'.out) : AsksOurs(x))
                                     \/ (\E x \in Range(in') : SawOurs(x))
               PROVE  Users(b.previous)
    BY <1>3 DEF PreviousOK, EnvStep
  <2>1. CASE global' = Ours
    BY <2>1 DEF Core, PreviousOK, EnvStep
  <2>2. CASE \E x \in Range(b'.out) : AsksOurs(x)
    BY <1>7, <2>2 DEF Core, PreviousOK
  <2>3. CASE \E x \in Range(in') : SawOurs(x)
    BY <1>2, <2>3 DEF Core, PreviousOK, EnvStep
  <2> QED BY <2>1, <2>2, <2>3
<1>9. ChoiceOK'
  <2>1. global' # Ours => Users(global')
    BY DEF Core, ChoiceOK, EnvStep
  <2>2. \A x \in Range(b'.out) : AsksUsers(x) => Users(x.arg)
    BY DEF Core, ChoiceOK, EnvStep, AsksUsers
  <2>3. \A x \in Range(in') : SawUsers(x) => Users(x.arg)
    BY <1>2 DEF Core, ChoiceOK, EnvStep
  <2> QED BY <1>3, <2>1, <2>2, <2>3 DEF ChoiceOK
<1>10. ContextOK'
  <2>1. \A x \in Range(b'.out) : x.k \in Mids => b.context # None
    BY DEF Core, ContextOK, EnvStep, Mids, None
  <2>2. \A x \in Range(in') : x.k \in Mids => b.context # None
    BY <1>2 DEF Core, ContextOK, EnvStep
  <2> QED BY <2>1, <2>2 DEF ContextOK, EnvStep
<1> QED BY <1>4, <1>5, <1>6, <1>8, <1>9, <1>10 DEF Core

LEMMA SignalsFacts ==
  ASSUME NEW names \in Seq(FocusSignals), NEW e \in Nat, NEW S, S = Signals(names, e)
  PROVE  /\ S \in Seq(InMsgs) /\ DOMAIN S = DOMAIN names
         /\ \A i \in DOMAIN names : S[i].k = None /\ S[i].method = names[i] /\ S[i].arg = e
         /\ \A x \in Range(S) : x.k = None /\ x.method \in FocusSignals /\ x.arg = e
<1>1. DOMAIN names = 1 .. Len(names) /\ Len(names) \in Nat /\ \A i \in DOMAIN names : names[i] \in FocusSignals
  BY LenProperties, ElementOfSeq
<1>2. DOMAIN S = DOMAIN names /\ \A i \in DOMAIN names : S[i] = Msg(None, names[i], e)
  BY DEF Signals
<1>3. \A i \in DOMAIN names : Msg(None, names[i], e) \in InMsgs
  BY <1>1 DEF Msg, InMsgs, Kinds, Args
<1>4. S \in [1 .. Len(names) -> InMsgs]
  BY <1>1, <1>2, <1>3 DEF Signals
<1>5. S \in Seq(InMsgs)
  BY <1>1, <1>4, IsASeq
<1>6. \A i \in DOMAIN names : S[i].k = None /\ S[i].method = names[i] /\ S[i].arg = e
  BY <1>2 DEF Msg
<1>7. \A x \in Range(S) : x.k = None /\ x.method \in FocusSignals /\ x.arg = e
  BY <1>1, <1>2, <1>6 DEF Range
<1> QED BY <1>2, <1>5, <1>6, <1>7

\* The daemon takes a request.
LEMMA TakeFacts ==
  ASSUME Core, b.out # <<>>, b' = [b EXCEPT !.out = Tail(@)]
  PROVE  /\ b' \in Backend /\ b.out \in Seq(OutMsgs) /\ b'.out = Tail(b.out) /\ Keeps(b, b')
         /\ b'.busy = b.busy /\ Range(b'.out) \subseteq Range(b.out)
         /\ Head(b.out) \in Range(b.out) /\ Head(b.out) \in OutMsgs /\ OutOK(Head(b.out))
         /\ \A K : Steps(b.out, K) = Steps(b'.out, K) + (IF Head(b.out).k \in K THEN 1 ELSE 0)
         /\ \A K : Steps(b'.out, K) \in Nat
<1>1. b \in Backend /\ b.out \in Seq(OutMsgs)
  BY DEF Core, TypesOK, Backend
<1>2. Head(b.out) \in OutMsgs /\ Tail(b.out) \in Seq(OutMsgs) /\ Len(Tail(b.out)) = Len(b.out) - 1
      /\ \A i \in 1 .. Len(Tail(b.out)) : Tail(b.out)[i] = b.out[i + 1]
  BY <1>1, HeadTailProperties
<1>3. b' \in Backend /\ b'.out = Tail(b.out) /\ Keeps(b, b') /\ b'.busy = b.busy
  BY <1>1, <1>2 DEF Backend, Keeps
<1>4. Range(Tail(b.out)) \subseteq Range(b.out) /\ Head(b.out) \in Range(b.out)
  <2>1. DOMAIN b.out = 1 .. Len(b.out) /\ Len(b.out) \in Nat /\ Len(b.out) # 0 /\ Head(b.out) = b.out[1]
    BY <1>1, LenProperties, EmptySeq
  <2>2. DOMAIN Tail(b.out) = 1 .. Len(Tail(b.out))
    BY <1>2, LenProperties
  <2> QED BY <1>2, <2>1, <2>2 DEF Range
<1>5. OutOK(Head(b.out))
  BY <1>4 DEF Core, QueuesOK
<1>6. \A K : Steps(b.out, K) = Steps(b'.out, K) + (IF Head(b.out).k \in K THEN 1 ELSE 0)
  BY <1>1, <1>3, StepsTail
<1>7. \A K : Steps(b'.out, K) \in Nat
  BY <1>2, <1>3, StepsType
<1> QED BY <1>1, <1>2, <1>3, <1>4, <1>5, <1>6, <1>7

\* It answers with v, after signals of its own.
LEMMA AnswerStep ==
  ASSUME Core, b.out # <<>>, b' = [b EXCEPT !.out = Tail(@)],
         NEW S \in Seq(InMsgs), NEW v \in Args, NEW id \in Nat, engine_id' = id, engine_id <= id,
         \A x \in Range(S) : x.k = None /\ x.method \in FocusSignals /\ x.arg \in 1 .. id,
         in' = in \o (S \o Reply(Head(b.out), v)), ReplyOK(Head(b.out).k, v),
         Head(b.out).k = "rget" /\ v = Ours => Users(b.previous),
         Head(b.out).k \in {"get", "getAuto"} /\ v \in Engines => Users(v),
         chosen' = chosen, raced' = raced, ctx' \in Contexts \cup {Fake},
         \/ global' = global
         \/ global' = Ours /\ Users(b.previous) /\ id # 0
         \/ global' # Ours /\ Users(global')
  PROVE  EnvStep(S \o Reply(Head(b.out), v)) /\ Reply(Head(b.out), v) \in Seq(InMsgs)
<1> DEFINE m == Head(b.out)
           y == Msg(m.k, "reply", v)
           R == Reply(m, v)
<1>1. /\ b' \in Backend /\ Keeps(b, b') /\ b'.busy = b.busy /\ Range(b'.out) \subseteq Range(b.out)
      /\ m \in Range(b.out) /\ m \in OutMsgs
      /\ \A K : Steps(b.out, K) = Steps(b'.out, K) + (IF m.k \in K THEN 1 ELSE 0)
  BY TakeFacts
<1> HIDE DEF m
<1>2. y \in InMsgs /\ y.k = m.k /\ y.method = "reply" /\ y.arg = v
  BY <1>1 DEF Msg, InMsgs, OutMsgs, Kinds
<1> HIDE DEF y
<1>R. R = <<y>>
  BY DEF Reply, y
<1>3. R \in Seq(InMsgs) /\ Range(R) = {y}
  BY <1>2, <1>R DEF Range
<1> HIDE DEF R
<1>4. Range(S \o R) = Range(S) \cup {y} /\ S \o R \in Seq(InMsgs)
  BY <1>3, RangeConcatenation, ConcatProperties
<1>5. \A x \in Range(S) : /\ InOK(x, id) /\ x.k \notin Mids /\ ~SawOurs(x) /\ ~SawUsers(x)
  BY DEF InOK, Mids, None, FocusSignals, SawOurs, SawUsers
<1>6. /\ InOK(y, id) /\ (y.k \in Mids => b.context # None) /\ (SawOurs(y) => Users(b.previous))
      /\ (SawUsers(y) => Users(y.arg))
  BY <1>1, <1>2 DEF InOK, Core, ContextOK, SawOurs, SawUsers, FocusSignals, m
<1>7. ASSUME NEW K \in {TxnSteps, {"register"}}
      PROVE  Steps(b.out, K) = Steps(b'.out, K) + Steps(S \o R, K)
  <2>1. Steps(S \o R, K) = Steps(S, K) + Steps(R, K)
    BY <1>3, StepsConcat
  <2>2. Steps(R, K) = IF m.k \in K THEN 1 ELSE 0
    BY <1>2, <1>R, StepsOne
  <2>3. Steps(S, K) = 0
    <3>1. \A i \in DOMAIN S : S[i].k = None
      BY DEF Range
    <3>2. None \notin K
      BY DEF TxnSteps, None
    <3> QED BY <3>1, <3>2, StepsNone
  <2> DEFINE c == IF m.k \in K THEN 1 ELSE 0
  <2>4. c \in Nat /\ Steps(b.out, K) = Steps(b'.out, K) + c
    BY <1>1
  <2>5. Steps(S \o R, K) = 0 + c
    BY <2>1, <2>2, <2>3
  <2> HIDE DEF c
  <2>6. Steps(S \o R, K) = c
    BY <2>4, <2>5
  <2> QED BY <2>4, <2>6
<1>8. \A x \in Range(b'.out) : \E z \in Range(b.out) : x.method = z.method /\ x.arg = z.arg /\ x.k \in {z.k, None}
  BY <1>1
<1>9. EnvStep(S \o R)
  BY <1>1, <1>4, <1>5, <1>6, <1>7, <1>8 DEF EnvStep, Keeps, m, R
<1> QED BY <1>3, <1>9 DEF R, m

----------------------------------------------------------------------------
(* The inductive invariant: signals and focus.                             *)

Has(q, S) == \E i \in DOMAIN q : q[i].method \in S
IsLast(q, S, i) ==
  i \in DOMAIN q /\ q[i].method \in S /\ \A j \in DOMAIN q : j > i => q[j].method \notin S

\* The engine the Backend knows is the last one created, or will be.
EngineKnown ==
  /\ ~Has(in, {"create"}) => b.engine \in {0, engine_id}
  /\ \A i \in DOMAIN in : IsLast(in, {"create"}, i) => in[i].arg = engine_id

\* The last signal on its way tells how things are.
LastSignal ==
  b.up => \A i \in DOMAIN in : IsLast(in, FocusSignals, i) =>
            in[i].arg = engine_id /\ in[i].method = (IF global = Ours THEN "focus-in" ELSE "destroy")

\* An engine that has focus, as far as the signals go, is the global one.
FocusedIsOurs == b.up /\ ~Has(in, FocusSignals) /\ b.engine # 0 /\ b.focused => global = Ours

Again(x) == x.method = "reply" /\ x.k \in {"again", "againAuto"}

\* A second context that is no longer right is followed by a signal.
AgainCurrent ==
  global = Ours => \A i \in DOMAIN in : Again(in[i]) /\ in[i].arg \notin {None, ctx} =>
                     \E j \in DOMAIN in : j > i /\ in[j].method \in FocusSignals

\* The context a token was given for is the focused one.
Prepared ==
  b.up /\ b.token # 0 /\ b.fresh /\ b.engine # 0 /\ b.focused /\ ~Has(in, FocusSignals)
    => ctx = b.context

FocusInv == EngineKnown /\ LastSignal /\ FocusedIsOurs /\ AgainCurrent /\ Prepared

LEMMA ConcatPlaces ==
  ASSUME NEW M, NEW p \in Seq(M), NEW q \in Seq(M)
  PROVE  /\ Len(p) \in Nat /\ DOMAIN p = 1 .. Len(p) /\ Len(q) \in Nat /\ DOMAIN q = 1 .. Len(q)
         /\ DOMAIN (p \o q) = 1 .. Len(p) + Len(q)
         /\ \A i \in DOMAIN p : (p \o q)[i] = p[i] /\ i \in DOMAIN (p \o q)
         /\ \A i \in DOMAIN q : (p \o q)[Len(p) + i] = q[i] /\ Len(p) + i \in DOMAIN (p \o q)
         /\ \A i \in DOMAIN (p \o q) : i \in DOMAIN p \/ \E j \in DOMAIN q : i = Len(p) + j
<1>1. DOMAIN p = 1 .. Len(p) /\ Len(p) \in Nat /\ DOMAIN q = 1 .. Len(q) /\ Len(q) \in Nat
  BY LenProperties
<1>2. p \o q \in Seq(M) /\ Len(p \o q) = Len(p) + Len(q)
      /\ \A i \in 1 .. Len(p) + Len(q) : (p \o q)[i] = IF i <= Len(p) THEN p[i] ELSE q[i - Len(p)]
  BY ConcatProperties
<1>3. DOMAIN (p \o q) = 1 .. Len(p) + Len(q)
  BY <1>2, LenProperties
<1> DEFINE r == p \o q
           a == Len(p)
           c == Len(q)
<1>4. a \in Nat /\ c \in Nat /\ DOMAIN p = 1 .. a /\ DOMAIN q = 1 .. c /\ DOMAIN r = 1 .. a + c
      /\ \A i \in 1 .. a + c : r[i] = IF i <= a THEN p[i] ELSE q[i - a]
  BY <1>1, <1>2, <1>3
<1> SUFFICES /\ \A i \in DOMAIN p : r[i] = p[i] /\ i \in DOMAIN r
             /\ \A i \in DOMAIN q : r[a + i] = q[i] /\ a + i \in DOMAIN r
             /\ \A i \in DOMAIN r : i \in DOMAIN p \/ \E j \in DOMAIN q : i = a + j
  BY <1>1, <1>3
<1> HIDE DEF r, a, c
<1>5. \A i \in DOMAIN p : r[i] = p[i] /\ i \in DOMAIN r
  BY <1>4
<1>6. ASSUME NEW i \in DOMAIN q PROVE r[a + i] = q[i] /\ a + i \in DOMAIN r
  <2>1. a + i \in 1 .. a + c /\ ~(a + i <= a) /\ (a + i) - a = i
    BY <1>4
  <2> QED BY <1>4, <2>1
<1>7. ASSUME NEW i \in DOMAIN r, i \notin DOMAIN p PROVE \E j \in DOMAIN q : i = a + j
  <2>1. i - a \in 1 .. c /\ i = a + (i - a)
    BY <1>4, <1>7
  <2> QED BY <1>4, <2>1
<1> QED BY <1>5, <1>6, <1>7

LEMMA LastBefore ==
  ASSUME NEW M, NEW p \in Seq(M), NEW q \in Seq(M), NEW S, ~Has(q, S),
         NEW i, IsLast(p \o q, S, i)
  PROVE  IsLast(p, S, i) /\ (p \o q)[i] = p[i]
<1> DEFINE r == p \o q
           a == Len(p)
<1>1. /\ a \in Nat /\ DOMAIN p = 1 .. a
      /\ \A j \in DOMAIN p : r[j] = p[j] /\ j \in DOMAIN r
      /\ \A j \in DOMAIN q : r[a + j] = q[j] /\ a + j \in DOMAIN r
      /\ \A j \in DOMAIN r : j \in DOMAIN p \/ \E l \in DOMAIN q : j = a + l
  BY ConcatPlaces
<1>2. IsLast(r, S, i)
  OBVIOUS
<1> SUFFICES IsLast(p, S, i) /\ r[i] = p[i]
  OBVIOUS
<1> HIDE DEF r, a
<1>3. i \in DOMAIN p
  BY <1>1, <1>2 DEF Has, IsLast
<1> QED BY <1>1, <1>2, <1>3 DEF IsLast

LEMMA LastAfter ==
  ASSUME NEW M, NEW p \in Seq(M), NEW q \in Seq(M), NEW S, Has(q, S),
         NEW i, IsLast(p \o q, S, i)
  PROVE  \E l \in DOMAIN q : IsLast(q, S, l) /\ (p \o q)[i] = q[l]
<1> DEFINE r == p \o q
           a == Len(p)
<1>1. /\ a \in Nat /\ DOMAIN p = 1 .. a /\ DOMAIN q = 1 .. Len(q) /\ Len(q) \in Nat
      /\ \A j \in DOMAIN p : r[j] = p[j] /\ j \in DOMAIN r
      /\ \A j \in DOMAIN q : r[a + j] = q[j] /\ a + j \in DOMAIN r
      /\ \A j \in DOMAIN r : j \in DOMAIN p \/ \E l \in DOMAIN q : j = a + l
  BY ConcatPlaces
<1>2. IsLast(r, S, i)
  OBVIOUS
<1> SUFFICES \E l \in DOMAIN q : IsLast(q, S, l) /\ r[i] = q[l]
  OBVIOUS
<1> HIDE DEF r, a
<1>3. PICK j \in DOMAIN q : q[j].method \in S
  BY DEF Has
<1>4. i \notin DOMAIN p
  <2> SUFFICES ASSUME i \in DOMAIN p PROVE FALSE
    OBVIOUS
  <2>1. a + j > i
    BY <1>1
  <2>2. r[a + j].method \in S /\ a + j \in DOMAIN r
    BY <1>1, <1>3
  <2> QED BY <1>2, <2>1, <2>2 DEF IsLast
<1>5. PICK l \in DOMAIN q : i = a + l
  BY <1>1, <1>2, <1>4 DEF IsLast
<1>6. ASSUME NEW n \in DOMAIN q, n > l PROVE q[n].method \notin S
  <2>1. a + n > i
    BY <1>1, <1>5, <1>6
  <2> QED BY <1>1, <1>2, <2>1 DEF IsLast
<1> QED BY <1>1, <1>2, <1>5, <1>6 DEF IsLast

LEMMA TailPlaces ==
  ASSUME NEW M, NEW q \in Seq(M), q # <<>>
  PROVE  /\ Len(q) \in Nat /\ Len(q) # 0 /\ DOMAIN q = 1 .. Len(q) /\ Head(q) = q[1]
         /\ \A i \in DOMAIN Tail(q) : i \in Nat /\ i > 0 /\ i + 1 \in DOMAIN q /\ Tail(q)[i] = q[i + 1]
         /\ \A i \in DOMAIN q : i = 1 \/ (i - 1 \in DOMAIN Tail(q) /\ Tail(q)[i - 1] = q[i])
<1>1. DOMAIN q = 1 .. Len(q) /\ Len(q) \in Nat /\ Len(q) # 0 /\ Head(q) = q[1]
  BY LenProperties, EmptySeq
<1>2. Tail(q) \in Seq(M) /\ Len(Tail(q)) = Len(q) - 1 /\ \A i \in 1 .. Len(Tail(q)) : Tail(q)[i] = q[i + 1]
  BY HeadTailProperties
<1>3. DOMAIN Tail(q) = 1 .. Len(q) - 1
  BY <1>2, LenProperties
<1> DEFINE t == Tail(q)
           n == Len(q)
<1>4. DOMAIN t = 1 .. n - 1 /\ DOMAIN q = 1 .. n /\ n \in Nat /\ n # 0 /\ \A i \in 1 .. n - 1 : t[i] = q[i + 1]
  BY <1>1, <1>2, <1>3
<1> SUFFICES /\ \A i \in DOMAIN t : i \in Nat /\ i > 0 /\ i + 1 \in DOMAIN q /\ t[i] = q[i + 1]
             /\ \A i \in DOMAIN q : i = 1 \/ (i - 1 \in DOMAIN t /\ t[i - 1] = q[i])
  BY <1>1
<1> HIDE DEF t, n
<1>5. \A i \in DOMAIN t : i \in Nat /\ i > 0 /\ i + 1 \in DOMAIN q /\ t[i] = q[i + 1]
  BY <1>4
<1>6. ASSUME NEW i \in DOMAIN q, i # 1 PROVE i - 1 \in DOMAIN t /\ t[i - 1] = q[i]
  <2>1. i - 1 \in 1 .. n - 1 /\ (i - 1) + 1 = i
    BY <1>4, <1>6
  <2> QED BY <1>4, <2>1
<1> QED BY <1>5, <1>6

LEMMA LastOfTail ==
  ASSUME NEW M, NEW q \in Seq(M), q # <<>>, NEW S, NEW i \in DOMAIN Tail(q), IsLast(Tail(q), S, i)
  PROVE  i + 1 \in DOMAIN q /\ IsLast(q, S, i + 1) /\ Tail(q)[i] = q[i + 1]
<1> DEFINE t == Tail(q)
<1>1. /\ Len(q) \in Nat /\ DOMAIN q = 1 .. Len(q)
      /\ \A j \in DOMAIN t : j \in Nat /\ j > 0 /\ j + 1 \in DOMAIN q /\ t[j] = q[j + 1]
      /\ \A j \in DOMAIN q : j = 1 \/ (j - 1 \in DOMAIN t /\ t[j - 1] = q[j])
  BY TailPlaces
<1>2. IsLast(t, S, i) /\ i \in DOMAIN t
  OBVIOUS
<1> SUFFICES i + 1 \in DOMAIN q /\ IsLast(q, S, i + 1) /\ t[i] = q[i + 1]
  OBVIOUS
<1> HIDE DEF t
<1>3. i \in Nat /\ i > 0 /\ i + 1 \in DOMAIN q /\ t[i] = q[i + 1]
  BY <1>1, <1>2
<1>4. ASSUME NEW j \in DOMAIN q, j > i + 1 PROVE q[j].method \notin S
  <2>1. j # 1 /\ j - 1 > i
    BY <1>1, <1>3, <1>4
  <2> QED BY <1>1, <1>2, <2>1 DEF IsLast
<1> QED BY <1>2, <1>3, <1>4 DEF IsLast

LEMMA HeadIsLast ==
  ASSUME NEW M, NEW q \in Seq(M), q # <<>>, NEW S, Head(q).method \in S, ~Has(Tail(q), S)
  PROVE  1 \in DOMAIN q /\ IsLast(q, S, 1) /\ q[1] = Head(q)
<1> DEFINE t == Tail(q)
<1>1. /\ Len(q) \in Nat /\ Len(q) # 0 /\ DOMAIN q = 1 .. Len(q) /\ Head(q) = q[1]
      /\ \A j \in DOMAIN q : j = 1 \/ (j - 1 \in DOMAIN t /\ t[j - 1] = q[j])
  BY TailPlaces
<1>2. ~Has(t, S)
  OBVIOUS
<1> HIDE DEF t
<1>3. \A j \in DOMAIN q : j > 1 => q[j].method \notin S
  BY <1>1, <1>2 DEF Has
<1> QED BY <1>1, <1>3 DEF IsLast

LEMMA FocusHost ==
  ASSUME FocusInv, UNCHANGED <<in, daemon>>,
         b'.engine = b.engine, b'.focused = b.focused, b'.up = b.up, b'.context = b.context,
         b'.token = 0 \/ (b'.token = b.token /\ b'.fresh = b.fresh)
  PROVE  FocusInv'
<1>1. in' = in /\ global' = global /\ ctx' = ctx /\ engine_id' = engine_id
  BY DEF daemon
<1>2. EngineKnown' /\ LastSignal' /\ FocusedIsOurs' /\ AgainCurrent'
  BY <1>1 DEF FocusInv, EngineKnown, LastSignal, FocusedIsOurs, AgainCurrent
<1>3. Prepared'
  BY <1>1 DEF FocusInv, Prepared
<1> QED BY <1>2, <1>3 DEF FocusInv

\* The daemon sends no signal.
LEMMA FocusReply ==
  ASSUME FocusInv, in \in Seq(InMsgs), NEW r \in Seq(InMsgs), in' = in \o r, ~Has(r, FocusSignals),
         \A x \in Range(r) : Again(x) => x.arg \in {None, ctx},
         engine_id' = engine_id, ctx' = ctx \/ global # Ours,
         global' = Ours => global = Ours, b'.up => b.up /\ (global = Ours => global' = Ours),
         b'.engine = b.engine, b'.focused = b.focused, b'.context = b.context,
         b'.token = b.token, b'.fresh = b.fresh
  PROVE  FocusInv'
<1> DEFINE a == Len(in)
<1>1. /\ a \in Nat /\ DOMAIN in = 1 .. a /\ DOMAIN r = 1 .. Len(r) /\ Len(r) \in Nat
      /\ \A j \in DOMAIN in : in'[j] = in[j] /\ j \in DOMAIN in'
      /\ \A j \in DOMAIN r : in'[a + j] = r[j] /\ a + j \in DOMAIN in'
      /\ \A j \in DOMAIN in' : j \in DOMAIN in \/ \E l \in DOMAIN r : j = a + l
  BY ConcatPlaces
<1> HIDE DEF a
<1>2. ~Has(r, {"create"})
  BY DEF Has, FocusSignals
<1>3. ASSUME NEW S \in {FocusSignals, {"create"}}
      PROVE  /\ Has(in', S) <=> Has(in, S)
             /\ \A i : IsLast(in', S, i) => IsLast(in, S, i) /\ in'[i] = in[i] /\ i \in DOMAIN in
  <2>1. ~Has(r, S)
    BY <1>2
  <2>2. \A i : IsLast(in \o r, S, i) => IsLast(in, S, i) /\ (in \o r)[i] = in[i]
    BY <2>1, LastBefore
  <2>3. \A i : IsLast(in, S, i) => i \in DOMAIN in
    BY DEF IsLast
  <2>4. Has(in', S) <=> Has(in, S)
    BY <1>1, <2>1 DEF Has
  <2> QED BY <2>2, <2>3, <2>4
<1>4. EngineKnown'
  BY <1>3 DEF FocusInv, EngineKnown
<1>5. LastSignal'
  BY <1>3 DEF FocusInv, LastSignal
<1>6. FocusedIsOurs'
  BY <1>3 DEF FocusInv, FocusedIsOurs
<1>7. AgainCurrent'
  <2> SUFFICES ASSUME global' = Ours, NEW i \in DOMAIN in', Again(in'[i]), in'[i].arg \notin {None, ctx'}
               PROVE  \E j \in DOMAIN in' : j > i /\ in'[j].method \in FocusSignals
    BY DEF AgainCurrent
  <2>1. global = Ours /\ ctx' = ctx
    OBVIOUS
  <2>2. CASE i \in DOMAIN in
    BY <1>1, <2>1, <2>2 DEF FocusInv, AgainCurrent
  <2>3. CASE i \notin DOMAIN in
    <3>1. PICK l \in DOMAIN r : i = a + l
      BY <1>1, <2>3
    <3>2. in'[i] \in Range(r)
      BY <1>1, <3>1 DEF Range
    <3> QED BY <2>1, <3>2
  <2> QED BY <2>2, <2>3
<1>8. Prepared'
  BY <1>3 DEF FocusInv, Prepared, FocusedIsOurs
<1> QED BY <1>4, <1>5, <1>6, <1>7, <1>8 DEF FocusInv

\* The daemon sends signals, the last of which tells how things are.
LEMMA FocusSignalled ==
  ASSUME FocusInv, in \in Seq(InMsgs), NEW r \in Seq(InMsgs), in' = in \o r, Has(r, FocusSignals),
         \A x \in Range(r) : Again(x) => x.arg \in {None, ctx'},
         \A x \in Range(r) : x.method \in FocusSignals => x.arg = engine_id',
         engine_id' = engine_id \/ Has(r, {"create"}),
         \A i \in DOMAIN r : IsLast(r, FocusSignals, i) =>
            r[i].method = (IF global' = Ours THEN "focus-in" ELSE "destroy"),
         b'.engine = b.engine
  PROVE  FocusInv'
<1> DEFINE a == Len(in)
<1>1. /\ a \in Nat /\ DOMAIN in = 1 .. a /\ DOMAIN r = 1 .. Len(r) /\ Len(r) \in Nat
      /\ \A j \in DOMAIN in : in'[j] = in[j] /\ j \in DOMAIN in'
      /\ \A j \in DOMAIN r : in'[a + j] = r[j] /\ a + j \in DOMAIN in'
      /\ \A j \in DOMAIN in' : j \in DOMAIN in \/ \E l \in DOMAIN r : j = a + l
  BY ConcatPlaces
<1> HIDE DEF a
<1>2. Has(in', FocusSignals)
  BY <1>1 DEF Has
<1>3. \A i \in DOMAIN r : r[i] \in Range(r)
  BY DEF Range
<1>4. EngineKnown'
  <2>1. CASE Has(r, {"create"})
    <3>1. Has(in', {"create"})
      BY <1>1, <2>1 DEF Has
    <3>2. ASSUME NEW i \in DOMAIN in', IsLast(in', {"create"}, i) PROVE in'[i].arg = engine_id'
      <4>1. PICK l \in DOMAIN r : IsLast(r, {"create"}, l) /\ in'[i] = r[l]
        BY <2>1, <3>2, LastAfter
      <4> QED BY <1>3, <4>1 DEF IsLast, FocusSignals
    <3> QED BY <3>1, <3>2 DEF EngineKnown
  <2>2. CASE ~Has(r, {"create"})
    <3>1. ~Has(in', {"create"}) => ~Has(in, {"create"})
      BY <1>1 DEF Has
    <3>2. ASSUME NEW i \in DOMAIN in', IsLast(in', {"create"}, i) PROVE in'[i].arg = engine_id'
      <4>1. IsLast(in, {"create"}, i) /\ in'[i] = in[i]
        BY <2>2, <3>2, LastBefore
      <4> QED BY <2>2, <4>1 DEF FocusInv, EngineKnown, IsLast
    <3> QED BY <2>2, <3>1, <3>2 DEF FocusInv, EngineKnown
  <2> QED BY <2>1, <2>2
<1>5. LastSignal'
  <2> SUFFICES ASSUME NEW i \in DOMAIN in', IsLast(in', FocusSignals, i)
               PROVE  in'[i].arg = engine_id' /\ in'[i].method = (IF global' = Ours THEN "focus-in" ELSE "destroy")
    BY DEF LastSignal
  <2>1. PICK l \in DOMAIN r : IsLast(r, FocusSignals, l) /\ in'[i] = r[l]
    BY LastAfter, SMTT(30)
  <2> QED BY <1>3, <2>1 DEF IsLast
<1>6. FocusedIsOurs' /\ Prepared'
  BY <1>2 DEF FocusedIsOurs, Prepared
<1>7. AgainCurrent'
  <2> SUFFICES ASSUME NEW i \in DOMAIN in', Again(in'[i]), in'[i].arg \notin {None, ctx'}
               PROVE  \E j \in DOMAIN in' : j > i /\ in'[j].method \in FocusSignals
    BY DEF AgainCurrent
  <2>1. i \in DOMAIN in
    BY <1>1, <1>3
  <2>2. PICK l \in DOMAIN r : r[l].method \in FocusSignals
    BY DEF Has
  <2>3. a + l > i /\ a + l \in DOMAIN in' /\ in'[a + l] = r[l]
    BY <1>1, <2>1, <2>2
  <2> QED BY <2>2, <2>3
<1> QED BY <1>4, <1>5, <1>6, <1>7 DEF FocusInv

LEMMA FocusDispatch ==
  ASSUME Core, FocusInv, Dispatch, DispatchEffect(Head(in))
  PROVE  FocusInv'
<1> DEFINE m == Head(in)
<1>1. in # <<>> /\ in' = Tail(in) /\ in \in Seq(InMsgs)
      /\ global' = global /\ ctx' = ctx /\ engine_id' = engine_id
  BY DEF Core, TypesOK, Dispatch, daemon
<1>2. /\ Len(in) \in Nat /\ Len(in) # 0 /\ DOMAIN in = 1 .. Len(in) /\ m = in[1]
      /\ \A i \in DOMAIN in' : i \in Nat /\ i > 0 /\ i + 1 \in DOMAIN in /\ in'[i] = in[i + 1]
      /\ \A i \in DOMAIN in : i = 1 \/ (i - 1 \in DOMAIN in' /\ in'[i - 1] = in[i])
  BY <1>1, TailPlaces
<1>3. DispatchEffect(m)
  OBVIOUS
<1>4. ASSUME NEW S, NEW i \in DOMAIN in', IsLast(in', S, i)
      PROVE  i + 1 \in DOMAIN in /\ IsLast(in, S, i + 1) /\ in'[i] = in[i + 1]
  BY <1>1, <1>4, LastOfTail
<1>5. ASSUME NEW S, m.method \in S, ~Has(in', S)
      PROVE  1 \in DOMAIN in /\ IsLast(in, S, 1) /\ in[1] = m
  BY <1>1, <1>5, HeadIsLast
<1>6. ASSUME NEW S, m.method \notin S
      PROVE  Has(in', S) <=> Has(in, S)
  BY <1>2, <1>6 DEF Has
<1> HIDE DEF m
<1>7. EngineKnown'
  <2>1. \A i \in DOMAIN in' : IsLast(in', {"create"}, i) => in'[i].arg = engine_id'
    BY <1>1, <1>4 DEF FocusInv, EngineKnown
  <2>2. ASSUME ~Has(in', {"create"}) PROVE b'.engine \in {0, engine_id}
    <3>1. CASE m.method = "create"
      <4>1. m.arg = engine_id
        BY <1>5, <2>2, <3>1 DEF FocusInv, EngineKnown
      <4> QED BY <1>3, <3>1, <4>1 DEF DispatchEffect, Signalled, FocusSignals
    <3>2. CASE m.method # "create"
      <4>1. b.engine \in {0, engine_id}
        BY <1>6, <2>2, <3>2 DEF FocusInv, EngineKnown
      <4>2. b'.engine \in {0, b.engine}
        BY <1>3, <3>2 DEF DispatchEffect, Signalled
      <4> QED BY <4>1, <4>2
    <3> QED BY <3>1, <3>2
  <2> QED BY <1>1, <2>1, <2>2 DEF EngineKnown
<1>8. LastSignal'
  BY <1>1, <1>3, <1>4 DEF FocusInv, LastSignal, DispatchEffect
\* The last signal: our engine lost its focus, or the token its freshness.
<1>9. ASSUME m.method \in FocusSignals, b'.up, ~Has(in', FocusSignals)
      PROVE  /\ b'.engine = 0 \/ global = Ours
             /\ b'.engine = 0 \/ ~b'.fresh
  <2>1. IsLast(in, FocusSignals, 1) /\ in[1] = m /\ 1 \in DOMAIN in
    BY <1>5, <1>9
  <2>2. b.up /\ Signalled(b, m, b')
    BY <1>3, <1>9 DEF DispatchEffect
  <2>3. m.arg = engine_id /\ m.method = (IF global = Ours THEN "focus-in" ELSE "destroy")
    BY <2>1, <2>2 DEF FocusInv, LastSignal
  <2>4. ~Has(in, {"create"})
    <3>1. ~Has(in', {"create"})
      BY <1>9 DEF Has, FocusSignals
    <3> QED BY <1>6, <2>3, <3>1
  <2>5. b.engine \in {0, engine_id} /\ b'.engine \in {0, b.engine}
    BY <2>2, <2>3, <2>4 DEF FocusInv, EngineKnown, Signalled
  <2>6. CASE global = Ours
    BY <2>2, <2>3, <2>5, <2>6 DEF Signalled
  <2>7. CASE global # Ours
    BY <2>2, <2>3, <2>5, <2>7 DEF Signalled
  <2> QED BY <2>6, <2>7
<1>10. FocusedIsOurs'
  <2>1. CASE m.method \in FocusSignals
    BY <1>1, <1>9, <2>1 DEF FocusedIsOurs
  <2>2. CASE m.method \notin FocusSignals
    BY <1>1, <1>3, <1>6, <2>2 DEF FocusInv, FocusedIsOurs, DispatchEffect
  <2> QED BY <2>1, <2>2
<1>11. AgainCurrent'
  <2> SUFFICES ASSUME global = Ours, NEW i \in DOMAIN in', Again(in'[i]), in'[i].arg \notin {None, ctx}
               PROVE  \E j \in DOMAIN in' : j > i /\ in'[j].method \in FocusSignals
    BY <1>1 DEF AgainCurrent
  <2>1. i \in Nat /\ i > 0 /\ i + 1 \in DOMAIN in /\ in'[i] = in[i + 1]
    BY <1>2
  <2>2. PICK j \in DOMAIN in : j > i + 1 /\ in[j].method \in FocusSignals
    BY <2>1 DEF FocusInv, AgainCurrent
  <2>3. j # 1 /\ j - 1 > i
    BY <1>2, <2>1, <2>2
  <2> QED BY <1>2, <2>2, <2>3
<1>12. Prepared'
  <2> SUFFICES ASSUME b'.up, b'.token # 0, b'.fresh, b'.engine # 0, b'.focused, ~Has(in', FocusSignals)
               PROVE  ctx = b'.context
    BY <1>1 DEF Prepared
  <2>1. m.method \notin FocusSignals
    BY <1>9
  <2>2. b'.engine = b.engine /\ b'.focused = b.focused /\ b'.up = b.up
    BY <1>3, <2>1 DEF DispatchEffect
  <2>3. ~Has(in, FocusSignals)
    BY <1>6, <2>1
  <2>4. global = Ours
    BY <2>2, <2>3 DEF FocusInv, FocusedIsOurs
  <2>5. CASE b'.token = b.token /\ b'.fresh = b.fresh /\ b'.context = b.context
    BY <2>2, <2>3, <2>5 DEF FocusInv, Prepared
  <2>6. CASE /\ m.method = "reply" /\ m.k \in {"again", "againAuto"} /\ m.arg = b.context
             /\ b'.context = b.context /\ b.context # None
    <3>1. 1 \in DOMAIN in /\ in[1] = m /\ Again(m)
      BY <1>2, <2>6 DEF Again
    <3>2. m.arg \in {None, ctx}
      BY <2>3, <2>4, <3>1 DEF FocusInv, AgainCurrent, Has
    <3> QED BY <2>6, <3>2
  <2> QED BY <1>3, <2>1, <2>5, <2>6 DEF DispatchEffect
<1> QED BY <1>7, <1>8, <1>10, <1>11, <1>12 DEF FocusInv

----------------------------------------------------------------------------
(* The daemon, the failures and the user.                                  *)

LEMMA ReplyFacts ==
  ASSUME NEW m \in OutMsgs, NEW v \in Args, NEW R, R = Reply(m, v)
  PROVE  /\ R \in Seq(InMsgs) /\ ~Has(R, FocusSignals)
         /\ \A x \in Range(R) : x.k = m.k /\ x.method = "reply" /\ x.arg = v
<1> DEFINE y == Msg(m.k, "reply", v)
<1>1. y \in InMsgs /\ y.k = m.k /\ y.method = "reply" /\ y.arg = v
  BY DEF Msg, InMsgs, OutMsgs, Kinds
<1>2. R = <<y>>
  BY DEF Reply
<1> HIDE DEF y
<1>3. DOMAIN R = {1} /\ R[1] = y /\ R \in Seq(InMsgs)
  BY <1>1, <1>2
<1> QED BY <1>1, <1>3 DEF Range, Has, FocusSignals

LEMMA AnswerPlain ==
  ASSUME Core, FocusInv, b.out # <<>>, b' = [b EXCEPT !.out = Tail(@)], NEW v \in Args,
         in' = in \o Reply(Head(b.out), v), ReplyOK(Head(b.out).k, v),
         Head(b.out).k = "rget" /\ v = Ours => Users(b.previous),
         Head(b.out).k \in {"get", "getAuto"} /\ v \in Engines => Users(v),
         Head(b.out).k \in {"again", "againAuto"} => v \in {None, ctx},
         engine_id' = engine_id, chosen' = chosen, raced' = raced, ctx' = ctx,
         global' = global \/ (global # Ours /\ global' # Ours /\ Users(global'))
  PROVE  Core' /\ FocusInv'
<1> DEFINE m == Head(b.out)
           R == Reply(m, v)
           S == <<>>
<1>1. m \in OutMsgs /\ Keeps(b, b')
  BY TakeFacts
<1>2. R \in Seq(InMsgs) /\ ~Has(R, FocusSignals) /\ \A x \in Range(R) : x.k = m.k /\ x.method = "reply" /\ x.arg = v
  BY <1>1, ReplyFacts
<1>3. S \in Seq(InMsgs) /\ Range(S) = {}
  BY DEF Range
<1>4. S \o R = R
  BY <1>2, ConcatEmptySeq
<1>5. engine_id \in Nat /\ ctx \in Contexts \cup {Fake} /\ in \in Seq(InMsgs)
  BY DEF Core, TypesOK
<1>6. EnvStep(S \o R)
  <2> HIDE DEF S
  <2>1. in' = in \o (S \o R)
    BY <1>4
  <2>2. /\ engine_id <= engine_id /\ ctx' \in Contexts \cup {Fake}
        /\ \A x \in Range(S) : x.k = None /\ x.method \in FocusSignals /\ x.arg \in 1 .. engine_id
        /\ \/ global' = global
           \/ global' = Ours /\ Users(b.previous) /\ engine_id # 0
           \/ global' # Ours /\ Users(global')
    BY <1>3, <1>5
  <2> QED BY <1>3, <1>5, <2>1, <2>2, AnswerStep
<1>7. Core'
  BY <1>6, EnvStepCore
<1>8. \A x \in Range(R) : Again(x) => x.arg \in {None, ctx}
  BY <1>2 DEF Again
<1>9. FocusInv'
  <2>1. in' = in \o R
    OBVIOUS
  <2> HIDE DEF R, m
  <2> QED BY <1>1, <1>2, <1>5, <1>8, <2>1, FocusReply DEF Keeps
<1> QED BY <1>7, <1>9

\* Two signals of one engine.
Pair(n1, n2, e) == Signals(<<n1, n2>>, e)

LEMMA PairFacts ==
  ASSUME NEW n1 \in FocusSignals, NEW n2 \in FocusSignals, NEW e \in Nat, NEW S, S = Pair(n1, n2, e)
  PROVE  /\ S \in Seq(InMsgs) /\ DOMAIN S = 1 .. 2 /\ S[1].method = n1 /\ S[2].method = n2
         /\ \A x \in Range(S) : x.k = None /\ x.method \in FocusSignals /\ x.arg = e
<1> DEFINE names == <<n1, n2>>
<1>1. names \in Seq(FocusSignals) /\ DOMAIN names = 1 .. 2 /\ names[1] = n1 /\ names[2] = n2
  OBVIOUS
<1>2. 1 \in 1 .. 2 /\ 2 \in 1 .. 2 /\ S = Signals(names, e)
  BY DEF Pair
<1> HIDE DEF names
<1>3. /\ S \in Seq(InMsgs) /\ DOMAIN S = DOMAIN names
      /\ \A i \in DOMAIN names : S[i].method = names[i]
      /\ \A x \in Range(S) : x.k = None /\ x.method \in FocusSignals /\ x.arg = e
  BY <1>1, <1>2, SignalsFacts
<1> QED BY <1>1, <1>2, <1>3

\* Two signals of one engine, and a reply or nothing after them.
LEMMA PairSent ==
  ASSUME NEW n1 \in FocusSignals, NEW n2 \in FocusSignals, NEW e,
         NEW S \in Seq(InMsgs), DOMAIN S = 1 .. 2, S[1].method = n1, S[2].method = n2,
         NEW R \in Seq(InMsgs), ~Has(R, FocusSignals)
  PROVE  /\ S \o R \in Seq(InMsgs) /\ Has(S \o R, FocusSignals)
         /\ Range(S \o R) = Range(S) \cup Range(R)
         /\ \A i \in DOMAIN (S \o R) : IsLast(S \o R, FocusSignals, i) => (S \o R)[i].method = n2
         /\ n1 = "create" => Has(S \o R, {"create"})
<1>4. Range(S \o R) = Range(S) \cup Range(R) /\ S \o R \in Seq(InMsgs)
  BY RangeConcatenation, ConcatProperties
<1>5. \A i \in DOMAIN S : (S \o R)[i] = S[i] /\ i \in DOMAIN (S \o R)
  BY ConcatPlaces
<1>6. Has(S \o R, FocusSignals) /\ (n1 = "create" => Has(S \o R, {"create"}))
  <2>1. 1 \in DOMAIN (S \o R) /\ (S \o R)[1].method = n1
    BY <1>5
  <2> QED BY <2>1 DEF Has
<1>7. ASSUME NEW i \in DOMAIN (S \o R), IsLast(S \o R, FocusSignals, i)
      PROVE  (S \o R)[i].method = n2
  <2>1. IsLast(S, FocusSignals, i) /\ (S \o R)[i] = S[i]
    BY <1>7, LastBefore
  <2>2. i = 2
    BY <2>1 DEF IsLast
  <2> QED BY <2>1, <2>2
<1> QED BY <1>4, <1>6, <1>7

\* The daemon selects ours.
LEMMA SelectOurs ==
  ASSUME Core, FocusInv, b.out # <<>>, b' = [b EXCEPT !.out = Tail(@)],
         Head(b.out).method = "set", Head(b.out).arg = Ours, Select(Head(b.out)),
         chosen' = chosen, raced' = raced, ctx' = ctx
  PROVE  Core' /\ FocusInv'
<1> DEFINE m == Head(b.out)
           R == Reply(m, Ours)
           S == Signals(<<"create", "focus-in">>, engine_id + 1)
<1>1. global' = Ours /\ engine_id' = engine_id + 1 /\ in' = in \o S \o R
  BY DEF Select
<1>2. engine_id \in Nat /\ engine_id + 1 \in Nat /\ engine_id + 1 # 0 /\ engine_id <= engine_id + 1
      /\ ctx \in Contexts \cup {Fake} /\ in \in Seq(InMsgs)
  BY DEF Core, TypesOK
<1>3. m \in OutMsgs /\ m \in Range(b.out) /\ OutOK(m) /\ Keeps(b, b')
  BY TakeFacts
<1>4. Ours \in Args
  BY DEF Args
<1>5. R \in Seq(InMsgs) /\ ~Has(R, FocusSignals) /\ \A x \in Range(R) : x.k = m.k /\ x.method = "reply" /\ x.arg = Ours
  <2> HIDE DEF m
  <2> QED BY <1>3, <1>4, ReplyFacts
<1>6. Users(b.previous)
  <2>1. AsksOurs(m)
    BY DEF AsksOurs
  <2> QED BY <1>3, <2>1 DEF Core, PreviousOK
<1>7. m.k \notin {"ctx", "ctxAuto", "again", "againAuto", "get", "getAuto", "rget"}
  BY <1>3 DEF OutOK
<1>8. ReplyOK(m.k, Ours)
  BY <1>7 DEF ReplyOK
<1>9. /\ S \in Seq(InMsgs) /\ S \o R \in Seq(InMsgs) /\ Has(S \o R, FocusSignals)
      /\ \A x \in Range(S) : x.k = None /\ x.method \in FocusSignals /\ x.arg = engine_id + 1
      /\ Range(S \o R) = Range(S) \cup Range(R)
      /\ \A i \in DOMAIN (S \o R) : IsLast(S \o R, FocusSignals, i) => (S \o R)[i].method = "focus-in"
      /\ Has(S \o R, {"create"})
  <2> DEFINE n1 == "create"
             n2 == "focus-in"
  <2>1. n1 \in FocusSignals /\ n2 \in FocusSignals /\ n1 = "create" /\ n2 = "focus-in"
    BY DEF FocusSignals
  <2> DEFINE id == engine_id + 1
  <2>0. S = Pair(n1, n2, id) /\ id \in Nat /\ id = engine_id + 1
    BY <1>2 DEF Pair
  <2> HIDE DEF R, S, n1, n2, id
  <2>2. /\ S \in Seq(InMsgs) /\ DOMAIN S = 1 .. 2 /\ S[1].method = n1 /\ S[2].method = n2
        /\ \A x \in Range(S) : x.k = None /\ x.method \in FocusSignals /\ x.arg = engine_id + 1
    <3>1. /\ S \in Seq(InMsgs) /\ DOMAIN S = 1 .. 2 /\ S[1].method = n1 /\ S[2].method = n2
          /\ \A x \in Range(S) : x.k = None /\ x.method \in FocusSignals /\ x.arg = id
      BY <2>0, <2>1, PairFacts
    <3> QED BY <2>0, <3>1
  <2> QED BY <1>5, <2>1, <2>2, PairSent
<1> HIDE DEF S
<1>10. in' = in \o (S \o R)
  <2> HIDE DEF R
  <2> QED BY <1>1, <1>2, <1>5, <1>9, ConcatAssociative, SMTT(30)
<1>11. EnvStep(S \o R)
  <2>1. \A x \in Range(S) : x.k = None /\ x.method \in FocusSignals /\ x.arg \in 1 .. engine_id + 1
    BY <1>2, <1>9
  <2> HIDE DEF R
  <2> QED BY <1>1, <1>2, <1>4, <1>6, <1>7, <1>8, <1>9, <1>10, <2>1, AnswerStep DEF R, m
<1>12. Core'
  BY <1>11, EnvStepCore
<1>13. FocusInv'
  <2>1. \A x \in Range(S \o R) : ~Again(x)
    BY <1>5, <1>7, <1>9 DEF Again, None
  <2>2. \A x \in Range(S \o R) : x.method \in FocusSignals => x.arg = engine_id'
    BY <1>1, <1>5, <1>9 DEF FocusSignals
  <2> DEFINE r == S \o R
  <2>3. /\ r \in Seq(InMsgs) /\ in' = in \o r /\ Has(r, FocusSignals) /\ Has(r, {"create"})
        /\ \A x \in Range(r) : ~Again(x)
        /\ \A x \in Range(r) : x.method \in FocusSignals => x.arg = engine_id'
        /\ \A i \in DOMAIN r : IsLast(r, FocusSignals, i) =>
             r[i].method = (IF global' = Ours THEN "focus-in" ELSE "destroy")
    BY <1>1, <1>9, <1>10, <2>1, <2>2
  <2> HIDE DEF r
  <2> QED BY <1>2, <1>3, <2>3, FocusSignalled DEF Keeps
<1> QED BY <1>12, <1>13

LEMMA LeaveFacts ==
  ASSUME Core, NEW S, S = Leave
  PROVE  /\ S \in Seq(InMsgs)
         /\ global # Ours => S = <<>>
         /\ global = Ours => DOMAIN S = 1 .. 2 /\ S[1].method = "focus-out" /\ S[2].method = "destroy"
         /\ \A x \in Range(S) : x.k = None /\ x.method \in FocusSignals /\ x.arg = engine_id
                                /\ x.arg \in 1 .. engine_id
<1>1. engine_id \in Nat /\ (global = Ours => engine_id # 0)
  BY DEF Core, TypesOK
<1>2. CASE global = Ours
  <2> DEFINE n1 == "focus-out"
             n2 == "destroy"
  <2>1. n1 \in FocusSignals /\ n2 \in FocusSignals /\ n1 = "focus-out" /\ n2 = "destroy"
    BY DEF FocusSignals
  <2>2. S = Pair(n1, n2, engine_id)
    BY <1>2 DEF Leave, Pair
  <2> HIDE DEF n1, n2
  <2>3. /\ S \in Seq(InMsgs) /\ DOMAIN S = 1 .. 2 /\ S[1].method = n1 /\ S[2].method = n2
        /\ \A x \in Range(S) : x.k = None /\ x.method \in FocusSignals /\ x.arg = engine_id
    BY <1>1, <2>1, <2>2, PairFacts
  <2>4. engine_id \in 1 .. engine_id
    BY <1>1, <1>2
  <2> QED BY <1>2, <2>1, <2>3, <2>4
<1>3. CASE global # Ours
  <2>1. S = <<>>
    BY <1>3 DEF Leave
  <2> QED BY <1>3, <2>1 DEF Range
<1> QED BY <1>2, <1>3

\* Our engine, if it was there, leaves.
LEMMA FocusLeave ==
  ASSUME Core, FocusInv, NEW R \in Seq(InMsgs), ~Has(R, FocusSignals), \A x \in Range(R) : ~Again(x),
         in' = in \o (Leave \o R), engine_id' = engine_id, ctx' = ctx, global' # Ours,
         b'.engine = b.engine, b'.focused = b.focused, b'.context = b.context, b'.up = b.up,
         b'.token = b.token, b'.fresh = b.fresh
  PROVE  FocusInv'
<1> DEFINE S == Leave
<1>1. /\ S \in Seq(InMsgs)
      /\ global # Ours => S = <<>>
      /\ global = Ours => DOMAIN S = 1 .. 2 /\ S[1].method = "focus-out" /\ S[2].method = "destroy"
      /\ \A x \in Range(S) : x.k = None /\ x.method \in FocusSignals /\ x.arg = engine_id
  BY LeaveFacts
<1>2. in \in Seq(InMsgs) /\ in' = in \o (S \o R)
  BY DEF Core, TypesOK
<1> HIDE DEF S
<1>3. CASE global = Ours
  <2> DEFINE n1 == "focus-out"
             n2 == "destroy"
             r == S \o R
  <2>1. n1 \in FocusSignals /\ n2 \in FocusSignals /\ n1 = "focus-out" /\ n2 = "destroy"
    BY DEF FocusSignals
  <2> HIDE DEF n1, n2
  <2>2. S[1].method = n1 /\ S[2].method = n2 /\ DOMAIN S = 1 .. 2
    BY <1>1, <1>3, <2>1
  <2>3. /\ r \in Seq(InMsgs) /\ Has(r, FocusSignals) /\ Range(r) = Range(S) \cup Range(R)
        /\ \A i \in DOMAIN r : IsLast(r, FocusSignals, i) => r[i].method = n2
    BY <1>1, <2>1, <2>2, PairSent
  <2>4. in' = in \o r
    BY <1>2
  <2> HIDE DEF r
  <2>5. \A x \in Range(R) : x.method \notin FocusSignals
    BY DEF Has, Range
  <2>6. \A x \in Range(r) : ~Again(x) /\ (x.method \in FocusSignals => x.arg = engine_id')
    BY <1>1, <2>3, <2>5 DEF Again, None
  <2>7. \A i \in DOMAIN r : IsLast(r, FocusSignals, i) =>
          r[i].method = (IF global' = Ours THEN "focus-in" ELSE "destroy")
    BY <2>1, <2>3
  <2> QED BY <1>2, <2>3, <2>4, <2>6, <2>7, FocusSignalled
<1>4. CASE global # Ours
  <2>1. S \o R = R
    BY <1>1, <1>4, ConcatEmptySeq
  <2>2. in' = in \o R
    BY <1>2, <2>1
  <2> QED BY <1>2, <1>4, <2>2, FocusReply
<1> QED BY <1>3, <1>4

\* The daemon selects an engine of the user's.
LEMMA SelectUsers ==
  ASSUME Core, FocusInv, b.out # <<>>, b' = [b EXCEPT !.out = Tail(@)],
         Head(b.out).method = "set", Head(b.out).arg # Ours, Select(Head(b.out)),
         chosen' = chosen, raced' = raced, ctx' = ctx
  PROVE  Core' /\ FocusInv'
<1> DEFINE m == Head(b.out)
           R == Reply(m, m.arg)
           S == Leave
<1>1. global' = m.arg /\ engine_id' = engine_id /\ in' = in \o S \o R
  BY DEF Select
<1>2. engine_id \in Nat /\ engine_id <= engine_id /\ ctx \in Contexts \cup {Fake} /\ in \in Seq(InMsgs)
  BY DEF Core, TypesOK
<1>3. m \in OutMsgs /\ m \in Range(b.out) /\ OutOK(m) /\ Keeps(b, b')
  BY TakeFacts
<1>4. m.arg \in Engines /\ m.arg \in Args /\ m.arg # Ours
  BY <1>3 DEF OutOK, Args
<1>5. R \in Seq(InMsgs) /\ ~Has(R, FocusSignals) /\ \A x \in Range(R) : x.k = m.k /\ x.method = "reply" /\ x.arg = m.arg
  <2> HIDE DEF m
  <2> QED BY <1>3, <1>4, ReplyFacts
<1>6. Users(m.arg)
  <2>1. AsksUsers(m)
    BY DEF AsksUsers
  <2> QED BY <1>3, <2>1 DEF Core, ChoiceOK
<1>7. m.k \notin {"ctx", "ctxAuto", "again", "againAuto", "get", "getAuto", "rget"}
  BY <1>3 DEF OutOK
<1>8. ReplyOK(m.k, m.arg)
  BY <1>7 DEF ReplyOK
<1>9. /\ S \in Seq(InMsgs)
      /\ \A x \in Range(S) : x.k = None /\ x.method \in FocusSignals /\ x.arg \in 1 .. engine_id
  BY LeaveFacts
<1>10. in' = in \o (S \o R)
  <2> HIDE DEF R, S
  <2> QED BY <1>1, <1>2, <1>5, <1>9, ConcatAssociative
<1>11. EnvStep(S \o R)
  <2> HIDE DEF S
  <2> QED BY <1>1, <1>2, <1>4, <1>6, <1>7, <1>8, <1>9, <1>10, AnswerStep
<1>12. Core'
  BY <1>11, EnvStepCore
<1>13. FocusInv'
  <2>1. \A x \in Range(R) : ~Again(x)
    BY <1>5, <1>7 DEF Again
  <2>2. in' = in \o (Leave \o R) /\ global' # Ours
    BY <1>1, <1>4, <1>10
  <2> HIDE DEF R
  <2> QED BY <1>1, <1>3, <1>5, <2>1, <2>2, FocusLeave DEF Keeps
<1> QED BY <1>12, <1>13

\* A request without an answer.
LEMMA CommitTaken ==
  ASSUME Core, FocusInv, b.out # <<>>, b' = [b EXCEPT !.out = Tail(@)],
         Head(b.out).method = "commit", UNCHANGED <<in, daemon>>, UNCHANGED ghosts
  PROVE  Core' /\ FocusInv'
<1> DEFINE m == Head(b.out)
           r == <<>>
<1>1. /\ b' \in Backend /\ Keeps(b, b') /\ b'.busy = b.busy /\ Range(b'.out) \subseteq Range(b.out)
      /\ m \in OutMsgs /\ OutOK(m)
      /\ \A K : Steps(b.out, K) = Steps(b'.out, K) + (IF m.k \in K THEN 1 ELSE 0)
      /\ \A K : Steps(b'.out, K) \in Nat
  BY TakeFacts
<1>2. m.k \in TxnSteps \cup {"register", None} /\ m.method = "commit"
  BY <1>1 DEF OutMsgs, Kinds
<1> HIDE DEF m
<1>3. m.k = None
  BY <1>1, <1>2 DEF OutOK, TxnSteps
<1>4. /\ in' = in /\ global' = global /\ ctx' = ctx /\ engine_id' = engine_id /\ chosen' = chosen
      /\ raced' = raced /\ in \in Seq(InMsgs) /\ engine_id \in Nat /\ engine_id <= engine_id
      /\ ctx \in Contexts \cup {Fake}
  BY DEF Core, TypesOK, daemon, ghosts
<1>5. r \in Seq(InMsgs) /\ Range(r) = {} /\ in \o r = in
  BY <1>4, ConcatEmptySeq DEF Range
<1>6. ASSUME NEW K \in {TxnSteps, {"register"}}
      PROVE  Steps(b.out, K) = Steps(b'.out, K) + Steps(r, K)
  <2>1. m.k \notin K
    BY <1>3 DEF TxnSteps, None
  <2>2. Steps(r, K) = 0
    BY StepsEmpty
  <2>3. Steps(b.out, K) = Steps(b'.out, K) + 0
    BY <1>1, <2>1
  <2> QED BY <2>2, <2>3
<1> HIDE DEF r
<1>7. \A x \in Range(b'.out) : \E z \in Range(b.out) : x.method = z.method /\ x.arg = z.arg /\ x.k \in {z.k, None}
  BY <1>1
<1>8. EnvStep(r)
  BY <1>1, <1>4, <1>5, <1>6, <1>7 DEF EnvStep, Keeps
<1>9. FocusInv'
  BY <1>1, FocusHost DEF Keeps
<1> QED BY <1>8, <1>9, EnvStepCore

LEMMA DaemonServesInv ==
  ASSUME Core, FocusInv, DaemonServes
  PROVE  Core' /\ FocusInv'
<1> DEFINE m == Head(b.out)
<1>1. b.out # <<>> /\ b' = [b EXCEPT !.out = Tail(@)] /\ UNCHANGED ghosts /\ chosen' = chosen /\ raced' = raced
  BY DEF DaemonServes, ghosts
<1>2. m \in OutMsgs /\ m \in Range(b.out) /\ OutOK(m)
  BY <1>1, TakeFacts
<1>3. ctx \in Contexts \cup {Fake} /\ global \in Engines \cup {Ours}
  BY DEF Core, TypesOK
<1>4. CASE m.method = "set" /\ Select(m) /\ UNCHANGED ctx
  BY <1>1, <1>4, SelectOurs, SelectUsers
<1>5. CASE m.method = "register" /\ in' = in \o Reply(m, Ours) /\ UNCHANGED daemon
  <2>1. m.k \notin TxnSteps
    BY <1>2, <1>5 DEF OutOK, TxnSteps
  <2>2. ReplyOK(m.k, Ours) /\ Ours \in Args
    BY <2>1 DEF ReplyOK, TxnSteps, Args
  <2>3. engine_id' = engine_id /\ ctx' = ctx /\ global' = global
    BY <1>5 DEF daemon
  <2>4. m.k \notin {"rget", "get", "getAuto", "again", "againAuto"}
    BY <2>1 DEF TxnSteps
  <2> QED BY <1>1, <1>5, <2>2, <2>3, <2>4, AnswerPlain
<1>6. CASE m.method = "get" /\ in' = in \o Reply(m, global) /\ UNCHANGED daemon
  <2>1. m.k \notin {"ctx", "ctxAuto", "again", "againAuto"}
    BY <1>2, <1>6 DEF OutOK
  <2>2. ReplyOK(m.k, global) /\ global \in Args
    BY <1>3, <2>1 DEF ReplyOK, Args
  <2>3. engine_id' = engine_id /\ ctx' = ctx /\ global' = global
    BY <1>6 DEF daemon
  <2>4. global = Ours => Users(b.previous)
    BY DEF Core, PreviousOK
  <2>5. global \in Engines => Users(global)
    BY TextInputAssumption DEF Core, ChoiceOK
  <2> QED BY <1>1, <1>6, <2>1, <2>2, <2>3, <2>4, <2>5, AnswerPlain
<1>7. CASE m.method = "context" /\ in' = in \o Reply(m, ctx) /\ UNCHANGED daemon
  <2>1. m.k \notin {"get", "getAuto", "rget"}
    BY <1>2, <1>7 DEF OutOK
  <2>2. ReplyOK(m.k, ctx) /\ ctx \in Args
    BY <1>3, <2>1 DEF ReplyOK, Args
  <2>3. engine_id' = engine_id /\ ctx' = ctx /\ global' = global
    BY <1>7 DEF daemon
  <2> QED BY <1>1, <1>7, <2>1, <2>2, <2>3, AnswerPlain
<1>8. CASE m.method = "commit" /\ UNCHANGED <<in, daemon>>
  BY <1>1, <1>8, CommitTaken
<1>9. \/ m.method = "set" /\ Select(m) /\ UNCHANGED ctx
      \/ m.method = "register" /\ in' = in \o Reply(m, Ours) /\ UNCHANGED daemon
      \/ m.method \in {"get", "context"}
         /\ in' = in \o Reply(m, IF m.method = "get" THEN global ELSE ctx) /\ UNCHANGED daemon
      \/ m.method = "commit" /\ UNCHANGED <<in, daemon>>
  BY Zenon DEF DaemonServes
<1> HIDE DEF m
<1> QED BY <1>4, <1>5, <1>6, <1>7, <1>8, <1>9

LEMMA DaemonRefusesInv ==
  ASSUME Core, FocusInv, DaemonRefuses
  PROVE  Core' /\ FocusInv'
<1>1. /\ b.out # <<>> /\ b' = [b EXCEPT !.out = Tail(@)] /\ in' = in \o Reply(Head(b.out), None)
      /\ engine_id' = engine_id /\ ctx' = ctx /\ global' = global /\ chosen' = chosen /\ raced' = raced
  BY DEF DaemonRefuses, daemon, ghosts
<1>2. ReplyOK(Head(b.out).k, None) /\ None \in Args /\ None # Ours /\ None \notin Engines
  BY TextInputAssumption DEF ReplyOK, Args, None, Ours
<1> QED BY <1>1, <1>2, AnswerPlain

LEMMA CallTimesOutInv ==
  ASSUME Core, FocusInv, CallTimesOut
  PROVE  Core' /\ FocusInv'
<1>1. PICK i \in Waiting(b.out) : /\ in' = Append(in, Msg(b.out[i].k, "reply", None))
                                  /\ b' = [b EXCEPT !.out[i].k = None]
  BY DEF CallTimesOut
<1>2. engine_id' = engine_id /\ ctx' = ctx /\ global' = global /\ chosen' = chosen /\ raced' = raced
  BY DEF CallTimesOut, daemon, ghosts
<1>3. /\ b \in Backend /\ b.out \in Seq(OutMsgs) /\ in \in Seq(InMsgs) /\ engine_id \in Nat
      /\ ctx \in Contexts \cup {Fake} /\ engine_id <= engine_id
  BY DEF Core, TypesOK, Backend
<1> DEFINE q == b.out
           p == [q EXCEPT ![i].k = None]
           x == q[i]
           y == Msg(x.k, "reply", None)
           z == [x EXCEPT !.k = None]
           r == <<y>>
<1>4. i \in DOMAIN q /\ x \in OutMsgs /\ x \in Range(q)
  <2>1. i \in DOMAIN q
    BY DEF Waiting
  <2> QED BY <1>3, <2>1, ElementOfSeq DEF Range
<1>5. z \in OutMsgs /\ z.k = None /\ z.method = x.method /\ z.arg = x.arg
  <2> HIDE DEF x
  <2> QED BY <1>4 DEF OutMsgs, Kinds
<1>6. p = [q EXCEPT ![i] = z]
  OBVIOUS
<1>7. b' = [b EXCEPT !.out = p]
  BY <1>1
<1> HIDE DEF z, p
<1>8. p \in Seq(OutMsgs) /\ DOMAIN p = DOMAIN q /\ p[i] = z /\ \A j \in DOMAIN q : j # i => p[j] = q[j]
  BY <1>3, <1>4, <1>5, <1>6, ExceptSeq
<1>9. b' \in Backend /\ Keeps(b, b') /\ b'.busy = b.busy /\ b'.out = p
  BY <1>3, <1>7, <1>8 DEF Backend, Keeps
<1>10. y \in InMsgs /\ y.k = x.k /\ y.method = "reply" /\ y.arg = None
  <2> HIDE DEF x
  <2> QED BY <1>4 DEF InMsgs, OutMsgs, Msg, Kinds, Args
<1> HIDE DEF y
<1>11. r \in Seq(InMsgs) /\ Range(r) = {y} /\ ~Has(r, FocusSignals)
  BY <1>10 DEF Range, Has, FocusSignals
<1>12. in' = in \o r
  BY <1>1, <1>3, <1>10, AppendIsConcat DEF y
<1>13. ASSUME NEW K \in {TxnSteps, {"register"}}
       PROVE  Steps(q, K) = Steps(p, K) + Steps(r, K)
  <2>1. None \notin K
    BY DEF TxnSteps, None
  <2>2. Steps(q, K) = Steps(p, K) + (IF x.k \in K THEN 1 ELSE 0)
    BY <1>3, <1>4, <1>5, <1>8, <2>1, StepsDrop
  <2>3. Steps(r, K) = IF x.k \in K THEN 1 ELSE 0
    BY <1>10, StepsOne
  <2> QED BY <2>2, <2>3, Zenon
<1>14. \A w \in Range(p) : \E v \in Range(q) : w.method = v.method /\ w.arg = v.arg /\ w.k \in {v.k, None}
  BY <1>4, <1>5, <1>8 DEF Range
<1>15. InOK(y, engine_id) /\ ~SawOurs(y) /\ ~SawUsers(y) /\ (y.k \in Mids => b.context # None)
  <2>1. None # Ours /\ None \notin Engines
    BY TextInputAssumption DEF None, Ours
  <2>2. x.k \in Mids => b.context # None
    BY <1>4 DEF Core, ContextOK
  <2> HIDE DEF x
  <2> QED BY <1>10, <2>1, <2>2 DEF InOK, ReplyOK, SawOurs, SawUsers, FocusSignals
<1> HIDE DEF r, x
<1>16. EnvStep(r)
  BY <1>2, <1>3, <1>9, <1>11, <1>12, <1>13, <1>14, <1>15 DEF EnvStep, Keeps
<1>17. FocusInv'
  BY <1>2, <1>3, <1>9, <1>10, <1>11, <1>12, FocusReply DEF Keeps
<1> QED BY <1>16, <1>17, EnvStepCore

LEMMA DisconnectInv ==
  ASSUME Core, FocusInv, Disconnect
  PROVE  Core' /\ FocusInv'
<1>1. PICK o \in InOrder(Waiting(b.out)) :
        in' = Append(in, Msg(None, "disconnected", None)) \o Failures(b.out, o)
  BY DEF Disconnect
<1>2. /\ engine_id' = engine_id /\ ctx' = ctx /\ global' = chosen /\ chosen' = chosen /\ raced' = raced
      /\ b' = [b EXCEPT !.up = FALSE, !.out = <<>>]
  BY DEF Disconnect, ghosts
<1>3. /\ b \in Backend /\ b.out \in Seq(OutMsgs) /\ in \in Seq(InMsgs) /\ engine_id \in Nat
      /\ ctx \in Contexts \cup {Fake} /\ engine_id <= engine_id /\ chosen \in Engines
  BY DEF Core, TypesOK, Backend
<1> DEFINE q == b.out
           F == Failures(q, o)
           y == Msg(None, "disconnected", None)
           D == <<y>>
           r == D \o F
           p == <<>>
           no == FALSE
<1>4. /\ DOMAIN o = 1 .. Cardinality(Waiting(q)) /\ Cardinality(Waiting(q)) \in Nat
      /\ \A i \in DOMAIN o : o[i] \in DOMAIN q
      /\ \A K : None \notin K => Steps(F, K) = Steps(q, K)
  <2>1. None \notin {}
    OBVIOUS
  <2> QED BY <1>3, <2>1, StepsFailures
<1>5. /\ b' \in Backend /\ ~b'.up /\ b'.out = p /\ b'.busy = b.busy
      /\ b'.initializing = b.initializing /\ b'.waiters = b.waiters
      /\ b'.engine = b.engine /\ b'.previous = b.previous /\ b'.context = b.context
      /\ b'.token = b.token /\ b'.next_token = b.next_token
      /\ b'.focused = b.focused /\ b'.fresh = b.fresh
  <2>1. no \in BOOLEAN /\ p \in Seq(OutMsgs) /\ ~no
    OBVIOUS
  <2>2. b' = [b EXCEPT !.up = no, !.out = p]
    BY <1>2
  <2> HIDE DEF no, p
  <2> QED BY <1>3, <2>1, <2>2 DEF Backend
<1>6. y \in InMsgs /\ y.k = None /\ y.method = "disconnected"
  BY DEF InMsgs, Msg, Kinds, Args
<1>7. /\ F \in Seq(InMsgs)
      /\ \A i \in DOMAIN F : F[i].method = "reply" /\ F[i].arg = None /\ \E j \in DOMAIN q : F[i].k = q[j].k
  <2>1. \A j \in DOMAIN q : q[j] \in OutMsgs
    BY <1>3, ElementOfSeq
  <2>2. \A i \in DOMAIN o : Msg(q[o[i]].k, "reply", None) \in InMsgs
    BY <1>4, <2>1 DEF Msg, InMsgs, OutMsgs, Kinds, Args
  <2>3. F = [i \in DOMAIN o |-> Msg(q[o[i]].k, "reply", None)]
    BY DEF Failures
  <2>4. F \in [1 .. Cardinality(Waiting(q)) -> InMsgs]
    BY <1>4, <2>2, <2>3
  <2>5. F \in Seq(InMsgs)
    <3> HIDE DEF F
    <3> QED BY <1>4, <2>4, IsASeq
  <2> QED BY <1>4, <2>3, <2>5 DEF Msg
<1>8. D \in Seq(InMsgs) /\ Range(D) = {y}
  BY <1>6 DEF Range
<1>9. in' = in \o r
  <2>1. Append(in, y) = in \o D
    BY <1>3, <1>6, AppendIsConcat
  <2>2. in' = (in \o D) \o F
    BY <1>1, <2>1
  <2> HIDE DEF D, F
  <2> QED BY <1>3, <1>7, <1>8, <2>2, ConcatAssociative
<1>10. ASSUME NEW K \in {TxnSteps, {"register"}}
       PROVE  Steps(b.out, K) = Steps(b'.out, K) + Steps(r, K)
  <2>1. None \notin K
    BY DEF TxnSteps, None
  <2>2. Steps(F, K) = Steps(q, K) /\ Steps(q, K) \in Nat
    BY <1>3, <1>4, <2>1, StepsType
  <2>3. Steps(b'.out, K) = 0
    BY <1>5, StepsEmpty
  <2>4. Steps(D, K) = 0
    <3>1. Steps(D, K) = IF y.k \in K THEN 1 ELSE 0
      <4> HIDE DEF y
      <4> QED BY <1>6, StepsOne
    <3> QED BY <1>6, <2>1, <3>1
  <2>5. Steps(r, K) = Steps(D, K) + Steps(F, K)
    <3> HIDE DEF D, F
    <3> QED BY <1>7, <1>8, StepsConcat
  <2> HIDE DEF D, F, r
  <2> QED BY <2>2, <2>3, <2>4, <2>5
<1> HIDE DEF D, F, y
<1>11. Range(r) = {y} \cup Range(F) /\ r \in Seq(InMsgs)
  BY <1>7, <1>8, RangeConcatenation, ConcatProperties
<1>12. \A x \in Range(F) : x.method = "reply" /\ x.arg = None /\ \E j \in DOMAIN q : x.k = q[j].k
  BY <1>7 DEF Range
<1>13. None # Ours /\ None \notin Engines /\ chosen # Ours
  BY <1>3, TextInputAssumption DEF None, Ours
<1>14. \A j \in DOMAIN q : q[j].k \in Mids => b.context # None
  BY DEF Core, ContextOK, Range
<1>15. \A x \in Range(r) : InOK(x, engine_id) /\ ~SawOurs(x) /\ ~SawUsers(x) /\ (x.k \in Mids => b.context # None)
  <2>1. InOK(y, engine_id) /\ ~SawOurs(y) /\ ~SawUsers(y) /\ y.k \notin Mids
    BY <1>6 DEF InOK, SawOurs, SawUsers, Mids, None, FocusSignals
  <2>2. ASSUME NEW x \in Range(F)
        PROVE  InOK(x, engine_id) /\ ~SawOurs(x) /\ ~SawUsers(x) /\ (x.k \in Mids => b.context # None)
    BY <1>12, <1>13, <1>14 DEF InOK, ReplyOK, SawOurs, SawUsers, FocusSignals
  <2> QED BY <1>11, <2>1, <2>2
<1>16. ~Has(r, FocusSignals) /\ \A x \in Range(r) : Again(x) => x.arg \in {None, ctx}
  <2>1. \A x \in Range(r) : x.method \notin FocusSignals /\ (Again(x) => x.arg = None)
    BY <1>6, <1>11, <1>12 DEF FocusSignals, Again
  <2> QED BY <2>1 DEF Has, Range
<1> HIDE DEF r
<1>17. Range(b'.out) = {}
  BY <1>5 DEF Range
<1>18. Users(chosen)
  BY <1>3 DEF Users
<1>19. EnvStep(r)
  BY <1>2, <1>3, <1>5, <1>9, <1>10, <1>11, <1>13, <1>15, <1>17, <1>18 DEF EnvStep
<1>20. FocusInv'
  BY <1>2, <1>3, <1>5, <1>9, <1>11, <1>13, <1>16, FocusReply
<1> QED BY <1>19, <1>20, EnvStepCore

\* Signals carry no continuation.
LEMMA SignalSteps ==
  ASSUME NEW S \in Seq(InMsgs), \A x \in Range(S) : x.k = None, NEW K \in {TxnSteps, {"register"}}
  PROVE  Steps(S, K) = 0
<1>1. None \notin K
  BY DEF TxnSteps, None
<1>2. \A i \in DOMAIN S : S[i].k = None
  BY DEF Range
<1> QED BY <1>1, <1>2, StepsNone

LEMMA SwitchEngineInv ==
  ASSUME Core, FocusInv, NEW e \in Engines, SwitchEngine(e)
  PROVE  Core' /\ FocusInv'
<1> DEFINE S == Leave
           N == <<>>
<1>1. /\ global' = e /\ chosen' = e /\ in' = in \o S /\ b' = b /\ ctx' = ctx /\ engine_id' = engine_id
      /\ raced' = (raced \/ (\E i \in DOMAIN b.out : b.out[i].method = "set")
                         \/ (\E i \in DOMAIN in : in[i].method = "reply" /\ in[i].k \in {"get", "getAuto", "rget"}))
  BY DEF SwitchEngine
<1>2. /\ S \in Seq(InMsgs)
      /\ \A x \in Range(S) : x.k = None /\ x.method \in FocusSignals /\ x.arg \in 1 .. engine_id
  BY LeaveFacts
<1>3. b \in Backend /\ in \in Seq(InMsgs) /\ e # Ours /\ e \in Engines
  BY TextInputAssumption DEF Core, TypesOK
<1>4. N \in Seq(InMsgs) /\ ~Has(N, FocusSignals) /\ Range(N) = {} /\ S \o N = S
  BY <1>2, ConcatEmptySeq DEF Has, Range
<1>5. FocusInv'
  <2>1. in' = in \o (Leave \o N)
    BY <1>1, <1>4
  <2> HIDE DEF N
  <2> QED BY <1>1, <1>3, <1>4, <2>1, FocusLeave
<1> HIDE DEF S
<1>6. Range(in') = Range(in) \cup Range(S) /\ in' \in Seq(InMsgs)
  BY <1>1, <1>2, <1>3, RangeConcatenation, ConcatProperties
<1>7. raced' \in BOOLEAN
  BY <1>1
<1>8. TypesOK'
  BY <1>1, <1>3, <1>6, <1>7 DEF Core, TypesOK
<1>9. BusyHasOneOwner'
  <2>1. ASSUME NEW K \in {TxnSteps, {"register"}} PROVE Steps(in', K) = Steps(in, K)
    <3>1. Steps(in', K) = Steps(in, K) + Steps(S, K)
      BY <1>1, <1>2, <1>3, StepsConcat
    <3>2. Steps(S, K) = 0 /\ Steps(in, K) \in Nat
      BY <1>2, <1>3, SignalSteps, StepsType
    <3> QED BY <3>1, <3>2
  <2>2. Steps(in', TxnSteps) = Steps(in, TxnSteps) /\ Steps(in', {"register"}) = Steps(in, {"register"})
    BY <2>1
  <2>3. Balance(b', Steps(in', TxnSteps), Steps(in', {"register"}))
    BY <1>1, <2>2, CoreFacts
  <2> QED BY <2>3, OwnersBalanceNext
<1>10. QueuesOK'
  <2>1. \A x \in Range(S) : InOK(x, engine_id)
    BY <1>2 DEF InOK, FocusSignals
  <2> QED BY <1>1, <1>6, <2>1 DEF Core, QueuesOK
<1>11. \A x \in Range(b.out) : x.method = "set" => raced'
  BY <1>1 DEF Range
<1>12. \A x \in Range(in) : x.method = "reply" /\ x.k \in {"get", "getAuto", "rget"} => raced'
  BY <1>1 DEF Range
<1>13. \A x \in Range(S) : ~SawOurs(x) /\ ~SawUsers(x)
  BY <1>2 DEF SawOurs, SawUsers, FocusSignals
<1>14. PreviousOK'
  <2> SUFFICES ASSUME (\E x \in Range(b.out) : AsksOurs(x)) \/ (\E x \in Range(in) : SawOurs(x))
               PROVE  Users(b.previous)'
    BY <1>1, <1>3, <1>6, <1>13 DEF PreviousOK
  <2>1. raced'
    BY <1>11, <1>12 DEF AsksOurs, SawOurs
  <2>2. b.previous \in Engines
    BY DEF Core, PreviousOK, Users
  <2> QED BY <1>1, <2>1, <2>2 DEF Users
<1>15. ChoiceOK'
  <2>1. Users(global)'
    BY <1>1, <1>3 DEF Users
  <2>2. ASSUME NEW x \in Range(b.out), AsksUsers(x) PROVE x.arg \in Engines /\ raced'
    BY <1>11, <2>2 DEF Core, ChoiceOK, Users, AsksUsers
  <2>3. ASSUME NEW x \in Range(in), SawUsers(x) PROVE x.arg \in Engines /\ raced'
    BY <1>12, <2>3 DEF SawUsers
  <2> QED BY <1>1, <1>6, <1>13, <2>1, <2>2, <2>3 DEF ChoiceOK, Users
<1>16. ContextOK'
  <2>1. \A x \in Range(S) : x.k \notin Mids
    BY <1>2 DEF Mids, None
  <2> QED BY <1>1, <1>6, <2>1 DEF Core, ContextOK
<1> QED BY <1>5, <1>8, <1>9, <1>10, <1>14, <1>15, <1>16 DEF Core

LEMMA MoveFocusInv ==
  ASSUME Core, FocusInv, NEW c \in Contexts \cup {Fake}, MoveFocus(c)
  PROVE  Core' /\ FocusInv'
<1> DEFINE S == IF global = Ours THEN Signals(<<"focus-out", "focus-in">>, engine_id) ELSE <<>>
           N == <<>>
<1>1. /\ global' = global /\ chosen' = chosen /\ raced' = raced /\ in' = in \o S /\ b' = b
      /\ ctx' = c /\ engine_id' = engine_id
  BY DEF MoveFocus, ghosts
<1>2. /\ b \in Backend /\ b.out \in Seq(OutMsgs) /\ in \in Seq(InMsgs) /\ engine_id \in Nat
      /\ engine_id <= engine_id /\ (global = Ours => engine_id \in 1 .. engine_id)
  BY DEF Core, TypesOK, Backend
<1>3. N \in Seq(InMsgs) /\ ~Has(N, FocusSignals) /\ Range(N) = {}
  BY DEF Has, Range
<1>4. /\ S \in Seq(InMsgs)
      /\ \A x \in Range(S) : x.k = None /\ x.method \in FocusSignals /\ x.arg = engine_id
                             /\ x.arg \in 1 .. engine_id
      /\ global # Ours => S = N
      /\ global = Ours =>
           /\ Has(S, FocusSignals)
           /\ \A i \in DOMAIN S : IsLast(S, FocusSignals, i) => S[i].method = "focus-in"
  <2>1. CASE global # Ours
    <3>1. S = N
      BY <2>1
    <3> HIDE DEF S, N
    <3> QED BY <1>3, <2>1, <3>1
  <2>2. CASE global = Ours
    <3> DEFINE n1 == "focus-out"
               n2 == "focus-in"
    <3>1. n1 \in FocusSignals /\ n2 \in FocusSignals /\ n2 = "focus-in"
      BY DEF FocusSignals
    <3>2. S = Pair(n1, n2, engine_id)
      BY <2>2 DEF Pair
    <3> HIDE DEF n1, n2, S, N
    <3>3. /\ S \in Seq(InMsgs) /\ DOMAIN S = 1 .. 2 /\ S[1].method = n1 /\ S[2].method = n2
          /\ \A x \in Range(S) : x.k = None /\ x.method \in FocusSignals /\ x.arg = engine_id
      BY <1>2, <3>1, <3>2, PairFacts
    <3>4. /\ Has(S \o N, FocusSignals)
          /\ \A i \in DOMAIN (S \o N) : IsLast(S \o N, FocusSignals, i) => (S \o N)[i].method = n2
      BY <1>3, <3>1, <3>3, PairSent
    <3>5. S \o N = S
      BY <3>3, ConcatEmptySeq DEF N
    <3> QED BY <1>2, <2>2, <3>1, <3>3, <3>4, <3>5
  <2> QED BY <2>1, <2>2
<1> HIDE DEF S, N
<1>5. ASSUME NEW K \in {TxnSteps, {"register"}} PROVE Steps(b.out, K) = Steps(b'.out, K) + Steps(S, K)
  <2>1. Steps(S, K) = 0 /\ Steps(b.out, K) \in Nat
    BY <1>2, <1>4, SignalSteps, StepsType
  <2> QED BY <1>1, <2>1
<1>6. \A x \in Range(S) : InOK(x, engine_id) /\ x.k \notin Mids /\ ~SawOurs(x) /\ ~SawUsers(x) /\ ~Again(x)
  BY <1>4 DEF InOK, Mids, None, FocusSignals, SawOurs, SawUsers, Again
<1>7. EnvStep(S)
  BY <1>1, <1>2, <1>4, <1>5, <1>6 DEF EnvStep
<1>8. FocusInv'
  <2>1. CASE global = Ours
    BY <1>1, <1>2, <1>4, <1>6, <2>1, FocusSignalled
  <2>2. CASE global # Ours
    BY <1>1, <1>2, <1>3, <1>4, <1>6, <2>2, FocusReply
  <2> QED BY <2>1, <2>2
<1> QED BY <1>7, <1>8, EnvStepCore

----------------------------------------------------------------------------
(* The theorems.                                                           *)

TextInv == Core /\ FocusInv

LEMMA TextInvInit == TextInit => TextInv
<1> SUFFICES ASSUME TextInit PROVE TextInv
  OBVIOUS
<1>1. /\ b.ready = FALSE /\ b.initializing = FALSE /\ b.busy = FALSE /\ b.waiters = <<>>
      /\ b.engine = 0 /\ b.focused = FALSE /\ b.previous = None /\ b.context = None
      /\ b.token = 0 /\ b.next_token = 0 /\ b.fresh = FALSE /\ b.up = FALSE /\ b.out = <<>>
      /\ b.gaveUp = FALSE
  BY DEF TextInit
<1>2. /\ in = <<>> /\ global \in Engines /\ ctx \in Contexts \cup {Fake} /\ engine_id = 0
      /\ chosen = global /\ raced = FALSE
  BY DEF TextInit
<1>3. b \in Backend
  <2> DEFINE no == FALSE
             w == <<>>
             z == 0
  <2>1. no \in BOOLEAN /\ w \in Seq(BOOLEAN) /\ w \in Seq(OutMsgs) /\ z \in Nat
    OBVIOUS
  <2>2. b = [ready |-> no, initializing |-> no, busy |-> no, waiters |-> w,
             engine |-> z, focused |-> no, previous |-> None, context |-> None,
             token |-> z, next_token |-> z, fresh |-> no, up |-> no, out |-> w, gaveUp |-> no]
    BY DEF TextInit
  <2> HIDE DEF no, w, z
  <2> QED BY <2>1, <2>2 DEF Backend
<1>4. in \in Seq(InMsgs) /\ Range(in) = {} /\ Range(b.out) = {} /\ DOMAIN in = {}
  BY <1>1, <1>2 DEF Range
<1>5. global # Ours
  BY <1>2, TextInputAssumption
<1>6. TypesOK
  <2>1. raced \in BOOLEAN
    BY <1>2
  <2>2. b.engine <= engine_id /\ engine_id \in Nat
    BY <1>1, <1>2
  <2>3. b.token \in {0, b.next_token} /\ (b.waiters # <<>> => b.initializing)
    BY <1>1
  <2> QED BY <1>2, <1>3, <1>4, <1>5, <2>1, <2>2, <2>3, Zenon DEF TypesOK
<1>7. BusyHasOneOwner
  <2>1. \A K : Steps(b.out, K) = 0 /\ Steps(in, K) = 0
    BY <1>1, <1>2, StepsEmpty
  <2> QED BY <1>1, <2>1 DEF BusyHasOneOwner, Owners
<1>8. QueuesOK /\ PreviousOK /\ ChoiceOK /\ ContextOK
  BY <1>2, <1>4, <1>5 DEF QueuesOK, PreviousOK, ChoiceOK, ContextOK, Users
<1>9. FocusInv
  BY <1>1, <1>4, <1>5 DEF FocusInv, EngineKnown, LastSignal, FocusedIsOurs, AgainCurrent, Prepared
<1> QED BY <1>6, <1>7, <1>8, <1>9 DEF TextInv, Core

LEMMA QuietInv ==
  ASSUME TextInv, UNCHANGED <<in, daemon, ghosts>>, b' \in Backend, Quiet(b, b'),
         Balance(b', Steps(in, TxnSteps), Steps(in, {"register"}))
  PROVE  TextInv'
<1>1. Core'
  BY QuietStep DEF TextInv
<1>2. FocusInv'
  BY FocusHost DEF TextInv, Quiet
<1> QED BY <1>1, <1>2 DEF TextInv

LEMMA TextInvNext == TextInv /\ [TextNext]_textVars => TextInv'
<1> SUFFICES ASSUME TextInv, [TextNext]_textVars PROVE TextInv'
  OBVIOUS
<1>0. Core /\ FocusInv
  BY DEF TextInv
<1>1. CASE prepareLinuxTextInput
  <2> DEFINE no == FALSE
  <2>1. b' = prepare(b, no) /\ no \in BOOLEAN /\ UNCHANGED <<in, daemon, ghosts>>
    BY <1>1 DEF prepareLinuxTextInput
  <2> HIDE DEF no
  <2> QED BY <1>0, <2>1, PrepareQuiet, QuietInv
<1>2. CASE finishLinuxTextInput
  <2>1. PICK t \in 1 .. b.next_token, valid \in BOOLEAN : b' = finish(b, t, valid)
    BY <1>2 DEF finishLinuxTextInput
  <2>2. UNCHANGED <<in, daemon, ghosts>> /\ t # 0
    BY <1>2 DEF finishLinuxTextInput
  <2> QED BY <1>0, <2>1, <2>2, FinishQuiet, QuietInv
<1>3. CASE available
  <2>1. PICK auto \in BOOLEAN : AvailableAnswers(auto) \/ Initialize(auto)
    BY <1>3 DEF available
  <2>2. CASE AvailableAnswers(auto)
    <3>1. /\ Core' /\ b'.engine = b.engine /\ b'.focused = b.focused /\ b'.up = b.up
          /\ b'.context = b.context /\ (b'.token = 0 \/ (b'.token = b.token /\ b'.fresh = b.fresh))
      BY <1>0, <2>2, AvailableQuiet
    <3>2. UNCHANGED <<in, daemon>>
      BY <2>2 DEF AvailableAnswers
    <3> QED BY <1>0, <3>1, <3>2, FocusHost DEF TextInv
  <2>3. CASE Initialize(auto)
    <3>1. Core' /\ in' = <<>> /\ b'.engine = 0
      BY <1>0, <2>3, InitializeCore
    <3>2. FocusInv'
      BY <3>1 DEF FocusInv, EngineKnown, LastSignal, FocusedIsOurs, AgainCurrent, Prepared
    <3> QED BY <3>1, <3>2 DEF TextInv
  <2> QED BY <2>1, <2>2, <2>3
<1>4. CASE Expire
  <2>1. UNCHANGED <<in, daemon, ghosts>>
    BY <1>4 DEF Expire
  <2> QED BY <1>0, <1>4, <2>1, ExpireQuiet, QuietInv
<1>5. CASE Dispatch
  BY <1>0, <1>5, DispatchFacts, FocusDispatch DEF TextInv
<1>6. CASE DaemonServes
  BY <1>0, <1>6, DaemonServesInv DEF TextInv
<1>7. CASE DaemonRefuses
  BY <1>0, <1>7, DaemonRefusesInv DEF TextInv
<1>8. CASE CallTimesOut
  BY <1>0, <1>8, CallTimesOutInv DEF TextInv
<1>9. CASE Disconnect
  BY <1>0, <1>9, DisconnectInv DEF TextInv
<1>10. ASSUME NEW e \in Engines, SwitchEngine(e) PROVE TextInv'
  BY <1>0, <1>10, SwitchEngineInv DEF TextInv
<1>11. ASSUME NEW c \in Contexts \cup {Fake}, MoveFocus(c) PROVE TextInv'
  BY <1>0, <1>11, MoveFocusInv DEF TextInv
<1>12. CASE UNCHANGED textVars
  <2>1. b' = b /\ UNCHANGED <<in, daemon, ghosts>>
    BY <1>12 DEF textVars
  <2>2. Quiet(b, b)
    BY DEF Quiet
  <2> QED BY <1>0, <2>1, <2>2, CoreFacts, QuietInv
<1> QED BY <1>1, <1>2, <1>3, <1>4, <1>5, <1>6, <1>7, <1>8, <1>9, <1>10, <1>11, <1>12 DEF TextNext

LEMMA TextInvSound == TextInv => TextTypeOK /\ TransactionSound
<1> SUFFICES ASSUME TextInv PROVE TextTypeOK /\ TransactionSound
  OBVIOUS
<1>0. Core /\ FocusInv /\ b \in Backend
  BY DEF TextInv, Core, TypesOK
<1>1. TextTypeOK
  <2>1. \A i \in DOMAIN b.out : b.out[i].k \in TxnSteps \cup {"register", None}
    <3>1. b.out \in Seq(OutMsgs)
      BY <1>0 DEF Backend
    <3>2. \A i \in DOMAIN b.out : b.out[i] \in OutMsgs
      BY <3>1, ElementOfSeq
    <3> QED BY <3>2 DEF OutMsgs, Kinds
  <2>2. /\ {b.ready, b.initializing, b.busy, b.focused, b.fresh, b.up, b.gaveUp} \subseteq BOOLEAN
        /\ b.previous \in Engines \cup {None} /\ b.context \in Contexts \cup {None}
        /\ b.waiters \in Seq(BOOLEAN) /\ b.engine \in Nat
    BY <1>0 DEF Backend
  <2>3. /\ b.engine \in 0 .. engine_id /\ b.token \in {0, b.next_token}
        /\ (b.waiters # <<>> => b.initializing)
        /\ global \in Engines \cup {Ours} /\ ctx \in Contexts \cup {Fake}
    BY <1>0, <2>2 DEF Core, TypesOK
  <2> QED BY <2>1, <2>2, <2>3 DEF TextTypeOK
<1>2. ActiveMeansPrepared
  <2> SUFFICES ASSUME b.token # 0, active(b), \A i \in DOMAIN in : in[i].method \notin FocusSignals
               PROVE  global = Ours /\ ctx = b.context
    BY DEF ActiveMeansPrepared
  <2>1. ~Has(in, FocusSignals)
    BY DEF Has
  <2> QED BY <1>0, <2>1 DEF active, FocusInv, FocusedIsOurs, Prepared
<1>3. UsersEngineKept
  BY <1>0 DEF Core, ChoiceOK, Users, UsersEngineKept
<1> QED BY <1>0, <1>1, <1>2, <1>3 DEF Core, TransactionSound

\* The invariant of the committed text transaction is inductive.
THEOREM TextInvariant == TextSpec => []TextInv
<1> QED BY TextInvInit, TextInvNext, PTL DEF TextSpec

\* The types of the Backend hold, and callers only wait for an initialisation that
\* is under way (LinuxTextInput.TextTypeOK).
THEOREM TextTypeCorrect == TextSpec => []TextTypeOK
<1>1. TextInv => TextTypeOK
  BY TextInvSound
<1> QED BY TextInvariant, <1>1, PTL

\* One transaction at a time, whose text can only reach the context it was prepared
\* for, and the user's choice of engine wins: whatever times out, fails, restarts or
\* arrives late, with any number of engines and contexts.
THEOREM TransactionsAreSound == TextSpec => []TransactionSound
<1>1. TextInv => TransactionSound
  BY TextInvSound
<1> QED BY TextInvariant, <1>1, PTL

=============================================================================
