------------------------ MODULE WindowsPluginProofs ------------------------
(***************************************************************************)
(* Proofs about WindowsPlugin and its parts (WindowsGamepads,              *)
(* WindowsLocalCapture, WindowsDisplaySettings), for every value of their  *)
(* constants.  Each part has an inductive invariant of its own; the parts  *)
(* share only alive.                                                       *)
(***************************************************************************)
EXTENDS WindowsPlugin, FiniteSetTheorems, SequenceTheorems, WellFoundedInduction, TLAPS

----------------------------------------------------------------------------
(* The inductive invariants.                                               *)

\* Custom resolutions and orientation.
SettingsInv ==
  /\ late \in Seq(Lists) /\ kept \in Lists \cup {NoList}
  /\ kept # NoList /\ ~overtaken => slots = Stored(kept)
  /\ CopyIsRight

Moves == {[tag |-> ReseedTag, synthetic |-> TRUE], [tag |-> "none", synthetic |-> FALSE]}

\* The lock, and what the window's queue may hold.
LockInv == LockSound /\ moves \in Seq(Moves) /\ (~alive => ~cursor_locked_)

\* Keys: what Dart was told, unless a change of blocking straddled it, is what
\* key_states_ has, is held, and is blocked now; a key recorded in key_states_ is
\* held and blocked unless its release was missed; a blocked key that the system
\* takes for down was carried into the blocking.
KeyInv ==
  /\ hook_handle_ => callback_
  /\ ~hook_handle_ => key_states_ = {}
  /\ stale \subseteq straddled
  /\ told \ straddled \subseteq key_states_ \cap physical
  /\ \A k \in told \ straddled : Blocks(k)
  /\ key_states_ \ stale \subseteq physical
  /\ \A k \in key_states_ \ stale : Blocks(k)
  /\ \A k \in async : Blocks(k) => k \in carriedIn
  /\ SystemKnowsKeys

Pads      == [id : Slots, target : Targets, disposed : BOOLEAN]
Callbacks == [cookie : Nat, target : Targets, found : BOOLEAN]
Events    == [type : {"created"}, id : Slots, target : Targets]
               \cup [type : {"kept"}, token : Nat]
               \cup [type : {"rumble"}, id : Slots, token : Nat, target : Targets]

PadForms ==
  /\ pads \in Seq(Pads) /\ padToDart \in Seq(Events)
  /\ messages \in Seq(Callbacks) /\ inCallback \subseteq Callbacks
  /\ IsFiniteSet(inCallback) /\ next_ \in Nat
  /\ \A h \in heard : h[1] \in 1 .. Len(pads)

\* Who has which gamepad: a target sits in one slot, and has one handle or one
\* message that will make it; a message about a handle that lives on finds the
\* gamepad in its slot, and the handle waiting for it.
OwnersInv ==
  /\ \A s, u \in Slots : controllers[s] = controllers[u] /\ controllers[s] # None => s = u
  /\ \A t, u \in 1 .. Len(pads) : pads[t].target = pads[u].target => t = u
  /\ \A t \in 1 .. Len(pads) : pads[t].target <= targets
  /\ HandlesHavePads
  /\ \A i \in 1 .. Len(padToDart) : padToDart[i].type = "created" =>
       /\ padToDart[i].target <= targets
       /\ controllers[padToDart[i].id] = padToDart[i].target
       /\ \A t \in 1 .. Len(pads) : pads[t].target # padToDart[i].target
       /\ \A j \in 1 .. Len(padToDart) :
            padToDart[j].type = "created" /\ padToDart[j].target = padToDart[i].target => i = j
  /\ \A i \in 1 .. Len(padToDart) : padToDart[i].type = "kept" =>
       LET t == padToDart[i].token IN
       /\ t \in 1 .. Len(pads) /\ pads[t].disposed
       /\ controllers[pads[t].id] = pads[t].target
       /\ \A j \in 1 .. Len(padToDart) :
            padToDart[j].type = "kept" /\ padToDart[j].token = t => i = j

\* The registry: a cookie belongs to one entry and one slot, whose gamepad ViGEm
\* calls back with it, for the handle that subscribed.
RegistryInv ==
  /\ \A e, f \in entries : e.cookie = f.cookie => e = f
  /\ \A e \in entries : /\ controllers[e.id] # None
                        /\ rumble_contexts[e.id].cookie = e.cookie
                        /\ notify[controllers[e.id]] = e.cookie
                        /\ e.token \in 1 .. Len(pads)
                        /\ pads[e.token].target = controllers[e.id]
  /\ \A e \in entries, s \in Slots : e.cookie = rumble_contexts[s].cookie => e.id = s
  /\ \A s \in Slots : rumble_contexts[s].cookie # None =>
       /\ rumble_contexts[s].token \in 1 .. Len(pads)
       /\ pads[rumble_contexts[s].token].target = controllers[s]
  /\ \A t \in Targets : notify[t] # None =>
       \E e \in entries : e.cookie = notify[t] /\ controllers[e.id] = t

\* A cookie under way was given out, and if it is still registered then for the
\* gamepad the rumble came from.
Right(c) == c.cookie <= next_ /\ \A e \in entries : e.cookie = c.cookie => controllers[e.id] = c.target

\* Rumbles under way, from the callback to Dart.
FlightInv ==
  /\ \A c \in inCallback : Right(c)
  /\ \A i \in 1 .. Len(messages) : Right(messages[i])
  /\ \A i \in 1 .. Len(padToDart) : padToDart[i].type = "rumble" =>
       /\ padToDart[i].token \in 1 .. Len(pads)
       /\ pads[padToDart[i].token].target = padToDart[i].target
  /\ RumbleOfOwnPad

\* Nothing is left behind the destructor.
GoneInv == ~alive => ~rumble_proc /\ entries = {} /\ \A t \in Targets : notify[t] = None

PadInv == PadForms /\ OwnersInv /\ RegistryInv /\ FlightInv /\ GoneInv

----------------------------------------------------------------------------
(* What a step of the plugin is for each of its parts.                      *)

\* A step as the gamepads see it.
LEMMA PadSteps ==
  ASSUME [Next]_vars
  PROVE  \/ alive' = alive /\ ((alive /\ PadCalls) \/ PadEvents \/ UNCHANGED padVars)
         \/ alive' = FALSE /\ StopRumbleNotifications
  BY Zenon DEF Next, HandleMethodCall, User, Deliver, Destroy, DestroyParts, vars

\* A step as the keyboard blocker and the cursor lock see it.
LEMMA CaptureSteps ==
  ASSUME [Next]_vars
  PROVE  \/ alive' = alive /\ alive /\ (KeyboardCalls \/ CursorCalls \/ UserTypes)
         \/ alive' = alive /\ (UserMoves \/ FocusChanges \/ CursorReseedSubclassProc
                               \/ UNCHANGED captureVars)
         \/ alive' = FALSE /\ CleanupCursorLock /\ UNCHANGED moveVars
  BY Zenon DEF Next, HandleMethodCall, User, Deliver, Destroy, DestroyParts, vars

\* A step as the display settings see it.
LEMMA SettingsSteps ==
  ASSUME [Next]_vars
  PROVE  ConfigCalls \/ OrientationCalls \/ UserRotates \/ ServiceCatchesUp \/ UNCHANGED settingsVars
  BY Zenon DEF Next, HandleMethodCall, User, Deliver, Destroy, DestroyParts, vars

\* A set of numbers that is not empty has a least one.
LEMMA LeastExists ==
  ASSUME NEW S \in SUBSET Nat, S # {}
  PROVE  \E x \in S : \A y \in S : x <= y
<1> DEFINE R == {ss \in Nat \X Nat : ss[1] < ss[2]}
<1>1. IsWellFoundedOn(R, Nat)
  BY NatLessThanWellFounded, Zenon DEF OpToRel
<1>2. PICK x \in S : \A y \in S : <<y, x>> \notin R
  <2> HIDE DEF R
  <2> QED BY <1>1, WFMin, Zenon
<1>3. ASSUME NEW y \in S PROVE x <= y
  <2>1. ~(<<y, x>> \in Nat \X Nat /\ <<y, x>>[1] < <<y, x>>[2])
    BY <1>2, Zenon
  <2> QED BY <2>1
<1> QED BY <1>3, Zenon

----------------------------------------------------------------------------
(* Display settings.                                                       *)

\* A list is a sequence of resolutions, at most one longer than there are subkeys.
LEMMA ListFacts ==
  ASSUME NEW l \in Lists
  PROVE  /\ l \in Seq(Configs) /\ Len(l) \in 0 .. NSlots + 1 /\ DOMAIN l = 1 .. Len(l)
         /\ \A i \in 1 .. Len(l) : l[i] \in Configs
         /\ l # NoList
<1>1. PICK n \in 0 .. NSlots + 1 : l \in [1 .. n -> Configs]
  BY DEF Lists
<1>2. n \in Nat /\ l \in Seq(Configs)
  BY <1>1, SettingsAssumption
<1>3. Len(l) = n
  BY <1>1, <1>2
<1>4. l # NoList
  BY <1>1, <1>2, <1>3, SettingsAssumption DEF NoList
<1> QED
  BY <1>1, <1>2, <1>3, <1>4

\* What is stored is a state of the subkeys.
LEMMA StoredType ==
  ASSUME NEW l \in Lists
  PROVE  Stored(l) \in [1 .. NSlots -> Configs \cup {Empty}]
  BY ListFacts, SettingsAssumption DEF Stored

LEMMA SettingsStart ==
  ASSUME Init
  PROVE  SettingsTypeOK /\ SettingsInv
<1>1. late = <<>> /\ kept = NoList /\ slots \in [1 .. NSlots -> Configs \cup {Empty}]
  BY DEF Init, SettingsInit
<1>2. late \in Seq(Lists) /\ Len(late) = 0
  BY <1>1
<1>3. {overtaken, turned, rotated} \subseteq BOOLEAN
  BY Zenon DEF Init, SettingsInit
<1> QED
  BY <1>1, <1>2, <1>3, SettingsAssumption DEF Init, SettingsInit, SettingsTypeOK, SettingsInv, CopyIsRight, Unlisted

\* A write of the plugin's own leaves subkeys of the right type, and what it reports
\* as kept is stored.
LEMMA WriteFacts ==
  ASSUME NEW s \in [1 .. NSlots -> Configs \cup {Empty}], NEW l \in Lists, WriteSubkeys(s, l)
  PROVE  /\ slots' \in [1 .. NSlots -> Configs \cup {Empty}]
         /\ kept' \in Lists \cup {NoList}
         /\ kept' # NoList => slots' = Stored(kept')
<1>1. CASE slots' = Stored(l) /\ kept' = l
  BY <1>1, StoredType
<1>2. CASE /\ \E k \in {1} \cup (DOMAIN l \cap 1 .. NSlots) :
                slots' = [i \in 1 .. NSlots |-> IF i < k THEN l[i] ELSE s[i]]
           /\ kept' = NoList
  <2>1. PICK k \in {1} \cup (DOMAIN l \cap 1 .. NSlots) :
             slots' = [i \in 1 .. NSlots |-> IF i < k THEN l[i] ELSE s[i]]
    BY <1>2
  <2>2. k = 1 \/ k \in 1 .. Len(l)
    BY <2>1, ListFacts
  <2>3. \A i \in 1 .. NSlots : i < k => l[i] \in Configs
    BY <2>2, ListFacts, SettingsAssumption
  <2> QED
    BY <1>2, <2>1, <2>3
<1> QED
  BY <1>1, <1>2 DEF WriteSubkeys

LEMMA SetConfigs ==
  ASSUME SettingsTypeOK, SettingsInv, NEW l \in Lists, SetCustomDisplayConfigs(l)
  PROVE  /\ slots' \in [1 .. NSlots -> Configs \cup {Empty}] /\ Len(late') <= MaxLate
         /\ late' \in Seq(Lists) /\ kept' \in Lists \cup {NoList}
         /\ kept' # NoList /\ ~overtaken' => slots' = Stored(kept')
<1>1. late \in Seq(Lists) /\ slots \in [1 .. NSlots -> Configs \cup {Empty}]
  BY DEF SettingsInv, SettingsTypeOK
<1>2. CASE ServiceAnswers(l)
  BY <1>1, <1>2, StoredType DEF ServiceAnswers, SettingsTypeOK
<1>3. CASE NoAnswer(l)
  <2>1. Len(late') <= MaxLate /\ late' \in Seq(Lists)
    <3>1. CASE UNCHANGED late
      BY <1>1, <3>1 DEF SettingsTypeOK
    <3>2. CASE Len(late) < MaxLate /\ late' = Append(late, l)
      BY <1>1, <3>2, AppendProperties, SettingsAssumption
    <3> QED
      BY <1>3, <3>1, <3>2, Zenon DEF NoAnswer
  <2>2. WriteSubkeys(slots, l) \/ WriteSubkeys(Stored(l), l)
    BY <1>3, Zenon DEF NoAnswer
  <2> QED
    BY <1>1, <2>1, <2>2, WriteFacts, StoredType
<1> QED
  BY <1>2, <1>3 DEF SetCustomDisplayConfigs

LEMMA SettingsStep ==
  ASSUME SettingsTypeOK, SettingsInv, [Next]_vars
  PROVE  SettingsTypeOK' /\ SettingsInv'
<1>1. CASE ConfigCalls
  <2>1. PICK l \in Lists : SetCustomDisplayConfigs(l)
    BY <1>1 DEF ConfigCalls
  <2>2. UNCHANGED orientationVars /\ overtaken' = FALSE
    BY <2>1 DEF SetCustomDisplayConfigs
  <2> QED
    BY <2>1, <2>2, SetConfigs DEF SettingsTypeOK, SettingsInv, CopyIsRight, orientationVars
<1>2. CASE ListDisplay
  <2>1. turned' \in BOOLEAN /\ rotated' \in BOOLEAN /\ overtaken' \in BOOLEAN
    BY <1>2, Zenon DEF ListDisplay, FetchAllDisplayConfigs, SettingsTypeOK, configVars
  <2> QED
    BY <1>2, <2>1 DEF ListDisplay, FetchAllDisplayConfigs, SettingsTypeOK, SettingsInv, CopyIsRight,
                      configVars, Stored, Unlisted
<1>3. ASSUME NEW o \in 0 .. 3, SetDisplayOrientation(o) PROVE SettingsTypeOK' /\ SettingsInv'
  <2>1. /\ current_orientation_' \in {orientation', Unlisted} \/ rotated'
        /\ turned' => rotated'
    BY <1>3 DEF SetDisplayOrientation, SettingsTypeOK, SettingsInv, CopyIsRight, Noted, configVars, Unlisted
  <2>2. turned' \in BOOLEAN /\ rotated' \in BOOLEAN /\ overtaken' \in BOOLEAN
    BY <1>3, Zenon DEF SetDisplayOrientation, SettingsTypeOK, configVars
  <2>3. orientation' \in 0 .. 3 /\ current_orientation_' \in 0 .. Unlisted
    BY <1>3 DEF SetDisplayOrientation, SettingsTypeOK, Noted, Unlisted
  <2> QED
    BY <1>3, <2>1, <2>2, <2>3 DEF SetDisplayOrientation, SettingsTypeOK, SettingsInv, CopyIsRight, configVars, Stored
<1>4. CASE UserRotates
  <2>1. turned' \in BOOLEAN /\ rotated' \in BOOLEAN /\ overtaken' \in BOOLEAN
    BY <1>4, Zenon DEF UserRotates, SettingsTypeOK, configVars
  <2> QED
    BY <1>4, <2>1 DEF UserRotates, SettingsTypeOK, SettingsInv, CopyIsRight, configVars, Stored
<1>5. CASE ServiceCatchesUp
  <2>1. Head(late) \in Lists /\ late' \in Seq(Lists) /\ Len(late') = Len(late) - 1
    BY <1>5, HeadTailProperties, Zenon DEF ServiceCatchesUp, SettingsInv
  <2>2. Len(late) \in Nat
    BY DEF SettingsInv
  <2>3. Len(late') <= MaxLate
    BY <2>1, <2>2, SettingsAssumption DEF SettingsTypeOK
  <2> QED
    BY <1>5, <2>1, <2>3, StoredType DEF ServiceCatchesUp, SettingsTypeOK, SettingsInv, CopyIsRight, orientationVars
<1>6. CASE UNCHANGED settingsVars
  BY <1>6 DEF SettingsTypeOK, SettingsInv, CopyIsRight, settingsVars, configVars, orientationVars, Stored
<1> QED
  BY <1>1, <1>2, <1>3, <1>4, <1>5, <1>6, SettingsSteps DEF OrientationCalls

\* One pass of the loop over the subkeys, given what the passes before it collected.
Collected(f) == [i \in 0 .. NSlots |->
                   IF i = 0 THEN <<>>
                   ELSE IF slots[i] = Empty THEN f[i - 1] ELSE Append(f[i - 1], slots[i])]

\* The loop has one result.
LEMMA CollectedUnique ==
  ASSUME NEW f, NEW g, f = Collected(f), g = Collected(g)
  PROVE  f[NSlots] = g[NSlots]
<1> DEFINE B == {i \in 0 .. NSlots : f[i] # g[i]}
<1>1. SUFFICES ASSUME f[NSlots] # g[NSlots] PROVE FALSE
  OBVIOUS
<1>2. B \in SUBSET Nat /\ B # {}
  BY <1>1, SettingsAssumption
<1>3. PICK x \in B : \A y \in B : x <= y
  <2> HIDE DEF B
  <2> QED BY <1>2, LeastExists
<1>4. \A h : h = Collected(h) =>
        h[x] = IF x = 0 THEN <<>>
               ELSE IF slots[x] = Empty THEN h[x - 1] ELSE Append(h[x - 1], slots[x])
  BY Zenon DEF Collected
<1>5. x # 0 => x - 1 \in 0 .. NSlots /\ ~(x <= x - 1)
  BY SettingsAssumption
<1>6. x # 0 => f[x - 1] = g[x - 1]
  BY <1>3, <1>5
<1>7. f[x] = g[x]
  BY <1>4, <1>6, Zenon
<1> QED
  BY <1>7

\* The loop reads back the list that was stored, as far as there are subkeys for it.
LEMMA ReadsBack ==
  ASSUME NEW l \in Lists, slots = Stored(l)
  PROVE  GetCustomDisplayConfigs = SubSeq(l, 1, IF Len(l) < NSlots THEN Len(l) ELSE NSlots)
<1> DEFINE m    == IF Len(l) < NSlots THEN Len(l) ELSE NSlots
           g    == [i \in 0 .. NSlots |-> SubSeq(l, 1, IF i < m THEN i ELSE m)]
           upTo == CHOOSE f : f = Collected(f)
<1>1. /\ l \in Seq(Configs) /\ Len(l) \in Nat /\ \A i \in 1 .. Len(l) : l[i] \in Configs
      /\ NSlots \in Nat \ {0} /\ m \in 0 .. Len(l) /\ m <= NSlots
  BY ListFacts, SettingsAssumption
<1>2. \A i \in 1 .. NSlots : /\ i <= m => slots[i] = l[i] /\ slots[i] # Empty
                             /\ i > m => slots[i] = Empty
  BY <1>1, SettingsAssumption DEF Stored
<1>3. SubSeq(l, 1, 0) = <<>>
  BY SubSeqEmpty
<1>4. ASSUME NEW i \in 1 .. NSlots, i <= m
      PROVE  SubSeq(l, 1, i) = Append(SubSeq(l, 1, i - 1), l[i])
  <2>1. SubSeq(l, 1, i) = SubSeq(l, 1, i - 1) \o <<l[i]>>
    BY <1>1, <1>4, SubSeqRecursiveSecond
  <2>2. SubSeq(l, 1, i - 1) \in Seq(Configs)
    BY <1>1, <1>4, SubSeqProperties
  <2> QED
    BY <1>1, <1>4, <2>1, <2>2, AppendIsConcat
<1>5. g = Collected(g)
  <2>1. ASSUME NEW i \in 0 .. NSlots
        PROVE  g[i] = IF i = 0 THEN <<>>
                      ELSE IF slots[i] = Empty THEN g[i - 1] ELSE Append(g[i - 1], slots[i])
    <3>1. CASE i = 0
      BY <1>1, <1>3, <3>1
    <3>2. CASE i # 0 /\ i <= m
      <4>1. g[i] = SubSeq(l, 1, i) /\ g[i - 1] = SubSeq(l, 1, i - 1)
        BY <1>1, <3>2
      <4>2. i \in 1 .. NSlots
        BY <3>2, SettingsAssumption
      <4>3. slots[i] = l[i] /\ slots[i] # Empty
        BY <1>2, <3>2, <4>2
      <4> HIDE DEF g, m, upTo
      <4>4. SubSeq(l, 1, i) = Append(SubSeq(l, 1, i - 1), l[i])
        BY <1>4, <3>2, <4>2
      <4> QED BY <3>2, <4>1, <4>3, <4>4, Zenon
    <3>3. CASE i # 0 /\ i > m
      <4>1. g[i] = SubSeq(l, 1, m) /\ g[i - 1] = SubSeq(l, 1, m)
        BY <1>1, <3>3
      <4>2. i \in 1 .. NSlots
        BY <3>3, SettingsAssumption
      <4>3. slots[i] = Empty
        BY <1>2, <3>3, <4>2
      <4> HIDE DEF g, m, upTo
      <4> QED BY <3>3, <4>1, <4>3, Zenon
    <3>4. i <= m \/ i > m
      BY <1>1
    <3> HIDE DEF g, m
    <3> QED
      BY <3>1, <3>2, <3>3, <3>4
  <2> QED
    BY <2>1, Zenon DEF Collected
<1>6. upTo = Collected(upTo)
  BY <1>5, Zenon
<1>7. upTo[NSlots] = g[NSlots]
  <2> HIDE DEF g, upTo
  <2> QED BY <1>5, <1>6, CollectedUnique
<1>8. GetCustomDisplayConfigs = upTo[NSlots]
  BY Zenon DEF GetCustomDisplayConfigs, Collected
<1>9. g[NSlots] = SubSeq(l, 1, m)
  BY <1>1
<1> QED
  BY <1>7, <1>8, <1>9

LEMMA SettingsEnd ==
  ASSUME SettingsInv
  PROVE  SettingsSound
<1>1. ASSUME kept # NoList, ~overtaken PROVE kept \in Lists /\ slots = Stored(kept)
  BY <1>1 DEF SettingsInv
<1>2. KeptIsRead
  BY <1>1, ReadsBack DEF KeptIsRead
<1> QED
  BY <1>2 DEF SettingsInv, SettingsSound

----------------------------------------------------------------------------
(* The keyboard blocker and the cursor lock.                                *)

KeyboardSets == /\ key_states_ \subseteq Keys /\ physical \subseteq Keys /\ async \subseteq Keys
                /\ told \subseteq Keys /\ straddled \subseteq Keys /\ stale \subseteq Keys
                /\ carriedIn \subseteq Keys

KeyboardFlags == hook_handle_ \in BOOLEAN /\ callback_ \in BOOLEAN /\ ime \in BOOLEAN /\ foreground \in BOOLEAN

LockFlags == /\ cursor_locked_ \in BOOLEAN /\ raw_input \in BOOLEAN /\ clipped \in BOOLEAN
             /\ refocused \in BOOLEAN /\ sawReseed \in BOOLEAN

\* The type invariant in parts.
LEMMA CaptureTypes ==
  CaptureTypeOK <=> /\ KeyboardSets /\ KeyboardFlags /\ LockFlags
                    /\ showCount \in -1 .. 0 /\ Len(moves) <= MaxMoves
<1>1. ({hook_handle_, callback_, ime, foreground, cursor_locked_, raw_input, clipped,
        refocused, sawReseed} \subseteq BOOLEAN) <=> KeyboardFlags /\ LockFlags
  BY Zenon DEF KeyboardFlags, LockFlags
<1>2. (\A S \in {key_states_, physical, async, told, straddled, stale, carriedIn} : S \subseteq Keys)
        <=> KeyboardSets
  BY Zenon DEF KeyboardSets
<1> QED
  BY <1>1, <1>2, Zenon DEF CaptureTypeOK

LEMMA CaptureStart ==
  ASSUME Init
  PROVE  CaptureTypeOK /\ LockInv /\ KeyInv
<1>1. KeyboardFlags /\ LockFlags
  BY Zenon DEF Init, CaptureInit, KeyboardFlags, LockFlags
<1>2. KeyboardSets
  BY Zenon DEF Init, CaptureInit, KeyboardSets
<1>3. showCount \in -1 .. 0 /\ Len(moves) <= MaxMoves /\ moves \in Seq(Moves)
  BY CaptureAssumption DEF Init, CaptureInit
<1>4. LockInv
  BY <1>3 DEF Init, CaptureInit, LockInv, LockSound
<1>5. KeyInv
  BY Zenon DEF Init, CaptureInit, KeyInv, SystemKnowsKeys
<1> QED
  BY <1>1, <1>2, <1>3, <1>4, <1>5, CaptureTypes

\* A step as the keyboard sees it.
LEMMA KeySteps ==
  ASSUME [Next]_vars
  PROVE  \/ Immerse \/ Emerge \/ (\E k \in Keys, d \in BOOLEAN : KeyboardHookProc(k, d))
         \/ FocusChanges \/ UNCHANGED <<keyboardVars, foreground>>
<1>1. CASE KeyboardCalls
  BY <1>1, Zenon DEF KeyboardCalls, SetImmersiveMode
<1>2. CASE CursorCalls
  BY <1>2, Zenon DEF CursorCalls, LockCursor, LockFailsShort, LockFailsRaw, UnlockCursor,
                     UnlockCursorAndReseed, Unlocked
<1>3. CASE UserTypes
  BY <1>3, Zenon DEF UserTypes
<1>4. CASE UserMoves \/ CursorReseedSubclassProc \/ UNCHANGED captureVars
  BY <1>4, Zenon DEF UserMoves, CursorReseedSubclassProc, captureVars
<1>5. CASE CleanupCursorLock
  BY <1>5, Zenon DEF CleanupCursorLock, Unlocked
<1> QED
  BY <1>1, <1>2, <1>3, <1>4, <1>5, CaptureSteps, Zenon

\* A step as the lock sees it.
LEMMA LockSteps ==
  ASSUME [Next]_vars
  PROVE  \/ alive' = alive /\ alive /\ CursorCalls
         \/ alive' = alive /\ (UserMoves \/ FocusChanges \/ CursorReseedSubclassProc)
         \/ alive' = alive /\ UNCHANGED <<lockVars, moveVars>>
         \/ alive' = FALSE /\ CleanupCursorLock /\ UNCHANGED moveVars
<1>1. CASE KeyboardCalls /\ alive' = alive
  BY <1>1, Zenon DEF KeyboardCalls, SetImmersiveMode, Immerse, Emerge
<1>2. CASE UNCHANGED captureVars /\ alive' = alive
  BY <1>2, Zenon DEF captureVars
<1>3. CASE UserTypes /\ alive' = alive
  BY <1>3, Zenon DEF UserTypes, KeyboardHookProc
<1> QED
  BY <1>1, <1>2, <1>3, CaptureSteps, Zenon

LEMMA LockStep ==
  ASSUME LockFlags, showCount \in -1 .. 0, Len(moves) <= MaxMoves, LockInv, [Next]_vars
  PROVE  LockFlags' /\ showCount' \in -1 .. 0 /\ Len(moves') <= MaxMoves /\ LockInv'
<1> USE DEF LockInv, LockSound
<1>0. /\ [tag |-> ReseedTag, synthetic |-> TRUE] \in Moves
      /\ [tag |-> "none", synthetic |-> FALSE] \in Moves
      /\ \A m \in Moves : ~(m.synthetic /\ m.tag # "reseed")
  BY DEF Moves, ReseedTag
<1>m. ASSUME NEW m \in Moves, Len(moves) < MaxMoves
      PROVE  Append(moves, m) \in Seq(Moves) /\ Len(Append(moves, m)) <= MaxMoves
  BY <1>m, AppendProperties, CaptureAssumption
<1>1. ASSUME Unlocked, cursor_locked_
      PROVE  /\ showCount' = 0 /\ raw_input' = FALSE /\ clipped' = FALSE /\ cursor_locked_' = FALSE
             /\ refocused' = FALSE
  BY <1>1 DEF Unlocked, Unclip
<1>u. ASSUME /\ showCount' = 0 /\ raw_input' = FALSE /\ clipped' = FALSE /\ cursor_locked_' = FALSE
             /\ refocused' = FALSE /\ sawReseed' = sawReseed
      PROVE  LockFlags' /\ LockSound'
  BY <1>u, Zenon DEF LockFlags
<1>l. ASSUME /\ showCount' = -1 /\ raw_input' = TRUE /\ clipped' = TRUE /\ cursor_locked_' = TRUE
             /\ refocused' = FALSE /\ sawReseed' = sawReseed
      PROVE  LockFlags' /\ LockSound'
  BY <1>l, Zenon DEF LockFlags
<1>2. CASE alive' = alive /\ alive /\ CursorCalls
  <2>1. CASE LockFailsShort
    BY <1>2, <2>1 DEF LockFailsShort, lockVars, moveVars, LockFlags
  <2>2. CASE ~cursor_locked_ /\ LockFailsRaw
    BY <1>2, <2>2 DEF LockFailsRaw, Unclip, moveVars, LockFlags
  <2>3. CASE /\ ~cursor_locked_
             /\ cursor_locked_' = TRUE /\ raw_input' = TRUE
             /\ clipped' = TRUE /\ refocused' = FALSE
             /\ showCount' = showCount - 1
             /\ UNCHANGED <<foreground, keyboardVars, moveVars>>
    <3>1. showCount' = -1
      BY <2>3
    <3>2. LockFlags' /\ LockSound'
      BY <1>l, <2>3, <3>1, Zenon DEF moveVars
    <3> QED
      BY <1>2, <2>3, <3>1, <3>2 DEF moveVars
  <2>4. CASE UnlockCursor
    <3>1. LockFlags' /\ LockSound'
      BY <1>1, <1>u, <2>4, Zenon DEF UnlockCursor, moveVars
    <3> QED
      BY <1>1, <1>2, <2>4, <3>1 DEF UnlockCursor, moveVars
  <2>5. CASE UnlockCursorAndReseed
    <3>1. LockFlags' /\ LockSound'
      BY <1>1, <1>u, <2>5, Zenon DEF UnlockCursorAndReseed
    <3> QED
      BY <1>0, <1>1, <1>m, <1>2, <2>5, <3>1 DEF UnlockCursorAndReseed
  <2> QED
    BY <1>2, <2>1, <2>2, <2>3, <2>4, <2>5, Zenon DEF CursorCalls, LockCursor
<1>3. CASE UserMoves /\ alive' = alive
  BY <1>0, <1>m, <1>3 DEF UserMoves, lockVars, LockFlags
<1>4. CASE FocusChanges /\ alive' = alive
  <2>1. LockFlags'
    BY <1>4, Zenon DEF FocusChanges, moveVars, LockFlags
  <2> QED
    BY <1>4, <2>1 DEF FocusChanges, moveVars
<1>5. CASE CursorReseedSubclassProc /\ alive' = alive
  <2>1. Head(moves) \in Moves /\ moves' \in Seq(Moves) /\ Len(moves') = Len(moves) - 1
    BY <1>5, HeadTailProperties, Zenon DEF CursorReseedSubclassProc
  <2>2. Len(moves') <= MaxMoves
    BY <2>1, CaptureAssumption
  <2>3. sawReseed' = FALSE
    BY <1>0, <1>5, <2>1 DEF CursorReseedSubclassProc
  <2> QED
    BY <1>5, <2>1, <2>2, <2>3 DEF CursorReseedSubclassProc, lockVars, LockFlags
<1>6. CASE alive' = alive /\ UNCHANGED <<lockVars, moveVars>>
  BY <1>6 DEF lockVars, moveVars, LockFlags
<1>7. CASE alive' = FALSE /\ CleanupCursorLock /\ UNCHANGED moveVars
  <2>1. CASE cursor_locked_ /\ Unlocked
    <3>1. LockFlags' /\ LockSound'
      BY <1>1, <1>u, <1>7, <2>1, Zenon DEF moveVars
    <3> QED
      BY <1>1, <1>7, <2>1, <3>1 DEF moveVars
  <2>2. CASE ~cursor_locked_ /\ UNCHANGED lockVars
    BY <1>7, <2>2 DEF lockVars, moveVars, LockFlags
  <2> QED
    BY <1>7, <2>1, <2>2, Zenon DEF CleanupCursorLock
<1> QED
  BY <1>2, <1>3, <1>4, <1>5, <1>6, <1>7, LockSteps, Zenon

\* What a step remembers of the keyboard is about keys.
LEMMA RememberType ==
  ASSUME NEW S, NEW A, KeyboardSets, Remember(S, A)
  PROVE  straddled' \subseteq Keys /\ stale' \subseteq Keys /\ carriedIn' \subseteq Keys
  BY DEF Remember, KeyboardSets

LEMMA KeyTypeStep ==
  ASSUME KeyboardSets, KeyboardFlags, [Next]_vars
  PROVE  KeyboardSets' /\ KeyboardFlags'
<1>1. CASE Immerse
  <2>1. KeyboardFlags'
    BY <1>1, Zenon DEF Immerse, KeyboardFlags
  <2> QED
    BY <1>1, <2>1, RememberType DEF Immerse, KeyboardSets
<1>2. CASE Emerge
  <2>1. KeyboardFlags'
    BY <1>2, Zenon DEF Emerge, KeyboardFlags
  <2> QED
    BY <1>2, <2>1, RememberType DEF Emerge, KeyboardSets, StopBlockingStates
<1>3. ASSUME NEW k \in Keys, NEW d \in BOOLEAN, KeyboardHookProc(k, d)
      PROVE  KeyboardSets' /\ KeyboardFlags'
  <2>1. KeyboardFlags'
    BY <1>3, Zenon DEF KeyboardHookProc, KeyboardFlags
  <2>2. straddled' \subseteq Keys /\ stale' \subseteq Keys /\ carriedIn' \subseteq Keys
    BY <1>3, RememberType, Zenon DEF KeyboardHookProc
  <2>3. \A S : S \subseteq Keys => With(S, k, d) \subseteq Keys
    BY DEF With
  <2>4. physical' \subseteq Keys /\ async' \subseteq Keys
    BY <1>3, <2>3, Zenon DEF KeyboardHookProc, KeyboardSets
  <2>5. key_states_' \subseteq Keys
    BY <1>3, <2>3, Zenon DEF KeyboardHookProc, KeyboardSets
  <2>6. told' \subseteq Keys
    BY <1>3, <2>3, Zenon DEF KeyboardHookProc, KeyboardSets
  <2> QED
    BY <2>1, <2>2, <2>4, <2>5, <2>6 DEF KeyboardSets
<1>4. CASE FocusChanges
  <2>1. KeyboardFlags'
    BY <1>4, Zenon DEF FocusChanges, KeyboardFlags
  <2> QED
    BY <1>4, <2>1, RememberType DEF FocusChanges, KeyboardSets
<1>5. CASE UNCHANGED <<keyboardVars, foreground>>
  BY <1>5 DEF KeyboardSets, KeyboardFlags, keyboardVars
<1> QED
  BY <1>1, <1>2, <1>3, <1>4, <1>5, KeySteps, Zenon

\* A key that was let through or is a modifier cannot change whether it is itself blocked:
\* only keys of a chord are blocked by the modifiers, and those are no modifiers.
LEMMA BlockingOfOthers ==
  ASSUME KeyboardFlags, NEW k \in Keys, NEW d \in BOOLEAN, KeyboardHookProc(k, d)
  PROVE  Blocks(k)' <=> Blocks(k)
<1>1. ASSUME k \in ChordKeys PROVE Chord[k] \subseteq async' <=> Chord[k] \subseteq async
  BY <1>1, CaptureAssumption DEF KeyboardHookProc, With
<1>2. hook_handle_' = hook_handle_ /\ foreground' = foreground
  BY DEF KeyboardHookProc
<1> QED
  BY <1>1, <1>2, Zenon DEF Blocks, ShouldBlockKey

LEMMA KeyStep ==
  ASSUME KeyboardSets, KeyboardFlags, KeyInv, [Next]_vars
  PROVE  KeyInv'
<1> USE DEF KeyInv, SystemKnowsKeys, Remember, Began, Ended, KeyboardSets, KeyboardFlags
<1>1. CASE Immerse
  BY <1>1 DEF Immerse, Blocks, ShouldBlockKey
<1>2. CASE Emerge
  BY <1>2 DEF Emerge, Blocks, ShouldBlockKey, StopBlockingStates
<1>3. CASE FocusChanges
  BY <1>3 DEF FocusChanges, Blocks, ShouldBlockKey
<1>b. ASSUME NEW k \in Keys, NEW d \in BOOLEAN, KeyboardHookProc(k, d), Blocks(k)
      PROVE  /\ \A x : Blocks(x)' <=> Blocks(x)
             /\ Began = {} /\ Ended = {} /\ UNCHANGED <<hook_handle_, callback_, foreground, async>>
             /\ hook_handle_ /\ foreground /\ callback_
  <2>1. UNCHANGED <<hook_handle_, callback_, foreground, async>>
    BY <1>b DEF KeyboardHookProc
  <2>2. \A x : Blocks(x)' <=> Blocks(x)
    BY <2>1, Zenon DEF Blocks, ShouldBlockKey
  <2> QED
    BY <1>b, <2>1, <2>2 DEF Blocks
<1>4. ASSUME NEW k \in Keys, KeyboardHookProc(k, TRUE), Blocks(k) PROVE KeyInv'
  BY <1>4, <1>b, ZenonT(30) DEF KeyboardHookProc, With
<1>5. ASSUME NEW k \in Keys, KeyboardHookProc(k, FALSE), Blocks(k) PROVE KeyInv'
  BY <1>5, <1>b, ZenonT(30) DEF KeyboardHookProc, With
<1>6. ASSUME NEW k \in Keys, KeyboardHookProc(k, TRUE), ~Blocks(k) PROVE KeyInv'
  BY <1>6, BlockingOfOthers, ZenonT(30) DEF KeyboardHookProc, Blocks, With
<1>7. ASSUME NEW k \in Keys, KeyboardHookProc(k, FALSE), ~Blocks(k) PROVE KeyInv'
  BY <1>7, BlockingOfOthers, ZenonT(30) DEF KeyboardHookProc, Blocks, With
<1>8. CASE UNCHANGED <<keyboardVars, foreground>>
  BY <1>8 DEF keyboardVars, Blocks, ShouldBlockKey
<1> QED
  BY <1>1, <1>2, <1>3, <1>4, <1>5, <1>6, <1>7, <1>8, KeySteps, Zenon

----------------------------------------------------------------------------
(* The gamepads.                                                           *)

PadFlags == initialized \in BOOLEAN /\ rumble_proc \in BOOLEAN

PadData ==
  /\ controllers \in [Slots -> 0 .. targets] /\ targets \in 0 .. MaxTargets
  /\ rumble_contexts \in [Slots -> [token : 0 .. MaxTargets, cookie : 0 .. next_]]
  /\ entries \subseteq [cookie : 1 .. next_, id : Slots, token : 1 .. MaxTargets]
  /\ notify \in [Targets -> 0 .. next_]

\* A step that makes or disposes no handle, or disposes one, leaves what the others are.
SamePads ==
  /\ Len(pads') = Len(pads)
  /\ \A u \in 1 .. Len(pads) : pads'[u].id = pads[u].id /\ pads'[u].target = pads[u].target

\* What kind an event is says which fields it has.
LEMMA EventFacts ==
  ASSUME NEW e \in Events
  PROVE  /\ e.type \in {"created", "kept", "rumble"}
         /\ e.type = "created" => e.id \in Slots /\ e.target \in Targets
         /\ e.type = "kept" => e.token \in Nat
         /\ e.type = "rumble" => e.id \in Slots /\ e.token \in Nat /\ e.target \in Targets
<1>1. CASE e \in [type : {"created"}, id : Slots, target : Targets]
  BY <1>1
<1>2. CASE e \in [type : {"kept"}, token : Nat]
  BY <1>2
<1>3. CASE e \in [type : {"rumble"}, id : Slots, token : Nat, target : Targets]
  BY <1>3
<1> QED
  BY <1>1, <1>2, <1>3 DEF Events

\* What an append leaves, element by element.
LEMMA Appended ==
  ASSUME NEW T, NEW s \in Seq(T), NEW x \in T
  PROVE  /\ Append(s, x) \in Seq(T) /\ Len(Append(s, x)) = Len(s) + 1
         /\ Append(s, x)[Len(s) + 1] = x
         /\ \A i \in 1 .. Len(s) : Append(s, x)[i] = s[i]
         /\ \A i \in 1 .. Len(s) + 1 : i \in 1 .. Len(s) \/ i = Len(s) + 1
  BY AppendProperties

\* What taking the head leaves.
LEMMA Shifted ==
  ASSUME NEW T, NEW s \in Seq(T), s # <<>>
  PROVE  /\ Tail(s) \in Seq(T) /\ Len(Tail(s)) = Len(s) - 1 /\ Head(s) = s[1]
         /\ 1 \in 1 .. Len(s) /\ Head(s) \in T
         /\ \A i \in 1 .. Len(Tail(s)) : i + 1 \in 1 .. Len(s) /\ Tail(s)[i] = s[i + 1]
  BY HeadTailProperties

\* There are no more handles than targets, as each handle has a target of its own.
LEMMA HandlesBounded ==
  ASSUME PadData, PadForms, OwnersInv
  PROVE  Len(pads) \in 0 .. MaxTargets
<1> DEFINE f == [t \in 1 .. Len(pads) |-> pads[t].target]
<1>a. pads \in Seq(Pads) /\ targets \in Nat
  BY GamepadAssumption DEF PadForms, PadData
<1>b. Len(pads) \in Nat /\ \A t \in 1 .. Len(pads) : pads[t] \in Pads
  BY <1>a
<1>c. \A q \in Pads : q.target \in Nat \ {0}
  BY GamepadAssumption DEF Pads, Targets
<1>1. Len(pads) \in Nat /\ targets \in Nat /\ \A t \in 1 .. Len(pads) : pads[t].target \in Nat \ {0}
  BY <1>a, <1>b, <1>c, Zenon
<1>2. f \in Injection(1 .. Len(pads), 1 .. targets)
  BY <1>1 DEF OwnersInv, Injection, IsInjective
<1>3. IsFiniteSet(1 .. targets) /\ Cardinality(1 .. targets) = targets
  BY <1>1, FS_Interval
<1>4. IsFiniteSet(1 .. Len(pads)) /\ Cardinality(1 .. Len(pads)) = Len(pads)
  <2> DEFINE n == Len(pads)
  <2>1. n \in Nat
    BY <1>1
  <2> HIDE DEF n
  <2>2. IsFiniteSet(1 .. n) /\ Cardinality(1 .. n) = n
    BY <2>1, FS_Interval
  <2> QED BY <2>2 DEF n
<1>5. Cardinality(1 .. Len(pads)) <= Cardinality(1 .. targets)
  <2> HIDE DEF f
  <2> QED BY <1>2, <1>3, <1>4, FS_Injection
<1> QED
  BY <1>1, <1>3, <1>4, <1>5, GamepadAssumption DEF PadData

\* The gamepads' state, element by element.
LEMMA DataFacts ==
  ASSUME PadData, next_ \in Nat
  PROVE  /\ MaxTargets \in Nat /\ targets \in Nat /\ targets <= MaxTargets
         /\ \A u \in Slots : controllers[u] \in Nat /\ controllers[u] <= targets
         /\ \A u \in Slots : controllers[u] # None => controllers[u] \in Targets
         /\ \A u \in Slots : /\ rumble_contexts[u].token \in 0 .. MaxTargets
                             /\ rumble_contexts[u].cookie \in 0 .. next_
         /\ \A t \in Targets : notify[t] \in 0 .. next_
         /\ \A e \in entries : /\ e.cookie \in 1 .. next_ /\ e.id \in Slots
                               /\ e.token \in 1 .. MaxTargets /\ e.cookie # None
<1>1. MaxTargets \in Nat /\ targets \in Nat /\ targets <= MaxTargets
  BY GamepadAssumption DEF PadData
<1>2. \A u \in Slots : controllers[u] \in 0 .. targets
  BY DEF PadData
<1>3. \A u \in Slots : rumble_contexts[u] \in [token : 0 .. MaxTargets, cookie : 0 .. next_]
  BY DEF PadData
<1>4. \A t \in Targets : notify[t] \in 0 .. next_
  BY DEF PadData
<1>5. \A e \in entries : e \in [cookie : 1 .. next_, id : Slots, token : 1 .. MaxTargets]
  BY DEF PadData
<1>6. \A u \in Slots : controllers[u] \in Nat /\ controllers[u] <= targets
  BY <1>1, <1>2
<1>7. \A u \in Slots : controllers[u] # None => controllers[u] \in Targets
  BY <1>1, <1>2 DEF None, Targets
<1>8. \A u \in Slots : /\ rumble_contexts[u].token \in 0 .. MaxTargets
                       /\ rumble_contexts[u].cookie \in 0 .. next_
  BY <1>3
<1>9. \A e \in entries : /\ e.cookie \in 1 .. next_ /\ e.id \in Slots
                         /\ e.token \in 1 .. MaxTargets /\ e.cookie # None
  BY <1>5 DEF None
<1> QED
  BY <1>1, <1>4, <1>6, <1>7, <1>8, <1>9

\* Subscribing for the gamepad in slot s on behalf of one of its handles: the slot's old
\* entry goes, and a cookie under way still says whose rumble it is.
LEMMA SubscribeKeeps ==
  ASSUME PadData, PadForms, OwnersInv, RegistryInv,
         NEW s \in Slots, NEW tok \in 1 .. Len(pads), controllers[s] # None,
         pads[tok].target = controllers[s],
         NEW ok \in BOOLEAN, Subscribe(s, tok, ok),
         controllers' = controllers, targets' = targets, SamePads
  PROVE  /\ PadData' /\ RegistryInv' /\ next_' \in Nat
         /\ \A c : c.cookie \in Nat /\ Right(c) => Right(c)'
<1> DEFINE new == [cookie |-> next_ + 1, id |-> s, token |-> tok]
           old == {e \in entries : e.cookie # rumble_contexts[s].cookie}
           g   == controllers[s]
<1>1. /\ next_ \in Nat /\ next_' = next_ + 1 /\ Len(pads) \in 0 .. MaxTargets
      /\ MaxTargets \in Nat /\ g \in Targets /\ tok \in 1 .. MaxTargets
  <2>1. next_ \in Nat /\ next_' = next_ + 1
    BY DEF PadForms, Subscribe
  <2> QED
    BY <2>1, HandlesBounded, DataFacts
<1>2. entries' = old \cup (IF ok THEN {new} ELSE {})
  BY Zenon DEF Subscribe, Lookup, NextCookie
<1>3. /\ rumble_contexts' = [rumble_contexts EXCEPT ![s] = [token |-> tok, cookie |-> IF ok THEN next_ + 1 ELSE None]]
      /\ notify' = [notify EXCEPT ![g] = IF ok THEN next_ + 1 ELSE None]
  BY Zenon DEF Subscribe, NextCookie
<1>4. new.cookie = next_ + 1 /\ new.id = s /\ new.token = tok
  OBVIOUS
<1>5. ASSUME NEW e \in entries
      PROVE  /\ e.cookie \in 1 .. next_ /\ e.id \in Slots /\ e.token \in 1 .. MaxTargets
             /\ e.cookie # rumble_contexts[s].cookie <=> e.id # s
             /\ e.id # s => controllers[e.id] # g
  BY <1>1 DEF PadData, RegistryInv, OwnersInv
<1>6. /\ \A u \in Slots : u # s => rumble_contexts'[u] = rumble_contexts[u]
      /\ rumble_contexts'[s].token = tok /\ rumble_contexts'[s].cookie = IF ok THEN next_ + 1 ELSE None
      /\ \A t \in Targets : t # g => notify'[t] = notify[t]
      /\ notify'[g] = IF ok THEN next_ + 1 ELSE None
  <2>1. rumble_contexts = [u \in Slots |-> rumble_contexts[u]] /\ notify = [t \in Targets |-> notify[t]]
    BY DEF PadData
  <2>2. rumble_contexts'[s] = [token |-> tok, cookie |-> IF ok THEN next_ + 1 ELSE None]
    BY <1>3, <2>1
  <2> HIDE DEF g
  <2> QED
    BY <1>1, <1>3, <2>1, <2>2
<1> HIDE DEF new, g
<1>7. PadData'
  <2>1. rumble_contexts' \in [Slots -> [token : 0 .. MaxTargets, cookie : 0 .. next_']]
    <3>1. rumble_contexts \in [Slots -> [token : 0 .. MaxTargets, cookie : 0 .. next_']]
      BY <1>1 DEF PadData
    <3>2. [token |-> tok, cookie |-> IF ok THEN next_ + 1 ELSE None]
             \in [token : 0 .. MaxTargets, cookie : 0 .. next_']
      BY <1>1 DEF None
    <3> QED
      BY <1>3, <3>1, <3>2
  <2>2. notify' \in [Targets -> 0 .. next_']
    BY <1>1, <1>3, <1>6 DEF PadData, None
  <2>3. entries' \subseteq [cookie : 1 .. next_', id : Slots, token : 1 .. MaxTargets]
    <3>1. new \in [cookie : 1 .. next_', id : Slots, token : 1 .. MaxTargets]
      BY <1>1 DEF new
    <3>2. entries \subseteq [cookie : 1 .. next_', id : Slots, token : 1 .. MaxTargets]
      BY <1>1 DEF PadData
    <3> QED
      BY <1>2, <3>1, <3>2
  <2> QED
    BY <2>1, <2>2, <2>3 DEF PadData
<1>8. ASSUME NEW e \in entries' PROVE (e \in entries /\ e.id # s) \/ (ok /\ e = new)
  BY <1>2, <1>5, <1>8
<1>9. RegistryInv'
  <2>1. \A e, f \in entries' : e.cookie = f.cookie => e = f
    BY <1>1, <1>4, <1>5, <1>8 DEF RegistryInv
  <2>2. ASSUME NEW e \in entries'
        PROVE  /\ controllers[e.id] # None
               /\ rumble_contexts'[e.id].cookie = e.cookie
               /\ notify'[controllers[e.id]] = e.cookie
               /\ e.token \in 1 .. Len(pads)
               /\ pads'[e.token].target = controllers[e.id]
    <3>1. CASE e \in entries /\ e.id # s
      <4>1. controllers[e.id] # None /\ controllers[e.id] \in Targets /\ controllers[e.id] # g
        BY <1>1, <1>5, <3>1, DataFacts DEF RegistryInv
      <4> QED
        BY <1>5, <1>6, <3>1, <4>1 DEF RegistryInv, SamePads
    <3>2. CASE ok /\ e = new
      BY <1>4, <1>6, <3>2 DEF SamePads, g
    <3> QED
      BY <1>8, <2>2, <3>1, <3>2
  <2>3. \A e \in entries', u \in Slots : e.cookie = rumble_contexts'[u].cookie => e.id = u
    BY <1>1, <1>4, <1>5, <1>6, <1>8, DataFacts DEF RegistryInv, None
  <2>4. ASSUME NEW u \in Slots, rumble_contexts'[u].cookie # None
        PROVE  /\ rumble_contexts'[u].token \in 1 .. Len(pads)
               /\ pads'[rumble_contexts'[u].token].target = controllers[u]
    BY <1>6, <2>4 DEF RegistryInv, SamePads
  <2>5. ASSUME NEW t \in Targets, notify'[t] # None
        PROVE  \E e \in entries' : e.cookie = notify'[t] /\ controllers[e.id] = t
    <3>1. CASE t = g
      BY <1>2, <1>4, <1>6, <2>5, <3>1 DEF g
    <3>2. CASE t # g
      <4>1. PICK e \in entries : e.cookie = notify[t] /\ controllers[e.id] = t
        BY <1>6, <2>5, <3>2 DEF RegistryInv
      <4>2. e \in entries' /\ e.cookie = notify'[t]
        BY <1>2, <1>5, <1>6, <3>2, <4>1 DEF g
      <4> QED
        BY <4>1, <4>2
    <3> QED
      BY <3>1, <3>2
  <2> QED
    BY <2>1, <2>2, <2>3, <2>4, <2>5 DEF RegistryInv, SamePads
<1>10. ASSUME NEW c, c.cookie \in Nat, Right(c) PROVE Right(c)'
  BY <1>1, <1>4, <1>8, <1>10 DEF Right
<1> QED
  BY <1>1, <1>7, <1>9, <1>10

\* Ending the notifications of the gamepads in the slots S, which may then be emptied.
LEMMA UnregisterKeeps ==
  ASSUME PadData, next_ \in Nat, OwnersInv, RegistryInv,
         NEW S \in SUBSET Slots, UnregisterRumble(S),
         targets' = targets, controllers' \in [Slots -> 0 .. targets],
         \A u \in Slots : u \notin S => controllers'[u] = controllers[u],
         SamePads
  PROVE  /\ PadData' /\ RegistryInv' /\ next_' = next_
         /\ entries' = {e \in entries : e.id \notin S}
         /\ \A c : Right(c) => Right(c)'
<1>1. next_' = next_
  BY DEF UnregisterRumble
<1>2. entries' = {e \in entries : e.id \notin S}
  <2>1. ASSUME NEW e \in entries PROVE (\A u \in S : e.cookie # rumble_contexts[u].cookie) <=> e.id \notin S
    BY DEF RegistryInv
  <2> QED
    BY <2>1 DEF UnregisterRumble
<1>3. /\ \A u \in Slots : u \notin S => rumble_contexts'[u] = rumble_contexts[u]
      /\ \A u \in S : /\ rumble_contexts'[u].cookie = None
                      /\ rumble_contexts'[u].token = rumble_contexts[u].token
      /\ \A t \in Targets : notify'[t] = IF \E u \in S : controllers[u] = t THEN None ELSE notify[t]
  <2>1. \A u \in Slots : rumble_contexts[u] \in [token : 0 .. MaxTargets, cookie : 0 .. next_]
    BY DEF PadData
  <2> QED
    BY <2>1 DEF UnregisterRumble
<1>4. PadData'
  <2>1. rumble_contexts' \in [Slots -> [token : 0 .. MaxTargets, cookie : 0 .. next_]]
    BY <1>3, DataFacts DEF UnregisterRumble, None, PadData
  <2>2. notify' \in [Targets -> 0 .. next_]
    BY <1>3, DataFacts DEF UnregisterRumble, None
  <2> QED
    BY <1>1, <1>2, <2>1, <2>2 DEF PadData
<1>5. ASSUME NEW e \in entries, e.id \notin S
      PROVE  /\ e.id \in Slots /\ controllers'[e.id] = controllers[e.id]
             /\ controllers[e.id] # None /\ controllers[e.id] \in Targets
             /\ \A u \in S : controllers[u] # controllers[e.id]
  BY <1>5, DataFacts DEF OwnersInv, RegistryInv
<1>6. RegistryInv'
  <2>1. \A e, f \in entries' : e.cookie = f.cookie => e = f
    BY <1>2 DEF RegistryInv
  <2>2. ASSUME NEW e \in entries'
        PROVE  /\ controllers'[e.id] # None
               /\ rumble_contexts'[e.id].cookie = e.cookie
               /\ notify'[controllers'[e.id]] = e.cookie
               /\ e.token \in 1 .. Len(pads)
               /\ pads'[e.token].target = controllers'[e.id]
    BY <1>2, <1>3, <1>5, <2>2 DEF RegistryInv, SamePads
  <2>3. \A e \in entries', u \in Slots : e.cookie = rumble_contexts'[u].cookie => e.id = u
    BY <1>2, <1>3, DataFacts DEF RegistryInv
  <2>4. ASSUME NEW u \in Slots, rumble_contexts'[u].cookie # None
        PROVE  /\ rumble_contexts'[u].token \in 1 .. Len(pads)
               /\ pads'[rumble_contexts'[u].token].target = controllers'[u]
    BY <1>3, <2>4 DEF RegistryInv, SamePads
  <2>5. ASSUME NEW t \in Targets, notify'[t] # None
        PROVE  \E e \in entries' : e.cookie = notify'[t] /\ controllers'[e.id] = t
    <3>1. notify'[t] = notify[t] /\ \A u \in S : controllers[u] # t
      BY <1>3, <2>5
    <3>2. PICK e \in entries : e.cookie = notify[t] /\ controllers[e.id] = t
      BY <2>5, <3>1 DEF RegistryInv
    <3>3. e.id \notin S
      BY <3>1, <3>2
    <3> QED
      BY <1>2, <1>5, <3>1, <3>2, <3>3
  <2> QED
    BY <2>1, <2>2, <2>3, <2>4, <2>5 DEF RegistryInv, SamePads
<1>7. ASSUME NEW c, Right(c) PROVE Right(c)'
  BY <1>1, <1>2, <1>5, <1>7 DEF Right
<1> QED
  BY <1>1, <1>2, <1>4, <1>6, <1>7

PadCore == PadData /\ PadForms /\ OwnersInv /\ RegistryInv /\ FlightInv

coreVars == <<controllers, targets, rumble_contexts, registryVars, notify, inCallback, messages,
              padToDart, pads, heard>>

\* A step that changes none of this keeps it.
LEMMA CoreFrame ==
  ASSUME PadCore, UNCHANGED coreVars
  PROVE  PadCore'
  BY DEF PadCore, coreVars, registryVars, PadData, PadForms, OwnersInv, RegistryInv, FlightInv, Right,
         HandlesHavePads, RumbleOfOwnPad, Tokens

\* The handles, one by one.
LEMMA HandleFacts ==
  ASSUME PadForms
  PROVE  /\ Len(pads) \in Nat /\ DOMAIN pads = 1 .. Len(pads)
         /\ \A t \in 1 .. Len(pads) : /\ pads[t] \in Pads /\ pads[t].id \in Slots /\ pads[t].target \in Targets
                                      /\ pads[t].target # None /\ pads[t].target \in Nat
<1>1. pads \in Seq(Pads)
  BY DEF PadForms
<1>2. \A q \in Pads : q.id \in Slots /\ q.target \in Targets /\ q.target # None /\ q.target \in Nat
  BY GamepadAssumption DEF Pads, Targets, None
<1>3. Len(pads) \in Nat /\ DOMAIN pads = 1 .. Len(pads) /\ \A t \in 1 .. Len(pads) : pads[t] \in Pads
  BY <1>1
<1> QED
  BY <1>2, <1>3, Zenon

\* A new gamepad has a target of its own and a slot that was empty.
LEMMA CreateKeeps ==
  ASSUME PadCore, CreateGameController
  PROVE  PadCore'
<1> USE DEF PadCore
<1>1. PICK added \in BOOLEAN :
        LET free == {s \in Slots : controllers[s] = None}
            s    == CHOOSE x \in free : \A y \in free : x <= y
        IN  \/ /\ free # {} /\ targets' = targets + 1
               /\ controllers' = [controllers EXCEPT ![s] = targets + 1]
               /\ padToDart' = IF added THEN Append(padToDart,
                                  [type |-> "created", id |-> s, target |-> targets + 1])
                                ELSE padToDart
            \/ UNCHANGED <<targets, controllers, padToDart>>
  BY Zenon DEF CreateGameController
<1>2. CASE UNCHANGED <<targets, controllers, padToDart>>
  BY <1>2, CoreFrame DEF CreateGameController, coreVars
<1>3. ASSUME NEW s \in Slots, controllers[s] = None,
             targets' = targets + 1, controllers' = [controllers EXCEPT ![s] = targets + 1],
             \/ padToDart' = padToDart
             \/ padToDart' = Append(padToDart, [type |-> "created", id |-> s, target |-> targets + 1])
      PROVE  PadCore'
  <2> DEFINE new == [type |-> "created", id |-> s, target |-> targets + 1]
  <2>1. /\ UNCHANGED <<rumble_contexts, entries, next_, notify, inCallback, messages, pads, heard>>
        /\ targets < MaxTargets /\ next_ \in Nat
    BY DEF CreateGameController, registryVars, PadForms
  <2>2. targets \in Nat /\ targets + 1 \in Targets /\ targets + 1 # None
    BY <2>1, DataFacts, GamepadAssumption DEF Targets, None
  <2>3. /\ controllers'[s] = targets + 1
        /\ \A u \in Slots : u # s => controllers'[u] = controllers[u]
    BY <1>3 DEF PadData
  <2>4. PadData'
    <3>1. controllers \in [Slots -> 0 .. targets'] /\ targets + 1 \in 0 .. targets'
      BY <1>3, <2>2 DEF PadData
    <3>2. controllers' \in [Slots -> 0 .. targets']
      BY <1>3, <3>1
    <3>3. targets' \in 0 .. MaxTargets
      BY <1>3, <2>1, <2>2, DataFacts
    <3> QED
      BY <2>1, <3>2, <3>3 DEF PadData
  <2>5. new \in Events /\ new.type = "created" /\ new.id = s /\ new.target = targets + 1
    BY <2>2 DEF Events
  <2>6. padToDart \in Seq(Events) /\ Len(padToDart) \in Nat
    BY DEF PadForms
  <2>7. /\ padToDart' \in Seq(Events)
        /\ \A i \in 1 .. Len(padToDart') :
             \/ i \in 1 .. Len(padToDart) /\ padToDart'[i] = padToDart[i]
             \/ padToDart'[i] = new /\ i = Len(padToDart) + 1
    <3>1. padToDart' = padToDart \/ padToDart' = Append(padToDart, new)
      BY <1>3, Zenon
    <3> HIDE DEF new
    <3>2. CASE padToDart' = padToDart
      BY <2>6, <3>2
    <3>3. CASE padToDart' = Append(padToDart, new)
      BY <2>5, <2>6, <3>3, Appended
    <3> QED BY <3>1, <3>2, <3>3
  <2> HIDE DEF new
  <2>8. PadForms'
    BY <2>1, <2>7 DEF PadForms
  <2>9. OwnersInv'
    <3>1. \A u, v \in Slots : controllers'[u] = controllers'[v] /\ controllers'[u] # None => u = v
      BY <2>1, <2>2, <2>3, DataFacts, SMTT(30) DEF OwnersInv
    <3>2. \A t \in 1 .. Len(pads) : pads[t].target <= targets'
      BY <1>3, <2>2, HandleFacts DEF OwnersInv
    <3>3. HandlesHavePads'
      BY <1>3, <2>1, <2>3, HandleFacts DEF OwnersInv, HandlesHavePads, Tokens
    <3>4. ASSUME NEW i \in 1 .. Len(padToDart'), padToDart'[i].type = "created"
          PROVE  /\ padToDart'[i].target <= targets'
                 /\ controllers'[padToDart'[i].id] = padToDart'[i].target
                 /\ \A t \in 1 .. Len(pads) : pads[t].target # padToDart'[i].target
                 /\ \A j \in 1 .. Len(padToDart') :
                      padToDart'[j].type = "created" /\ padToDart'[j].target = padToDart'[i].target => i = j
      <4>0. \A j \in 1 .. Len(padToDart) : padToDart[j].type = "created" =>
              /\ padToDart[j].target \in Targets /\ padToDart[j].id \in Slots
              /\ padToDart[j].target <= targets
        BY <2>6, EventFacts DEF OwnersInv
      <4>1. CASE padToDart'[i] = new
        BY <1>3, <2>2, <2>3, <2>5, <2>7, <4>0, <4>1, HandleFacts, SMTT(30) DEF OwnersInv, Targets
      <4>2. CASE i \in 1 .. Len(padToDart) /\ padToDart'[i] = padToDart[i]
        <5>1. /\ padToDart[i].type = "created" /\ padToDart[i].id \in Slots /\ padToDart[i].target \in Targets
              /\ padToDart[i].target <= targets /\ controllers[padToDart[i].id] = padToDart[i].target
              /\ \A t \in 1 .. Len(pads) : pads[t].target # padToDart[i].target
          BY <3>4, <4>0, <4>2 DEF OwnersInv
        <5>2. padToDart[i].target <= targets' /\ padToDart[i].id # s /\ padToDart[i].target # targets + 1
          BY <1>3, <2>2, <5>1, GamepadAssumption DEF Targets, None
        <5>3. ASSUME NEW j \in 1 .. Len(padToDart'), padToDart'[j].type = "created",
                     padToDart'[j].target = padToDart'[i].target
              PROVE  i = j
          <6>1. j \in 1 .. Len(padToDart) /\ padToDart'[j] = padToDart[j]
            BY <2>5, <2>7, <4>2, <5>2, <5>3
          <6> QED
            BY <3>4, <4>2, <5>3, <6>1 DEF OwnersInv
        <5> QED
          BY <2>3, <4>2, <5>1, <5>2, <5>3
      <4> QED
        BY <2>7, <4>1, <4>2
    <3>5. ASSUME NEW i \in 1 .. Len(padToDart'), padToDart'[i].type = "kept"
          PROVE  LET t == padToDart'[i].token IN
                 /\ t \in 1 .. Len(pads) /\ pads[t].disposed
                 /\ controllers'[pads[t].id] = pads[t].target
                 /\ \A j \in 1 .. Len(padToDart') :
                      padToDart'[j].type = "kept" /\ padToDart'[j].token = t => i = j
      <4>1. \A j \in 1 .. Len(padToDart') : padToDart'[j].type = "kept" =>
              j \in 1 .. Len(padToDart) /\ padToDart'[j] = padToDart[j]
        BY <2>5, <2>7
      <4>2. i \in 1 .. Len(padToDart) /\ padToDart'[i] = padToDart[i] /\ padToDart[i].type = "kept"
        BY <3>5, <4>1
      <4>3. PICK t : t = padToDart[i].token
        BY Zenon
      <4>4. /\ t \in 1 .. Len(pads) /\ pads[t].disposed /\ controllers[pads[t].id] = pads[t].target
            /\ \A j \in 1 .. Len(padToDart) :
                 padToDart[j].type = "kept" /\ padToDart[j].token = t => i = j
        BY <4>2, <4>3, Zenon DEF OwnersInv
      <4>5. pads[t].id \in Slots /\ pads[t].id # s
        BY <1>3, <4>4, HandleFacts
      <4>6. controllers'[pads[t].id] = pads[t].target
        BY <2>3, <4>4, <4>5
      <4>7. ASSUME NEW j \in 1 .. Len(padToDart'), padToDart'[j].type = "kept", padToDart'[j].token = t
            PROVE  i = j
        BY <4>1, <4>4, <4>7, Zenon
      <4> QED BY <4>2, <4>3, <4>4, <4>6, <4>7, Zenon
    <3> QED
      BY <2>1, <3>1, <3>2, <3>3, <3>4, <3>5 DEF OwnersInv
  <2>10. RegistryInv'
    <3>1. \A e \in entries : e.id \in Slots /\ e.id # s /\ controllers'[e.id] = controllers[e.id]
      BY <1>3, <2>1, <2>3, DataFacts DEF RegistryInv
    <3>2. \A u \in Slots : rumble_contexts[u].cookie # None => u # s
      BY <1>3, HandleFacts DEF RegistryInv
    <3> QED
      BY <2>1, <2>3, <3>1, <3>2 DEF RegistryInv
  <2>11. FlightInv'
    <3>1. \A e \in entries : controllers'[e.id] = controllers[e.id]
      BY <1>3, <2>1, <2>3, DataFacts DEF RegistryInv
    <3> QED
      BY <2>1, <2>5, <2>7, <3>1 DEF FlightInv, Right, RumbleOfOwnPad
  <2> QED
    BY <2>4, <2>8, <2>9, <2>10, <2>11
<1>4. ASSUME {s \in Slots : controllers[s] = None} # {}
      PROVE  LET free == {s \in Slots : controllers[s] = None}
             IN  (CHOOSE x \in free : \A y \in free : x <= y) \in free
  <2>1. {s \in Slots : controllers[s] = None} \in SUBSET Nat
    BY GamepadAssumption DEF Slots
  <2> QED
    BY <1>4, <2>1, LeastExists
<1> QED
  BY <1>1, <1>2, <1>3, <1>4

\* What is under way is still right when every registration that stays is as it was.
LEMMA FlightKeeps ==
  ASSUME PadForms, FlightInv, UNCHANGED <<inCallback, messages, heard>>, SamePads,
         \A c : c.cookie \in Nat /\ Right(c) => Right(c)',
         \A i \in 1 .. Len(padToDart') : padToDart'[i].type = "rumble" =>
           i \in 1 .. Len(padToDart) /\ padToDart'[i] = padToDart[i]
  PROVE  FlightInv'
<1>1. /\ \A c \in inCallback : c.cookie \in Nat
      /\ \A i \in 1 .. Len(messages) : messages[i].cookie \in Nat
  <2>1. \A c \in Callbacks : c.cookie \in Nat
    BY DEF Callbacks
  <2> QED
    BY <2>1 DEF PadForms
<1>2. (\A c \in inCallback : Right(c))' /\ (\A i \in 1 .. Len(messages) : Right(messages[i]))'
  <2>1. ASSUME NEW c \in inCallback PROVE Right(c)'
    BY <1>1, <2>1, Zenon DEF FlightInv
  <2>2. ASSUME NEW i \in 1 .. Len(messages) PROVE Right(messages[i])'
    <3> DEFINE c == messages[i]
    <3>1. c.cookie \in Nat /\ Right(c) /\ c = messages'[i]
      BY <1>1, <2>2, Zenon DEF FlightInv
    <3> HIDE DEF c
    <3>2. c.cookie \in Nat /\ Right(c) => (c.cookie <= next_' /\ \A e \in entries' : e.cookie = c.cookie => controllers'[e.id] = c.target)
      BY Zenon DEF Right
    <3> QED
      BY <3>1, <3>2, Zenon DEF Right
  <2> QED
    BY <2>1, <2>2
<1>3. RumbleOfOwnPad'
  BY DEF FlightInv, RumbleOfOwnPad, SamePads, PadForms
<1>4. \A i \in 1 .. Len(padToDart') : padToDart'[i].type = "rumble" =>
        /\ padToDart'[i].token \in 1 .. Len(pads')
        /\ pads'[padToDart'[i].token].target = padToDart'[i].target
  BY DEF FlightInv, SamePads
<1> QED
  BY <1>2, <1>3, <1>4 DEF FlightInv

LEMMA SubscribeRumbleKeeps ==
  ASSUME PadCore, NEW t \in Tokens, SubscribeRumble(t)
  PROVE  PadCore'
<1> USE DEF PadCore
<1>1. PICK ok \in BOOLEAN : Subscribe(pads[t].id, t, ok)
  BY DEF SubscribeRumble
<1>2. /\ UNCHANGED <<controllers, targets, inCallback, messages, padToDart, pads, heard>>
      /\ ~pads[t].disposed
  BY DEF SubscribeRumble
<1>3. /\ t \in 1 .. Len(pads) /\ pads[t].id \in Slots /\ pads[t].target # None
      /\ controllers[pads[t].id] = pads[t].target
  BY <1>2, HandleFacts DEF Tokens, OwnersInv, HandlesHavePads
<1>4. SamePads
  BY <1>2 DEF SamePads
<1>5. PadData' /\ RegistryInv' /\ next_' \in Nat /\ \A c : c.cookie \in Nat /\ Right(c) => Right(c)'
  BY <1>1, <1>2, <1>3, <1>4, SubscribeKeeps
<1>6. FlightInv'
  BY <1>2, <1>4, <1>5, FlightKeeps
<1>7. PadForms' /\ OwnersInv'
  BY <1>2, <1>5 DEF PadForms, OwnersInv, HandlesHavePads, Tokens
<1> QED
  BY <1>5, <1>6, <1>7

\* A handle that calls dispose.
LEMMA Disposes ==
  ASSUME PadCore, NEW t \in Tokens, pads' = [pads EXCEPT ![t].disposed = TRUE]
  PROVE  /\ SamePads /\ pads' \in Seq(Pads) /\ DOMAIN pads' = 1 .. Len(pads)
         /\ pads'[t].disposed = TRUE
         /\ \A u \in 1 .. Len(pads) : u # t => pads'[u] = pads[u]
<1>1. pads \in Seq(Pads) /\ t \in 1 .. Len(pads) /\ Len(pads) \in Nat
  BY HandleFacts DEF Tokens, PadForms, PadCore
<1>2. \A q \in Pads : /\ [q EXCEPT !.disposed = TRUE] \in Pads
                      /\ [q EXCEPT !.disposed = TRUE].disposed = TRUE
                      /\ [q EXCEPT !.disposed = TRUE].id = q.id
                      /\ [q EXCEPT !.disposed = TRUE].target = q.target
  BY DEF Pads
<1>3. pads' = [pads EXCEPT ![t] = [pads[t] EXCEPT !.disposed = TRUE]] /\ pads[t] \in Pads
  BY <1>1
<1>4. ASSUME NEW x \in Pads, pads' = [pads EXCEPT ![t] = x]
      PROVE  /\ pads' \in Seq(Pads) /\ DOMAIN pads' = 1 .. Len(pads) /\ Len(pads') = Len(pads)
             /\ pads'[t] = x /\ \A u \in 1 .. Len(pads) : u # t => pads'[u] = pads[u]
  <2>1. /\ pads' \in Seq(Pads) /\ Len(pads') = Len(pads)
        /\ \A j \in 1 .. Len(pads) : pads'[j] = IF j = t THEN x ELSE pads[j]
    <3>1. /\ [pads EXCEPT ![t] = x] \in Seq(Pads)
          /\ Len([pads EXCEPT ![t] = x]) = Len(pads)
          /\ \A j \in 1 .. Len(pads) : [pads EXCEPT ![t] = x][j] = IF j = t THEN x ELSE pads[j]
      BY <1>1, ExceptSeq
    <3> QED
      BY <1>4, <3>1, Zenon
  <2> QED
    BY <1>1, <2>1
<1>5. /\ pads' \in Seq(Pads) /\ DOMAIN pads' = 1 .. Len(pads) /\ Len(pads') = Len(pads)
      /\ pads'[t] = [pads[t] EXCEPT !.disposed = TRUE]
      /\ \A u \in 1 .. Len(pads) : u # t => pads'[u] = pads[u]
  BY <1>2, <1>3, <1>4
<1> QED
  BY <1>2, <1>3, <1>5 DEF SamePads

\* ViGEm removes the gamepad: its slot is empty, and no handle, event or entry is left
\* that takes the slot for its own.
LEMMA RemovedKeeps ==
  ASSUME PadCore, NEW t \in Tokens, ~pads[t].disposed,
         pads' = [pads EXCEPT ![t].disposed = TRUE],
         UnregisterRumble({pads[t].id}),
         controllers' = [controllers EXCEPT ![pads[t].id] = None],
         UNCHANGED <<targets, inCallback, messages, padToDart, heard>>
  PROVE  PadCore'
<1> USE DEF PadCore
<1> DEFINE s == pads[t].id
<1>1. /\ t \in 1 .. Len(pads) /\ s \in Slots /\ controllers[s] = pads[t].target
      /\ next_ \in Nat
  BY HandleFacts DEF Tokens, OwnersInv, HandlesHavePads, PadForms
<1>2. /\ controllers' \in [Slots -> 0 .. targets] /\ controllers'[s] = None
      /\ \A u \in Slots : u # s => controllers'[u] = controllers[u]
  BY <1>1, DataFacts DEF PadData, None
<1>3. /\ SamePads /\ pads' \in Seq(Pads) /\ DOMAIN pads' = 1 .. Len(pads)
      /\ pads'[t].disposed = TRUE
      /\ \A u \in 1 .. Len(pads) : u # t => pads'[u] = pads[u]
  BY Disposes
<1>4. /\ PadData' /\ RegistryInv' /\ next_' = next_
      /\ \A c : Right(c) => Right(c)'
  <2>1. \A u \in Slots : u \notin {s} => controllers'[u] = controllers[u]
    BY <1>2
  <2>2. {s} \in SUBSET Slots
    BY <1>1
  <2> HIDE DEF s
  <2>3. UnregisterRumble({s})
    BY DEF s
  <2> QED
    BY <1>1, <1>2, <1>3, <2>1, <2>2, <2>3, UnregisterKeeps
<1>5. FlightInv'
  BY <1>3, <1>4, FlightKeeps
<1>6. PadForms'
  BY <1>3, <1>4 DEF PadForms, SamePads
<1>7. \A u \in 1 .. Len(pads) : controllers[pads[u].id] = pads[u].target /\ u # t =>
        pads[u].id # s /\ controllers'[pads[u].id] = pads[u].target
  BY <1>1, <1>2, HandleFacts DEF OwnersInv
<1>8. OwnersInv'
  <2>1. \A u, v \in Slots : controllers'[u] = controllers'[v] /\ controllers'[u] # None => u = v
    BY <1>2 DEF OwnersInv
  <2>2. HandlesHavePads'
    BY <1>3, <1>7 DEF OwnersInv, HandlesHavePads, Tokens, SamePads
  <2>3. /\ \A u, v \in 1 .. Len(pads') : pads'[u].target = pads'[v].target => u = v
        /\ \A u \in 1 .. Len(pads') : pads'[u].target <= targets
    BY <1>3 DEF OwnersInv, SamePads
  <2>4. ASSUME NEW i \in 1 .. Len(padToDart), padToDart[i].type = "created"
        PROVE  /\ padToDart[i].target <= targets
               /\ controllers'[padToDart[i].id] = padToDart[i].target
               /\ \A u \in 1 .. Len(pads') : pads'[u].target # padToDart[i].target
               /\ \A j \in 1 .. Len(padToDart) :
                    padToDart[j].type = "created" /\ padToDart[j].target = padToDart[i].target => i = j
    <3>1. padToDart[i].id \in Slots
      BY <2>4, EventFacts DEF PadForms
    <3>2. padToDart[i].id # s
      BY <1>1, <2>4 DEF OwnersInv
    <3> QED
      BY <1>2, <1>3, <2>4, <3>1, <3>2 DEF OwnersInv, SamePads
  <2>5. ASSUME NEW i \in 1 .. Len(padToDart), padToDart[i].type = "kept"
        PROVE  LET u == padToDart[i].token IN
               /\ u \in 1 .. Len(pads') /\ pads'[u].disposed
               /\ controllers'[pads'[u].id] = pads'[u].target
               /\ \A j \in 1 .. Len(padToDart) :
                    padToDart[j].type = "kept" /\ padToDart[j].token = u => i = j
    <3>1. padToDart[i].token # t
      BY <2>5 DEF OwnersInv
    <3> QED
      BY <1>3, <1>7, <2>5, <3>1 DEF OwnersInv, SamePads
  <2> QED
    BY <2>1, <2>2, <2>3, <2>4, <2>5 DEF OwnersInv
<1> QED
  BY <1>4, <1>5, <1>6, <1>8

\* ViGEm refuses to: the gamepad stays, subscribed for the handle it was, and Dart is told.
LEMMA RefusedKeeps ==
  ASSUME PadCore, NEW t \in Tokens, ~pads[t].disposed,
         pads' = [pads EXCEPT ![t].disposed = TRUE],
         LET s == pads[t].id IN
           IF rumble_contexts[s].cookie # None
             THEN \E ok \in BOOLEAN : Subscribe(s, rumble_contexts[s].token, ok)
             ELSE UNCHANGED <<registryVars, rumble_contexts, notify>>,
         padToDart' = Append(padToDart, [type |-> "kept", token |-> t]),
         UNCHANGED <<controllers, targets, inCallback, messages, heard>>
  PROVE  PadCore'
<1> USE DEF PadCore
<1> DEFINE s   == pads[t].id
           new == [type |-> "kept", token |-> t]
<1>1. /\ t \in 1 .. Len(pads) /\ s \in Slots /\ controllers[s] = pads[t].target
      /\ controllers[s] # None /\ next_ \in Nat
  BY HandleFacts DEF Tokens, OwnersInv, HandlesHavePads, PadForms
<1>2. /\ SamePads /\ pads' \in Seq(Pads) /\ DOMAIN pads' = 1 .. Len(pads)
      /\ pads'[t].disposed = TRUE
      /\ \A u \in 1 .. Len(pads) : u # t => pads'[u] = pads[u]
  BY Disposes
<1>3. /\ PadData' /\ RegistryInv' /\ next_' \in Nat
      /\ \A c : c.cookie \in Nat /\ Right(c) => Right(c)'
  <2>1. CASE rumble_contexts[s].cookie # None
    <3>1. PICK ok \in BOOLEAN : Subscribe(s, rumble_contexts[s].token, ok)
      BY <2>1
    <3>2. /\ rumble_contexts[s].token \in 1 .. Len(pads)
          /\ pads[rumble_contexts[s].token].target = controllers[s]
      BY <1>1, <2>1 DEF RegistryInv
    <3> HIDE DEF s
    <3> QED
      BY <1>1, <1>2, <3>1, <3>2, SubscribeKeeps
  <2>2. CASE rumble_contexts[s].cookie = None
    <3>1. UNCHANGED <<entries, next_, rumble_contexts, notify>>
      BY <2>2 DEF registryVars
    <3> QED
      BY <1>1, <1>2, <3>1 DEF PadData, RegistryInv, Right, SamePads
  <2> QED
    BY <2>1, <2>2
<1>4. new \in Events /\ new.type = "kept" /\ new.token = t
  BY <1>1 DEF Events
<1>5. padToDart \in Seq(Events) /\ Len(padToDart) \in Nat
  BY DEF PadForms
<1> HIDE DEF new
<1>6. padToDart' = Append(padToDart, new)
  BY DEF new
<1>7. /\ padToDart' \in Seq(Events)
      /\ \A i \in 1 .. Len(padToDart') :
           \/ i \in 1 .. Len(padToDart) /\ padToDart'[i] = padToDart[i]
           \/ padToDart'[i] = new /\ i = Len(padToDart) + 1
  BY <1>4, <1>5, <1>6, Appended
<1>8. FlightInv'
  BY <1>2, <1>3, <1>4, <1>7, FlightKeeps
<1>9. PadForms'
  BY <1>2, <1>3, <1>7 DEF PadForms, SamePads
<1>10. OwnersInv'
  <2>1. HandlesHavePads'
    BY <1>2 DEF OwnersInv, HandlesHavePads, Tokens, SamePads
  <2>2. /\ \A u, v \in 1 .. Len(pads') : pads'[u].target = pads'[v].target => u = v
        /\ \A u \in 1 .. Len(pads') : pads'[u].target <= targets
    BY <1>2 DEF OwnersInv, SamePads
  <2>3. ASSUME NEW i \in 1 .. Len(padToDart'), padToDart'[i].type = "created"
        PROVE  /\ padToDart'[i].target <= targets
               /\ controllers[padToDart'[i].id] = padToDart'[i].target
               /\ \A u \in 1 .. Len(pads') : pads'[u].target # padToDart'[i].target
               /\ \A j \in 1 .. Len(padToDart') :
                    padToDart'[j].type = "created" /\ padToDart'[j].target = padToDart'[i].target => i = j
    BY <1>2, <1>4, <1>7, <2>3 DEF OwnersInv, SamePads
  <2>4. ASSUME NEW i \in 1 .. Len(padToDart'), padToDart'[i].type = "kept"
        PROVE  LET u == padToDart'[i].token IN
               /\ u \in 1 .. Len(pads') /\ pads'[u].disposed
               /\ controllers[pads'[u].id] = pads'[u].target
               /\ \A j \in 1 .. Len(padToDart') :
                    padToDart'[j].type = "kept" /\ padToDart'[j].token = u => i = j
    <3>1. \A j \in 1 .. Len(padToDart) : padToDart[j].type = "kept" => padToDart[j].token # t
      BY DEF OwnersInv
    <3> QED
      BY <1>1, <1>2, <1>4, <1>7, <2>4, <3>1 DEF OwnersInv, SamePads
  <2> QED
    BY <2>1, <2>2, <2>3, <2>4 DEF OwnersInv
<1> QED
  BY <1>3, <1>8, <1>9, <1>10

LEMMA RemoveKeeps ==
  ASSUME PadCore, NEW t \in Tokens, RemoveGameController(t)
  PROVE  PadCore'
  BY RemovedKeeps, RefusedKeeps, Zenon DEF RemoveGameController

\* What the registry and Dart have is untouched by a rumble on its way to the window.
LEMMA FlightFrame ==
  ASSUME PadCore,
         UNCHANGED <<controllers, targets, rumble_contexts, registryVars, notify, padToDart, pads, heard>>,
         inCallback' \subseteq Callbacks, IsFiniteSet(inCallback)', messages' \in Seq(Callbacks),
         \A c \in inCallback' : Right(c), \A i \in 1 .. Len(messages') : Right(messages'[i])
  PROVE  PadCore'
<1> USE DEF PadCore
<1>1. UNCHANGED <<entries, next_>>
  BY DEF registryVars
<1>2. PadData' /\ OwnersInv' /\ RegistryInv'
  BY <1>1 DEF PadData, OwnersInv, RegistryInv, HandlesHavePads, Tokens
<1>3. PadForms'
  BY <1>1 DEF PadForms
<1>4. FlightInv'
  BY <1>1 DEF FlightInv, Right, RumbleOfOwnPad
<1> QED
  BY <1>2, <1>3, <1>4

\* A callback carries a cookie that is registered, if at all, for the gamepad it is about.
LEMMA RumbleBeginsKeeps ==
  ASSUME PadCore, NEW t \in Targets, RumbleBegins(t)
  PROVE  PadCore'
<1> USE DEF PadCore
<1> DEFINE new == [cookie |-> notify[t], target |-> t, found |-> FALSE]
<1>1. next_ \in Nat /\ notify[t] \in 0 .. next_ /\ notify[t] # None
  BY DataFacts DEF PadForms, RumbleBegins
<1>2. new \in Callbacks /\ new.cookie = notify[t] /\ new.target = t
  BY <1>1 DEF Callbacks
<1>3. Right(new)
  <2>1. PICK e \in entries : e.cookie = notify[t] /\ controllers[e.id] = t
    BY <1>1 DEF RegistryInv
  <2>2. \A f \in entries : f.cookie = notify[t] => f = e
    BY <2>1 DEF RegistryInv
  <2> HIDE DEF new
  <2> QED
    BY <1>1, <1>2, <2>1, <2>2 DEF Right
<1>4. inCallback' = inCallback \cup {new}
  BY DEF RumbleBegins
<1> HIDE DEF new
<1>5. IsFiniteSet(inCallback')
  BY <1>4, FS_AddElement DEF PadForms
<1> QED
  BY <1>2, <1>3, <1>4, <1>5, FlightFrame DEF RumbleBegins, PadForms, FlightInv

LEMMA LookupKeeps ==
  ASSUME PadCore, NEW c \in inCallback, OnRumbleLookup(c)
  PROVE  PadCore'
<1> USE DEF PadCore
<1> DEFINE d == [c EXCEPT !.found = TRUE]
<1>1. c \in Callbacks
  BY DEF PadForms
<1>2. d \in Callbacks /\ d.cookie = c.cookie /\ d.target = c.target
  BY <1>1 DEF Callbacks
<1>3. Right(c)
  BY DEF FlightInv
<1> HIDE DEF d
<1>4. Right(d)
  BY <1>2, <1>3 DEF Right
<1>5. inCallback' = inCallback \ {c} \/ inCallback' = (inCallback \ {c}) \cup {d}
  BY DEF OnRumbleLookup, d
<1>6. IsFiniteSet(inCallback \ {c}) /\ IsFiniteSet((inCallback \ {c}) \cup {d})
  BY FS_RemoveElement, FS_AddElement DEF PadForms
<1> QED
  BY <1>2, <1>4, <1>5, <1>6, FlightFrame DEF OnRumbleLookup, PadForms, FlightInv

LEMMA PostKeeps ==
  ASSUME PadCore, NEW c \in inCallback, OnRumblePost(c)
  PROVE  PadCore'
<1> USE DEF PadCore
<1>1. c \in Callbacks /\ Right(c) /\ messages \in Seq(Callbacks)
  BY DEF PadForms, FlightInv
<1>2. inCallback' = inCallback \ {c} /\ messages' = Append(messages, c)
  BY DEF OnRumblePost
<1>3. IsFiniteSet(inCallback')
  BY <1>2, FS_RemoveElement DEF PadForms
<1>4. messages' \in Seq(Callbacks) /\ \A i \in 1 .. Len(messages') : Right(messages'[i])
  <2>1. ASSUME NEW i \in 1 .. Len(messages') PROVE messages'[i] = c \/ (i \in 1 .. Len(messages) /\ messages'[i] = messages[i])
    BY <1>1, <1>2, Appended
  <2>2. messages' \in Seq(Callbacks)
    BY <1>1, <1>2, Appended
  <2> QED
    BY <1>1, <2>1, <2>2, Zenon DEF FlightInv
<1>5. UNCHANGED <<controllers, targets, rumble_contexts, registryVars, notify, padToDart, pads, heard>>
  BY DEF OnRumblePost
<1>6. inCallback' \subseteq Callbacks /\ \A d \in inCallback' : Right(d)
  BY <1>2 DEF PadForms, FlightInv
<1> QED
  BY <1>3, <1>4, <1>5, <1>6, FlightFrame

\* The window thread finds the cookie's entry: its gamepad is the one the rumble came from.
LEMMA ResolveKeeps ==
  ASSUME PadCore, ResolveRumble
  PROVE  PadCore'
<1> USE DEF PadCore
<1> DEFINE h == Head(messages)
<1>1. messages \in Seq(Callbacks) /\ messages # <<>> /\ messages' = Tail(messages)
  BY DEF PadForms, ResolveRumble
<1>2. /\ messages' \in Seq(Callbacks) /\ h = messages[1] /\ 1 \in 1 .. Len(messages) /\ h \in Callbacks
      /\ \A i \in 1 .. Len(messages') : i + 1 \in 1 .. Len(messages) /\ messages'[i] = messages[i + 1]
  BY <1>1, Shifted
<1>3. Right(h) /\ \A i \in 1 .. Len(messages') : Right(messages'[i])
  BY <1>2, Zenon DEF FlightInv
<1>4. /\ UNCHANGED <<controllers, targets, rumble_contexts, registryVars, notify, pads, heard>>
      /\ inCallback' = inCallback
  BY DEF ResolveRumble
<1>5. CASE padToDart' = padToDart
  BY <1>2, <1>3, <1>4, <1>5, FlightFrame DEF PadForms, FlightInv
<1>6. ASSUME NEW e \in Lookup(h.cookie),
             padToDart' = Append(padToDart, [type |-> "rumble", id |-> e.id, token |-> e.token, target |-> h.target])
      PROVE  PadCore'
  <2> DEFINE new == [type |-> "rumble", id |-> e.id, token |-> e.token, target |-> h.target]
  <2>1. e \in entries /\ e.cookie = h.cookie
    BY DEF Lookup
  <2>2. e.id \in Slots /\ e.token \in 1 .. Len(pads) /\ pads[e.token].target = controllers[e.id]
    BY <2>1, DataFacts DEF RegistryInv, PadForms
  <2>3. controllers[e.id] = h.target
    BY <1>3, <2>1 DEF Right
  <2>4. e.token \in Nat /\ h.target \in Targets
    BY <1>2, <2>2, HandleFacts DEF Callbacks
  <2>5. new \in Events /\ new.type = "rumble" /\ new.token = e.token /\ new.target = h.target
    BY <2>2, <2>4 DEF Events
  <2> HIDE DEF new, h
  <2>6. padToDart' = Append(padToDart, new) /\ padToDart \in Seq(Events) /\ Len(padToDart) \in Nat
    BY <1>6 DEF new, PadForms
  <2>7. /\ padToDart' \in Seq(Events)
        /\ \A i \in 1 .. Len(padToDart') :
             \/ i \in 1 .. Len(padToDart) /\ padToDart'[i] = padToDart[i]
             \/ padToDart'[i] = new /\ i = Len(padToDart) + 1
    BY <2>5, <2>6, Appended
  <2>8. UNCHANGED <<entries, next_>>
    BY <1>4 DEF registryVars
  <2>9. PadData' /\ RegistryInv'
    BY <1>4, <2>8 DEF PadData, RegistryInv
  <2>10. PadForms'
    BY <1>2, <1>4, <2>7, <2>8 DEF PadForms
  <2>11. OwnersInv'
    <3>1. HandlesHavePads'
      BY <1>4 DEF OwnersInv, HandlesHavePads, Tokens
    <3>2. \A i \in 1 .. Len(padToDart') : padToDart'[i].type # "rumble" =>
            i \in 1 .. Len(padToDart) /\ padToDart'[i] = padToDart[i]
      BY <2>5, <2>7
    <3> QED
      BY <1>4, <3>1, <3>2, SMTT(30) DEF OwnersInv
  <2>12. FlightInv'
    <3>1. \A i \in 1 .. Len(padToDart') : padToDart'[i].type = "rumble" =>
            /\ padToDart'[i].token \in 1 .. Len(pads)
            /\ pads[padToDart'[i].token].target = padToDart'[i].target
      BY <2>2, <2>3, <2>5, <2>7 DEF FlightInv
    <3> QED
      BY <1>3, <1>4, <2>8, <3>1 DEF FlightInv, Right, RumbleOfOwnPad
  <2> QED
    BY <2>9, <2>10, <2>11, <2>12
<1> QED
  BY <1>5, <1>6, Zenon DEF ResolveRumble

\* What taking an event off the channel leaves of what the others say.
LEMMA DartFrame ==
  ASSUME PadCore, PadDart
  PROVE  /\ UNCHANGED <<controllers, targets, rumble_contexts, entries, next_, notify, inCallback, messages>>
         /\ padToDart' \in Seq(Events) /\ Head(padToDart) = padToDart[1] /\ 1 \in 1 .. Len(padToDart)
         /\ Head(padToDart) \in Events
         /\ \A i \in 1 .. Len(padToDart') :
              i + 1 \in 1 .. Len(padToDart) /\ padToDart'[i] = padToDart[i + 1] /\ i + 1 # 1
<1>1. padToDart \in Seq(Events) /\ padToDart # <<>> /\ padToDart' = Tail(padToDart)
  BY DEF PadCore, PadForms, PadDart
<1>2. /\ padToDart' \in Seq(Events) /\ Head(padToDart) = padToDart[1] /\ 1 \in 1 .. Len(padToDart)
      /\ Head(padToDart) \in Events
      /\ \A i \in 1 .. Len(padToDart') : i + 1 \in 1 .. Len(padToDart) /\ padToDart'[i] = padToDart[i + 1]
  BY <1>1, Shifted
<1>3. \A i \in 1 .. Len(padToDart') : i + 1 # 1
  OBVIOUS
<1> QED
  BY <1>2, <1>3 DEF PadDart, registryVars

\* No gamepad is announced twice, and no handle is kept twice, by what is left.
LEMMA DartOnce ==
  ASSUME PadCore, PadDart
  PROVE  \A i, j \in 1 .. Len(padToDart') :
           /\ /\ padToDart'[i].type = "created" /\ padToDart'[j].type = "created"
              /\ padToDart'[j].target = padToDart'[i].target
              => i = j
           /\ /\ padToDart'[i].type = "kept" /\ padToDart'[j].type = "kept"
              /\ padToDart'[j].token = padToDart'[i].token
              => i = j
<1>1. \A i, j \in 1 .. Len(padToDart) :
        /\ /\ padToDart[i].type = "created" /\ padToDart[j].type = "created"
           /\ padToDart[j].target = padToDart[i].target
           => i = j
        /\ /\ padToDart[i].type = "kept" /\ padToDart[j].type = "kept"
           /\ padToDart[j].token = padToDart[i].token
           => i = j
  BY Zenon DEF PadCore, OwnersInv
<1>2. \A i \in 1 .. Len(padToDart') :
        i + 1 \in 1 .. Len(padToDart) /\ padToDart'[i] = padToDart[i + 1]
  BY DartFrame
<1>3. SUFFICES ASSUME NEW i \in 1 .. Len(padToDart'), NEW j \in 1 .. Len(padToDart'), i # j
               PROVE  /\ ~(/\ padToDart'[i].type = "created" /\ padToDart'[j].type = "created"
                           /\ padToDart'[j].target = padToDart'[i].target)
                      /\ ~(/\ padToDart'[i].type = "kept" /\ padToDart'[j].type = "kept"
                           /\ padToDart'[j].token = padToDart'[i].token)
  BY Zenon
<1>4. i + 1 # j + 1
  BY <1>3
<1> QED
  BY <1>1, <1>2, <1>4, Zenon

\* Dart makes the handle of a gamepad that has none.
LEMMA DartCreatedKeeps ==
  ASSUME PadCore, PadDart, Head(padToDart).type = "created", UNCHANGED heard,
         pads' = Append(pads, [id |-> Head(padToDart).id, target |-> Head(padToDart).target, disposed |-> FALSE])
  PROVE  PadCore'
<1> USE DEF PadCore
<1> DEFINE m   == padToDart[1]
           new == [id |-> m.id, target |-> m.target, disposed |-> FALSE]
<1>1. /\ UNCHANGED <<controllers, targets, rumble_contexts, entries, next_, notify, inCallback, messages>>
      /\ padToDart' \in Seq(Events) /\ Head(padToDart) = m /\ 1 \in 1 .. Len(padToDart) /\ m \in Events
      /\ \A i \in 1 .. Len(padToDart') :
           i + 1 \in 1 .. Len(padToDart) /\ padToDart'[i] = padToDart[i + 1] /\ i + 1 # 1
  BY DartFrame
<1>2. /\ m.id \in Slots /\ m.target \in Targets /\ m.target <= targets /\ controllers[m.id] = m.target
      /\ \A t \in 1 .. Len(pads) : pads[t].target # m.target
      /\ \A j \in 1 .. Len(padToDart) : padToDart[j].type = "created" /\ padToDart[j].target = m.target => j = 1
  BY <1>1, EventFacts DEF OwnersInv
<1>3. new \in Pads /\ new.id = m.id /\ new.target = m.target /\ new.disposed = FALSE
  BY <1>2 DEF Pads
<1>4. pads' = Append(pads, new) /\ pads \in Seq(Pads) /\ Len(pads) \in Nat
  <2>1. pads' = Append(pads, new)
    BY <1>1, Zenon
  <2>2. pads \in Seq(Pads) /\ Len(pads) \in Nat
    BY DEF PadForms
  <2> QED BY <2>1, <2>2
<1> HIDE DEF new, m
<1>5. /\ pads' \in Seq(Pads) /\ Len(pads') = Len(pads) + 1 /\ DOMAIN pads' = 1 .. Len(pads')
      /\ pads'[Len(pads) + 1] = new
      /\ \A t \in 1 .. Len(pads) : pads'[t] = pads[t] /\ t \in 1 .. Len(pads')
      /\ \A t \in 1 .. Len(pads') : t \in 1 .. Len(pads) \/ t = Len(pads) + 1
  BY <1>3, <1>4, Appended
<1>6. PadData'
  BY <1>1 DEF PadData
<1>7. PadForms'
  BY <1>1, <1>5 DEF PadForms
<1>8. RegistryInv'
  BY <1>1, <1>5 DEF RegistryInv
<1>9. FlightInv'
  <2>1. \A i \in 1 .. Len(padToDart') : padToDart'[i].type = "rumble" =>
          /\ padToDart'[i].token \in 1 .. Len(pads')
          /\ pads'[padToDart'[i].token].target = padToDart'[i].target
    BY <1>1, <1>5, SMTT(30) DEF FlightInv
  <2>2. RumbleOfOwnPad'
    BY <1>5 DEF FlightInv, RumbleOfOwnPad, PadForms
  <2> QED
    BY <1>1, <2>1, <2>2 DEF FlightInv, Right
<1>10. OwnersInv'
  <2>1. HandlesHavePads'
    BY <1>1, <1>2, <1>3, <1>4, <1>5 DEF OwnersInv, HandlesHavePads, Tokens
  <2>2. /\ \A u, v \in 1 .. Len(pads') : pads'[u].target = pads'[v].target => u = v
        /\ \A u \in 1 .. Len(pads') : pads'[u].target <= targets
    BY <1>2, <1>3, <1>5 DEF OwnersInv
  <2>3. ASSUME NEW i \in 1 .. Len(padToDart'), padToDart'[i].type = "created"
        PROVE  /\ padToDart'[i].target <= targets
               /\ controllers[padToDart'[i].id] = padToDart'[i].target
               /\ \A u \in 1 .. Len(pads') : pads'[u].target # padToDart'[i].target
               /\ \A j \in 1 .. Len(padToDart') :
                    padToDart'[j].type = "created" /\ padToDart'[j].target = padToDart'[i].target => i = j
    <3>1. i \in Nat /\ i + 1 \in 1 .. Len(padToDart) /\ padToDart'[i] = padToDart[i + 1] /\ i + 1 # 1
      BY <1>1
    <3>2. padToDart'[i].target # m.target
      BY <1>2, <2>3, <3>1
    <3>3. \A j \in 1 .. Len(padToDart') :
            padToDart'[j].type = "created" /\ padToDart'[j].target = padToDart'[i].target => i = j
      BY <2>3, DartOnce
    <3> QED
      BY <1>3, <1>5, <2>3, <3>1, <3>2, <3>3 DEF OwnersInv
  <2>4. ASSUME NEW i \in 1 .. Len(padToDart'), padToDart'[i].type = "kept"
        PROVE  LET u == padToDart'[i].token IN
               /\ u \in 1 .. Len(pads') /\ pads'[u].disposed
               /\ controllers[pads'[u].id] = pads'[u].target
               /\ \A j \in 1 .. Len(padToDart') :
                    padToDart'[j].type = "kept" /\ padToDart'[j].token = u => i = j
    <3>1. i \in Nat /\ i + 1 \in 1 .. Len(padToDart) /\ padToDart'[i] = padToDart[i + 1]
      BY <1>1
    <3>2. \A j \in 1 .. Len(padToDart') :
            padToDart'[j].type = "kept" /\ padToDart'[j].token = padToDart'[i].token => i = j
      BY <2>4, DartOnce
    <3> QED
      BY <1>5, <2>4, <3>1, <3>2 DEF OwnersInv
  <2> QED
    BY <1>1, <2>1, <2>2, <2>3, <2>4 DEF OwnersInv
<1> QED
  BY <1>6, <1>7, <1>8, <1>9, <1>10

\* A handle whose dispose failed lives on, and finds its gamepad where it was.
LEMMA DartKeptKeeps ==
  ASSUME PadCore, PadDart, Head(padToDart).type = "kept", UNCHANGED heard,
         pads' = [pads EXCEPT ![Head(padToDart).token].disposed = FALSE]
  PROVE  PadCore'
<1> USE DEF PadCore
<1> DEFINE m == padToDart[1]
           t == m.token
<1>1. /\ UNCHANGED <<controllers, targets, rumble_contexts, entries, next_, notify, inCallback, messages>>
      /\ padToDart' \in Seq(Events) /\ Head(padToDart) = m /\ 1 \in 1 .. Len(padToDart) /\ m \in Events
      /\ \A i \in 1 .. Len(padToDart') :
           i + 1 \in 1 .. Len(padToDart) /\ padToDart'[i] = padToDart[i + 1] /\ i + 1 # 1
  BY DartFrame
<1>2. /\ t \in 1 .. Len(pads) /\ controllers[pads[t].id] = pads[t].target
      /\ \A j \in 1 .. Len(padToDart) : padToDart[j].type = "kept" /\ padToDart[j].token = t => j = 1
  BY <1>1 DEF OwnersInv
<1>3. pads' = [pads EXCEPT ![t].disposed = FALSE]
  BY <1>1
<1> HIDE DEF m, t
<1>4. /\ SamePads /\ pads' \in Seq(Pads) /\ DOMAIN pads' = 1 .. Len(pads)
      /\ \A u \in 1 .. Len(pads) : u # t => pads'[u] = pads[u]
  <2>1. \A q \in Pads : /\ [q EXCEPT !.disposed = FALSE] \in Pads
                        /\ [q EXCEPT !.disposed = FALSE].id = q.id
                        /\ [q EXCEPT !.disposed = FALSE].target = q.target
    BY DEF Pads
  <2>2. pads' = [pads EXCEPT ![t] = [pads[t] EXCEPT !.disposed = FALSE]] /\ pads[t] \in Pads /\ pads \in Seq(Pads)
    BY <1>2, <1>3, HandleFacts DEF PadForms
  <2>3. ASSUME NEW x \in Pads, pads' = [pads EXCEPT ![t] = x]
        PROVE  /\ pads' \in Seq(Pads) /\ Len(pads') = Len(pads)
               /\ \A u \in 1 .. Len(pads) : pads'[u] = IF u = t THEN x ELSE pads[u]
    <3>1. /\ [pads EXCEPT ![t] = x] \in Seq(Pads)
          /\ Len([pads EXCEPT ![t] = x]) = Len(pads)
          /\ \A j \in 1 .. Len(pads) : [pads EXCEPT ![t] = x][j] = IF j = t THEN x ELSE pads[j]
      BY <1>2, <2>2, ExceptSeq
    <3> QED
      BY <2>3, <3>1, Zenon
  <2>4. /\ pads' \in Seq(Pads) /\ Len(pads') = Len(pads)
        /\ \A u \in 1 .. Len(pads) : pads'[u] = IF u = t THEN [pads[t] EXCEPT !.disposed = FALSE] ELSE pads[u]
    BY <2>1, <2>2, <2>3
  <2> QED
    BY <2>1, <2>2, <2>4 DEF SamePads
<1>5. PadData'
  BY <1>1 DEF PadData
<1>6. PadForms'
  BY <1>1, <1>4 DEF PadForms, SamePads
<1>7. RegistryInv'
  BY <1>1, <1>4 DEF RegistryInv, SamePads
<1>8. FlightInv'
  <2>1. \A i \in 1 .. Len(padToDart') : padToDart'[i].type = "rumble" =>
          /\ padToDart'[i].token \in 1 .. Len(pads')
          /\ pads'[padToDart'[i].token].target = padToDart'[i].target
    BY <1>1, <1>4 DEF FlightInv, SamePads
  <2>2. RumbleOfOwnPad'
    BY <1>4 DEF FlightInv, RumbleOfOwnPad, PadForms, SamePads
  <2> QED
    BY <1>1, <2>1, <2>2 DEF FlightInv, Right
<1>9. OwnersInv'
  <2>1. HandlesHavePads'
    BY <1>1, <1>2, <1>4 DEF OwnersInv, HandlesHavePads, Tokens, SamePads
  <2>2. /\ \A u, v \in 1 .. Len(pads') : pads'[u].target = pads'[v].target => u = v
        /\ \A u \in 1 .. Len(pads') : pads'[u].target <= targets
    BY <1>4 DEF OwnersInv, SamePads
  <2>3. ASSUME NEW i \in 1 .. Len(padToDart'), padToDart'[i].type = "created"
        PROVE  /\ padToDart'[i].target <= targets
               /\ controllers[padToDart'[i].id] = padToDart'[i].target
               /\ \A u \in 1 .. Len(pads') : pads'[u].target # padToDart'[i].target
               /\ \A j \in 1 .. Len(padToDart') :
                    padToDart'[j].type = "created" /\ padToDart'[j].target = padToDart'[i].target => i = j
    <3>1. i \in Nat /\ i + 1 \in 1 .. Len(padToDart) /\ padToDart'[i] = padToDart[i + 1]
      BY <1>1
    <3>2. \A j \in 1 .. Len(padToDart') :
            padToDart'[j].type = "created" /\ padToDart'[j].target = padToDart'[i].target => i = j
      BY <2>3, DartOnce
    <3> QED
      BY <1>4, <2>3, <3>1, <3>2 DEF OwnersInv, SamePads
  <2>4. ASSUME NEW i \in 1 .. Len(padToDart'), padToDart'[i].type = "kept"
        PROVE  LET u == padToDart'[i].token IN
               /\ u \in 1 .. Len(pads') /\ pads'[u].disposed
               /\ controllers[pads'[u].id] = pads'[u].target
               /\ \A j \in 1 .. Len(padToDart') :
                    padToDart'[j].type = "kept" /\ padToDart'[j].token = u => i = j
    <3>1. i \in Nat /\ i + 1 \in 1 .. Len(padToDart) /\ padToDart'[i] = padToDart[i + 1] /\ i + 1 # 1
      BY <1>1
    <3>2. \A j \in 1 .. Len(padToDart') :
            padToDart'[j].type = "kept" /\ padToDart'[j].token = padToDart'[i].token => i = j
      BY <2>4, DartOnce
    <3>3. padToDart'[i].token # t
      BY <1>2, <2>4, <3>1
    <3>4. LET u == padToDart[i + 1].token IN
          u \in 1 .. Len(pads) /\ pads[u].disposed /\ controllers[pads[u].id] = pads[u].target
      BY <2>4, <3>1 DEF OwnersInv
    <3> QED
      BY <1>4, <3>1, <3>2, <3>3, <3>4, ZenonT(30) DEF SamePads
  <2> QED
    BY <1>1, <2>1, <2>2, <2>3, <2>4 DEF OwnersInv
<1> QED
  BY <1>5, <1>6, <1>7, <1>8, <1>9

\* A rumble is given to the handle that subscribed, if it still lives.
LEMMA DartRumbleKeeps ==
  ASSUME PadCore, PadDart, Head(padToDart).type = "rumble", UNCHANGED pads,
         heard' = heard \cup {<<t, Head(padToDart).target>> : t \in
                    {u \in Tokens : /\ ~pads[u].disposed /\ pads[u].id = Head(padToDart).id
                                    /\ u = Head(padToDart).token}}
  PROVE  PadCore'
<1> USE DEF PadCore
<1> DEFINE m == padToDart[1]
<1>1. /\ UNCHANGED <<controllers, targets, rumble_contexts, entries, next_, notify, inCallback, messages>>
      /\ padToDart' \in Seq(Events) /\ Head(padToDart) = m /\ 1 \in 1 .. Len(padToDart) /\ m \in Events
      /\ \A i \in 1 .. Len(padToDart') :
           i + 1 \in 1 .. Len(padToDart) /\ padToDart'[i] = padToDart[i + 1] /\ i + 1 # 1
  BY DartFrame
<1>2. m.token \in 1 .. Len(pads) /\ pads[m.token].target = m.target
  BY <1>1 DEF FlightInv
<1>3. \A h \in heard' : h \in heard \/ h = <<m.token, m.target>>
  BY <1>1
<1> HIDE DEF m
<1>4. PadForms'
  BY <1>1, <1>2, <1>3 DEF PadForms
<1>5. PadData' /\ RegistryInv'
  BY <1>1 DEF PadData, RegistryInv
<1>6. FlightInv'
  <2>1. RumbleOfOwnPad'
    BY <1>2, <1>3 DEF FlightInv, RumbleOfOwnPad
  <2>2. \A i \in 1 .. Len(padToDart') : padToDart'[i].type = "rumble" =>
          /\ padToDart'[i].token \in 1 .. Len(pads')
          /\ pads'[padToDart'[i].token].target = padToDart'[i].target
    BY <1>1 DEF FlightInv
  <2> QED
    BY <1>1, <2>1, <2>2 DEF FlightInv, Right
<1>7. OwnersInv'
  <2>1. HandlesHavePads'
    BY <1>1 DEF OwnersInv, HandlesHavePads, Tokens
  <2>2. ASSUME NEW i \in 1 .. Len(padToDart'), padToDart'[i].type = "created"
        PROVE  /\ padToDart'[i].target <= targets
               /\ controllers[padToDart'[i].id] = padToDart'[i].target
               /\ \A u \in 1 .. Len(pads) : pads[u].target # padToDart'[i].target
               /\ \A j \in 1 .. Len(padToDart') :
                    padToDart'[j].type = "created" /\ padToDart'[j].target = padToDart'[i].target => i = j
    BY <1>1, <2>2, DartOnce DEF OwnersInv
  <2>3. ASSUME NEW i \in 1 .. Len(padToDart'), padToDart'[i].type = "kept"
        PROVE  LET u == padToDart'[i].token IN
               /\ u \in 1 .. Len(pads) /\ pads[u].disposed
               /\ controllers[pads[u].id] = pads[u].target
               /\ \A j \in 1 .. Len(padToDart') :
                    padToDart'[j].type = "kept" /\ padToDart'[j].token = u => i = j
    BY <1>1, <2>3, DartOnce DEF OwnersInv
  <2> QED
    BY <1>1, <2>1, <2>2, <2>3 DEF OwnersInv
<1> QED
  BY <1>4, <1>5, <1>6, <1>7

\* The destructor leaves no entry and no notification.
LEMMA StopKeeps ==
  ASSUME PadCore, StopRumbleNotifications
  PROVE  PadCore' /\ entries' = {} /\ \A t \in Targets : notify'[t] = None
<1> USE DEF PadCore
<1> DEFINE S == {s \in Slots : controllers[s] # None}
<1>1. /\ UNCHANGED <<controllers, targets, inCallback, padToDart, pads, heard>>
      /\ messages' = <<>> /\ next_ \in Nat /\ UnregisterRumble(S)
  BY DEF StopRumbleNotifications, PadForms
<1>2. SamePads
  BY <1>1 DEF SamePads
<1>3. S \in SUBSET Slots /\ \A u \in Slots : u \in S <=> controllers[u] # None
  OBVIOUS
<1> HIDE DEF S
<1>4. /\ PadData' /\ RegistryInv' /\ next_' = next_
      /\ entries' = {e \in entries : e.id \notin S}
      /\ \A c : Right(c) => Right(c)'
  <2>1. controllers' \in [Slots -> 0 .. targets]
    BY <1>1 DEF PadData
  <2> QED
    BY <1>1, <1>2, <1>3, <2>1, UnregisterKeeps
<1>5. entries' = {}
  BY <1>1, <1>3, <1>4, DataFacts DEF RegistryInv
<1>6. \A t \in Targets : notify'[t] = None
  BY <1>4, <1>5 DEF RegistryInv
<1>7. PadForms'
  BY <1>1, <1>4 DEF PadForms
<1>8. OwnersInv'
  BY <1>1 DEF OwnersInv, HandlesHavePads, Tokens
<1>9. FlightInv'
  <2>1. \A c \in inCallback : Right(c)'
    BY <1>4, Zenon DEF FlightInv
  <2>2. RumbleOfOwnPad'
    BY <1>1 DEF FlightInv, RumbleOfOwnPad
  <2>3. 1 .. Len(messages') = {}
    BY <1>1
  <2> QED
    BY <1>1, <2>1, <2>2, <2>3 DEF FlightInv
<1> QED
  BY <1>4, <1>5, <1>6, <1>7, <1>8, <1>9

LEMMA CoreStart ==
  ASSUME Init
  PROVE  PadCore /\ PadFlags /\ GoneInv /\ Len(messages) + Cardinality(inCallback) <= MaxCallbacks
<1> USE DEF Init, PadInit
<1>1. PadData
  BY GamepadAssumption DEF PadData, NoContext, None
<1>2. /\ pads \in Seq(Pads) /\ padToDart \in Seq(Events) /\ messages \in Seq(Callbacks)
      /\ Len(pads) = 0 /\ Len(padToDart) = 0 /\ Len(messages) = 0 /\ DOMAIN pads = {}
  OBVIOUS
<1>3. IsFiniteSet(inCallback) /\ Cardinality(inCallback) = 0
  BY FS_EmptySet
<1>4. PadForms
  BY <1>2, <1>3 DEF PadForms
<1>5. OwnersInv
  BY <1>2 DEF OwnersInv, HandlesHavePads, Tokens, None
<1>6. RegistryInv
  <2>1. \A s \in Slots : rumble_contexts[s].cookie = None
    BY DEF NoContext
  <2> QED
    BY <2>1 DEF RegistryInv
<1>7. FlightInv
  BY <1>2 DEF FlightInv, RumbleOfOwnPad
<1>8. PadFlags /\ GoneInv
  BY Zenon DEF PadFlags, GoneInv
<1>9. Len(messages) + Cardinality(inCallback) <= MaxCallbacks
  BY <1>2, <1>3, GamepadAssumption
<1> QED
  BY <1>1, <1>4, <1>5, <1>6, <1>7, <1>8, <1>9 DEF PadCore

\* Every step keeps the gamepads', the registry's and the rumbles' invariants.
LEMMA CoreStep ==
  ASSUME PadCore, [Next]_vars
  PROVE  PadCore'
<1>1. CASE PadCalls
  BY <1>1, CreateKeeps, SubscribeRumbleKeeps, RemoveKeeps, Zenon DEF PadCalls
<1>2. CASE PadDart
  BY <1>2, DartCreatedKeeps, DartKeptKeeps, DartRumbleKeeps, Zenon DEF PadDart
<1>3. CASE PadEvents
  BY <1>2, <1>3, RumbleBeginsKeeps, LookupKeeps, PostKeeps, ResolveKeeps, Zenon DEF PadEvents
<1>4. CASE StopRumbleNotifications
  BY <1>4, StopKeeps
<1>5. CASE UNCHANGED padVars
  <2>1. UNCHANGED coreVars
    BY <1>5 DEF padVars, coreVars, registryVars
  <2> QED
    BY <2>1, CoreFrame
<1> QED
  BY <1>1, <1>3, <1>4, <1>5, PadSteps, Zenon

LEMMA FlagsStep ==
  ASSUME PadFlags, [Next]_vars
  PROVE  PadFlags'
<1>1. CASE PadCalls
  BY <1>1, Zenon DEF PadCalls, CreateGameController, SubscribeRumble, RemoveGameController, PadFlags
<1>2. CASE PadEvents
  BY <1>2, Zenon DEF PadEvents, RumbleBegins, OnRumbleLookup, OnRumblePost, ResolveRumble, PadDart, PadFlags
<1>3. CASE StopRumbleNotifications
  BY <1>3, Zenon DEF StopRumbleNotifications, PadFlags
<1>4. CASE UNCHANGED padVars
  BY <1>4, Zenon DEF padVars, PadFlags
<1> QED
  BY <1>1, <1>2, <1>3, <1>4, PadSteps, Zenon

\* Once the plugin is gone nothing registers again.
LEMMA GoneStep ==
  ASSUME PadCore, GoneInv, [Next]_vars
  PROVE  GoneInv'
<1>1. CASE alive' = alive /\ alive
  BY <1>1, Zenon DEF GoneInv
<1>2. CASE alive' = alive /\ PadEvents
  <2>1. UNCHANGED <<rumble_proc, entries, notify>>
    BY <1>2, Zenon DEF PadEvents, RumbleBegins, OnRumbleLookup, OnRumblePost, ResolveRumble, PadDart, registryVars
  <2> QED
    BY <1>2, <2>1 DEF GoneInv
<1>3. CASE alive' = FALSE /\ StopRumbleNotifications
  <2>1. ~rumble_proc'
    BY <1>3, Zenon DEF StopRumbleNotifications
  <2> QED
    BY <1>3, <2>1, StopKeeps, Zenon DEF GoneInv
<1>4. CASE alive' = alive /\ UNCHANGED padVars
  BY <1>4 DEF padVars, registryVars, GoneInv
<1> QED
  BY <1>1, <1>2, <1>3, <1>4, PadSteps, Zenon

\* Adding an element adds at most one.
LEMMA AddedOne ==
  ASSUME NEW S, IsFiniteSet(S), NEW x
  PROVE  Cardinality(S \cup {x}) \in Nat /\ Cardinality(S \cup {x}) <= Cardinality(S) + 1
<1>1. Cardinality(S) \in Nat
  BY FS_CardinalityType
<1>2. CASE x \in S
  <2>1. S \cup {x} = S
    BY <1>2
  <2> QED
    BY <1>1, <2>1
<1>3. CASE x \notin S
  BY <1>1, <1>3, FS_AddElement
<1> QED
  BY <1>2, <1>3

\* Callbacks and messages under way stay below their bound.
LEMMA UnderWayStep ==
  ASSUME PadForms, Len(messages) + Cardinality(inCallback) <= MaxCallbacks, [Next]_vars
  PROVE  (Len(messages) + Cardinality(inCallback) <= MaxCallbacks)'
<1>1. /\ Len(messages) \in Nat /\ Len(padToDart) \in Nat /\ IsFiniteSet(inCallback)
      /\ Cardinality(inCallback) \in Nat /\ MaxCallbacks \in Nat /\ messages \in Seq(Callbacks)
  BY FS_CardinalityType, GamepadAssumption DEF PadForms
<1>2. ASSUME NEW c \in inCallback
      PROVE  /\ IsFiniteSet(inCallback \ {c}) /\ Cardinality(inCallback \ {c}) = Cardinality(inCallback) - 1
  BY <1>1, FS_RemoveElement
<1>3. ASSUME NEW t \in Targets, RumbleBegins(t) PROVE (Len(messages) + Cardinality(inCallback) <= MaxCallbacks)'
  <2> DEFINE x == [cookie |-> notify[t], target |-> t, found |-> FALSE]
  <2> HIDE DEF x
  <2>1. Cardinality(inCallback \cup {x}) <= Cardinality(inCallback) + 1 /\ Cardinality(inCallback \cup {x}) \in Nat
    BY <1>1, AddedOne
  <2>2. /\ inCallback' = inCallback \cup {x} /\ messages' = messages
        /\ Cardinality(inCallback) + Len(messages) + Len(padToDart) < MaxCallbacks
    BY <1>3 DEF RumbleBegins, x
  <2> QED
    BY <1>1, <2>1, <2>2
<1>4. ASSUME NEW c \in inCallback, OnRumbleLookup(c) PROVE (Len(messages) + Cardinality(inCallback) <= MaxCallbacks)'
  <2> DEFINE d == [c EXCEPT !.found = TRUE]
  <2> HIDE DEF d
  <2>1. Cardinality((inCallback \ {c}) \cup {d}) \in Nat /\ Cardinality((inCallback \ {c}) \cup {d}) <= Cardinality(inCallback \ {c}) + 1
    BY <1>2, AddedOne
  <2>2. messages' = messages /\ (inCallback' = inCallback \ {c} \/ inCallback' = (inCallback \ {c}) \cup {d})
    BY <1>4 DEF OnRumbleLookup, d
  <2>3. Cardinality(inCallback \ {c}) = Cardinality(inCallback) - 1
    BY <1>2
  <2>4. CASE inCallback' = inCallback \ {c}
    <3>1. Cardinality(inCallback') = Cardinality(inCallback) - 1
      BY <2>3, <2>4
    <3> QED
      BY <1>1, <2>2, <3>1
  <2>5. CASE inCallback' = (inCallback \ {c}) \cup {d}
    <3>1. Cardinality(inCallback') \in Nat /\ Cardinality(inCallback') <= (Cardinality(inCallback) - 1) + 1
      BY <2>1, <2>3, <2>5
    <3> QED
      BY <1>1, <2>2, <3>1
  <2> QED
    BY <2>2, <2>4, <2>5
<1>5. ASSUME NEW c \in inCallback, OnRumblePost(c) PROVE (Len(messages) + Cardinality(inCallback) <= MaxCallbacks)'
  <2>1. inCallback' = inCallback \ {c} /\ messages' = Append(messages, c) /\ c \in Callbacks
    BY <1>5 DEF OnRumblePost, PadForms
  <2>2. Len(messages') = Len(messages) + 1
    BY <1>1, <2>1, Appended
  <2>3. Cardinality(inCallback') = Cardinality(inCallback) - 1
    BY <1>2, <2>1
  <2> QED
    BY <1>1, <2>2, <2>3
<1>6. CASE ResolveRumble
  <2>1. inCallback' = inCallback /\ Len(messages') = Len(messages) - 1
    BY <1>1, <1>6, Shifted DEF ResolveRumble
  <2> QED
    BY <1>1, <2>1
<1>7. CASE StopRumbleNotifications
  <2>1. inCallback' = inCallback /\ Len(messages') = 0
    BY <1>7 DEF StopRumbleNotifications
  <2> QED
    BY <1>1, <2>1
<1>8. CASE UNCHANGED <<inCallback, messages>>
  BY <1>8
<1>9. CASE PadCalls \/ PadDart \/ UNCHANGED padVars
  <2>1. UNCHANGED <<inCallback, messages>>
    BY <1>9, Zenon DEF PadCalls, CreateGameController, SubscribeRumble, RemoveGameController, PadDart, padVars
  <2> QED
    BY <1>8, <2>1
<1> QED
  BY <1>3, <1>4, <1>5, <1>6, <1>7, <1>9, PadSteps, Zenon DEF PadEvents

----------------------------------------------------------------------------
(* The theorems.                                                           *)

PluginIInv == TypeOK /\ PadInv /\ LockInv /\ KeyInv /\ SettingsInv

\* The gamepads' part of the invariant, regrouped.
LEMMA PadParts ==
  PadTypeOK /\ PadInv <=>
    PadCore /\ PadFlags /\ GoneInv /\ Len(messages) + Cardinality(inCallback) <= MaxCallbacks
  BY Zenon DEF PadTypeOK, PadInv, PadCore, PadData, PadFlags

LEMMA PluginStart ==
  ASSUME Init
  PROVE  PluginIInv
<1>1. alive \in BOOLEAN
  BY Zenon DEF Init
<1> QED
  BY <1>1, CoreStart, PadParts, CaptureStart, SettingsStart, Zenon DEF PluginIInv, TypeOK

LEMMA PluginStep ==
  ASSUME PluginIInv, [Next]_vars
  PROVE  PluginIInv'
<1>1. /\ PadCore /\ PadFlags /\ GoneInv /\ Len(messages) + Cardinality(inCallback) <= MaxCallbacks
      /\ CaptureTypeOK /\ LockInv /\ KeyInv /\ SettingsTypeOK /\ SettingsInv /\ alive \in BOOLEAN
  BY PadParts, Zenon DEF PluginIInv, TypeOK
<1>2. (PadTypeOK /\ PadInv)'
  <2>1. PadCore' /\ PadFlags' /\ GoneInv'
    BY <1>1, CoreStep, FlagsStep, GoneStep, Zenon
  <2>2. (Len(messages) + Cardinality(inCallback) <= MaxCallbacks)'
    BY <1>1, UnderWayStep, Zenon DEF PadCore
  <2> QED
    BY <2>1, <2>2, PadParts, PTL
<1>3. CaptureTypeOK' /\ LockInv' /\ KeyInv'
  <2>1. /\ KeyboardSets /\ KeyboardFlags /\ LockFlags
        /\ showCount \in -1 .. 0 /\ Len(moves) <= MaxMoves
    BY <1>1, CaptureTypes, Zenon
  <2>2. /\ KeyboardSets' /\ KeyboardFlags' /\ LockFlags'
        /\ (showCount \in -1 .. 0)' /\ (Len(moves) <= MaxMoves)'
    BY <1>1, <2>1, KeyTypeStep, LockStep, Zenon
  <2>3. CaptureTypeOK'
    BY <2>2, CaptureTypes, PTL
  <2>4. LockInv' /\ KeyInv'
    BY <1>1, <2>1, KeyStep, LockStep, Zenon
  <2> QED
    BY <2>3, <2>4
<1>4. SettingsTypeOK' /\ SettingsInv'
  BY <1>1, SettingsStep, Zenon
<1>5. alive' \in BOOLEAN
  BY <1>1, PadSteps, Zenon
<1> QED
  BY <1>2, <1>3, <1>4, <1>5, Zenon DEF PluginIInv, TypeOK

LEMMA PluginInvariant == Spec => []PluginIInv
  BY PluginStart, PluginStep, PTL DEF Spec

\* What the registry holds is what ViGEm has.
LEMMA RegistryEnd ==
  ASSUME PadCore
  PROVE  RegistryIsCurrent
<1>1. PadData /\ PadForms /\ RegistryInv /\ next_ \in Nat
  BY DEF PadCore, PadForms
<1>2. ASSUME NEW t \in Targets, notify[t] # None
      PROVE  (\E s \in Slots : controllers[s] = t) /\ (\E e \in entries : e.cookie = notify[t])
  BY <1>1, <1>2, DataFacts DEF RegistryInv
<1>3. ASSUME NEW e \in entries
      PROVE  /\ controllers[e.id] \in Targets /\ notify[controllers[e.id]] = e.cookie
             /\ rumble_contexts[e.id].cookie = e.cookie /\ e.cookie # None
  BY <1>1, DataFacts DEF RegistryInv
<1>4. {e.cookie : e \in entries} = {notify[t] : t \in Targets} \ {None}
  <2>1. ASSUME NEW x \in {e.cookie : e \in entries} PROVE x \in {notify[t] : t \in Targets} \ {None}
    BY <1>3, <2>1, Zenon
  <2>2. ASSUME NEW x \in {notify[t] : t \in Targets} \ {None} PROVE x \in {e.cookie : e \in entries}
    <3>1. PICK t \in Targets : x = notify[t] /\ notify[t] # None
      BY <2>2
    <3> QED
      BY <1>2, <3>1
  <2> QED
    BY <2>1, <2>2
<1> QED
  BY <1>2, <1>3, <1>4 DEF RegistryIsCurrent

\* Type correctness of the plugin object, its gamepads, capture and display settings,
\* for any number of slots, gamepads, keys and subkeys.
THEOREM TypeCorrect == Spec => []TypeOK
<1>1. PluginIInv => TypeOK
  BY DEF PluginIInv
<1> QED
  BY <1>1, PluginInvariant, PTL

\* A rumble reaches the handle of the gamepad it came from or nobody, and the callback
\* registry holds exactly what ViGEm has, however callbacks, window messages, replies,
\* removals and subscriptions interleave.
THEOREM RumbleIsSound == Spec => []RumbleSound
<1>1. PluginIInv => RumbleSound
  <2>1. SUFFICES ASSUME PluginIInv PROVE RumbleSound
    OBVIOUS
  <2>2. PadCore
    BY <2>1, PadParts, Zenon DEF PluginIInv, TypeOK
  <2> QED
    BY <2>2, RegistryEnd DEF RumbleSound, PadCore, FlightInv, OwnersInv
<1> QED
  BY <1>1, PluginInvariant, PTL

\* What KeyboardHookProc told Dart is down is held, and the system is left with the keys
\* as they are, but for those that a change of blocking straddled.
THEOREM KeysAreSound == Spec => []KeysSound
<1>1. PluginIInv => KeysSound
  BY DEF PluginIInv, KeyInv, KeysSound, ToldIsHeld
<1> QED
  BY <1>1, PluginInvariant, PTL

\* The cursor lock is sound, and the destructor leaves neither a clipped or hidden cursor,
\* nor a window procedure, nor a registration that points at the plugin.
THEOREM NothingIsLeft == Spec => []LeavesNothing
<1>1. PluginIInv => LeavesNothing
  <2>1. SUFFICES ASSUME PluginIInv PROVE LeavesNothing
    OBVIOUS
  <2>2. LockSound /\ (~alive => ~cursor_locked_) /\ GoneInv
    BY <2>1, Zenon DEF PluginIInv, LockInv, PadInv
  <2>3. ~cursor_locked_ => ~raw_input /\ ~clipped /\ showCount = 0
    BY <2>2, Zenon DEF LockSound
  <2> QED
    BY <2>2, <2>3, Zenon DEF LeavesNothing, GoneInv
<1> QED
  BY <1>1, PluginInvariant, PTL

\* A list that SetCustomDisplayConfigs reports as set is the one GetCustomDisplayConfigs
\* reads, unless the service wrote late; the copy of the orientation is right unless the
\* user rotated the display.
THEOREM SettingsAreSound == Spec => []SettingsSound
<1>1. PluginIInv => SettingsSound
  BY SettingsEnd DEF PluginIInv
<1> QED
  BY <1>1, PluginInvariant, PTL

=============================================================================
