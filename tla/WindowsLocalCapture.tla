------------------------- MODULE WindowsLocalCapture -------------------------
(***************************************************************************)
(* The viewer's side of the Windows plugin: immersive mode, which blocks   *)
(* system shortcuts while the target window has the focus and tells Dart of *)
(* them (windows/SmartKeyboardBlocker.cpp), and the cursor lock, which     *)
(* clips and hides the cursor and reads raw input.  The hook procedure and *)
(* all calls run on the platform thread; keys and focus are the user's.    *)
(*                                                                         *)
(* Windows: an event that a low-level hook blocks does not reach the       *)
(* asynchronous key state (async), which ShouldBlockKey asks for Alt and   *)
(* Ctrl; a change of foreground window ends a ClipCursor.                  *)
(***************************************************************************)
EXTENDS Integers, Sequences, FiniteSets

CONSTANTS
  Always,        \* keys that are always blocked: Windows, Alt, right Ctrl
  Chord,         \* the modifiers with which other keys are blocked
  Plain,         \* modifiers that are never blocked: left Ctrl
  MaxMoves       \* bound on mouse moves in the window's queue

ChordKeys == DOMAIN Chord
Keys      == Always \cup ChordKeys \cup Plain

ASSUME CaptureAssumption ==
  /\ Chord \in [ChordKeys -> SUBSET (Always \cup Plain)]
  /\ Always \cap ChordKeys = {} /\ Plain \cap ChordKeys = {} /\ Always \cap Plain = {}
  /\ MaxMoves \in Nat

VARIABLES
  hook_handle_, callback_, key_states_,
  ime,             \* the window's input method is associated
  foreground,      \* the target window, or a child of it, is in front
  physical, async, \* keys that are down; keys that the system takes for down
  told,            \* keys that Dart, since it turned immersive mode on, takes for down
  straddled,       \* keys held while their blocking began or ended, until a new press is blocked
  stale,           \* of those, keys whose release key_states_ has not seen
  carriedIn,       \* keys that were down for the system when their blocking began
  cursor_locked_, raw_input, clipped, showCount,
  refocused,       \* the foreground changed since the cursor was locked
  moves, sawReseed \* mouse moves in the queue; Flutter was given a re-seeding one

keyboardVars == <<hook_handle_, callback_, key_states_, ime, physical, async, told,
                  straddled, stale, carriedIn>>
lockVars     == <<cursor_locked_, raw_input, clipped, showCount, refocused>>
moveVars     == <<moves, sawReseed>>
captureVars  == <<keyboardVars, foreground, lockVars, moveVars>>

CaptureInit ==
  /\ hook_handle_ = FALSE /\ callback_ = FALSE /\ key_states_ = {} /\ ime = TRUE
  /\ foreground \in BOOLEAN /\ physical = {} /\ async = {} /\ told = {}
  /\ straddled = {} /\ stale = {} /\ carriedIn = {}
  /\ cursor_locked_ = FALSE /\ raw_input = FALSE /\ clipped = FALSE /\ showCount = 0
  /\ refocused = FALSE /\ moves = <<>> /\ sawReseed = FALSE

----------------------------------------------------------------------------
(* SmartKeyboardBlocker.                                                   *)

ShouldBlockKey(k) == k \in Always \/ (k \in ChordKeys /\ Chord[k] \subseteq async)

\* Mutant: keys are blocked in every application.
BlocksAnywhere(k) == hook_handle_ /\ ShouldBlockKey(k)
Blocks(k)         == hook_handle_ /\ foreground /\ ShouldBlockKey(k)

Began == {k \in Keys : ~Blocks(k) /\ Blocks(k)'}
Ended == {k \in Keys : Blocks(k) /\ ~Blocks(k)'}

\* What the properties remember of a step; S and A are forgotten.
Remember(S, A) ==
  /\ straddled' = (straddled \ S) \cup (physical \cap (Began \cup Ended))
  /\ stale' = IF hook_handle_' THEN (stale \ A) \cup (physical \cap Ended) ELSE {}
  /\ carriedIn' = (carriedIn \cap async') \cup (async \cap Began)

\* StartBlocking, then SetCallback; the hook may be refused, and the input method
\* is dissociated all the same.
Immerse ==
  /\ hook_handle_' \in IF hook_handle_ THEN {TRUE} ELSE BOOLEAN
  /\ callback_' = TRUE
  /\ ime' = FALSE
  /\ UNCHANGED <<key_states_, physical, async, told, foreground, lockVars, moveVars>>
  /\ Remember({}, {})

\* Mutant: the states of the keys survive.
StopBlockingKeepsStates == key_states_
StopBlockingStates      == {}

\* StopBlocking: nothing if there is no hook.  Dart is not told of keys still down;
\* as it is Dart that turns the mode off, it forgets them.
Emerge ==
  /\ callback_' = FALSE
  /\ hook_handle_' = FALSE
  /\ ime' = (ime \/ hook_handle_)
  /\ key_states_' = IF hook_handle_ THEN StopBlockingStates ELSE key_states_
  /\ told' = {}
  /\ UNCHANGED <<physical, async, foreground, lockVars, moveVars>>
  /\ Remember({}, {})

SetImmersiveMode(enabled) == IF enabled THEN Immerse ELSE Emerge

With(S, k, down) == IF down THEN S \cup {k} ELSE S \ {k}

\* KeyboardHookProc, for a key pressed, repeated or released by the user.
KeyboardHookProc(k, down) ==
  /\ down \/ k \in physical
  /\ physical' = With(physical, k, down)
  /\ IF Blocks(k)
       THEN /\ key_states_' = With(key_states_, k, down)
            /\ told' = IF callback_ /\ (k \in key_states_) # down THEN With(told, k, down) ELSE told
            /\ UNCHANGED async
       ELSE /\ async' = With(async, k, down)
            /\ UNCHANGED <<key_states_, told>>
  /\ UNCHANGED <<hook_handle_, callback_, ime, foreground, lockVars, moveVars>>
  /\ Remember(IF Blocks(k) /\ down /\ k \notin physical \cup stale THEN {k} ELSE {},
              IF Blocks(k) /\ ~down THEN {k} ELSE {})

----------------------------------------------------------------------------
(* The cursor lock.                                                        *)

Unclip == clipped' = FALSE /\ refocused' = FALSE

\* LockCursor gives up when there is no window, no cursor position or no clip, or
\* when raw input is refused, and then undoes the clip and shows the cursor.
LockFailsShort == UNCHANGED <<foreground, keyboardVars, lockVars, moveVars>>
LockFailsRaw   == Unclip /\ UNCHANGED <<cursor_locked_, raw_input, showCount, foreground,
                                        keyboardVars, moveVars>>

LockCursor ==
  \/ LockFailsShort
  \/ ~cursor_locked_ /\ LockFailsRaw
  \/ /\ ~cursor_locked_
     /\ cursor_locked_' = TRUE /\ raw_input' = TRUE
     /\ clipped' = TRUE /\ refocused' = FALSE
     /\ showCount' = showCount - 1
     /\ UNCHANGED <<foreground, keyboardVars, moveVars>>

\* Mutant: the cursor stays hidden.
UnlockedHidden ==
  /\ Unclip /\ cursor_locked_' = FALSE /\ raw_input' = FALSE
  /\ UNCHANGED <<showCount, foreground, keyboardVars>>
Unlocked ==
  /\ Unclip /\ cursor_locked_' = FALSE /\ raw_input' = FALSE
  /\ showCount' = showCount + 1
  /\ UNCHANGED <<foreground, keyboardVars>>

UnlockCursor == cursor_locked_ /\ Unlocked /\ UNCHANGED moveVars

\* The tag of the move that UnlockCursorAndReseed sends with SendInput, so that it
\* cannot lose it on the way through the desktop service.
ReseedTag == "reseed"

UnlockCursorAndReseed ==
  /\ cursor_locked_ /\ Unlocked
  /\ Len(moves) < MaxMoves
  /\ moves' = Append(moves, [tag |-> ReseedTag, synthetic |-> TRUE])
  /\ UNCHANGED sawReseed

\* CursorReseedSubclassProc consumes what is tagged; the rest is Flutter's.
CursorReseedSubclassProc ==
  /\ moves # <<>>
  /\ moves' = Tail(moves)
  /\ sawReseed' = (sawReseed \/ (Head(moves).synthetic /\ Head(moves).tag # "reseed"))
  /\ UNCHANGED <<foreground, keyboardVars, lockVars>>

UserMoves ==
  /\ Len(moves) < MaxMoves /\ ~clipped
  /\ moves' = Append(moves, [tag |-> "none", synthetic |-> FALSE])
  /\ UNCHANGED <<sawReseed, foreground, keyboardVars, lockVars>>

\* The focus comes or goes.
FocusChanges ==
  /\ foreground' = ~foreground
  /\ clipped' = FALSE
  /\ refocused' = (refocused \/ cursor_locked_)
  /\ UNCHANGED <<hook_handle_, callback_, key_states_, ime, physical, async, told,
                 cursor_locked_, raw_input, showCount, moveVars>>
  /\ Remember({}, {})

\* The destructor's CleanupCursorLock.
CleanupCursorLock ==
  IF cursor_locked_ THEN Unlocked ELSE UNCHANGED <<foreground, keyboardVars, lockVars>>

KeyboardCalls == \E e \in BOOLEAN : SetImmersiveMode(e)
CursorCalls   == LockCursor \/ UnlockCursor \/ UnlockCursorAndReseed
UserTypes     == \E k \in Keys, d \in BOOLEAN : KeyboardHookProc(k, d)

----------------------------------------------------------------------------
(* Properties.                                                             *)

\* Types of the capture's state; the cursor's display count is balanced.
CaptureTypeOK ==
  /\ {hook_handle_, callback_, ime, foreground, cursor_locked_, raw_input, clipped,
      refocused, sawReseed} \subseteq BOOLEAN
  /\ \A S \in {key_states_, physical, async, told, straddled, stale, carriedIn} : S \subseteq Keys
  /\ showCount \in -1 .. 0
  /\ Len(moves) <= MaxMoves

\* Dart is told of a blocked key's press and of its release, once each, however
\* immersive mode, the focus and the modifiers come and go: what it takes for down
\* is down.  Only a key held while its blocking began or ended may be wrong, until
\* a new press of it is blocked; after a loss of focus, until its release is as well.
ToldIsHeld == told \ straddled \subseteq physical

\* "Does not affect other applications": what the system takes for down is down,
\* but for keys that were down when their blocking began, whose release is
\* swallowed; every key it does not know of was blocked and told to Dart; and in
\* front of another application it knows them all, but for keys carried there.
SystemKnowsKeys ==
  /\ async \ physical \subseteq carriedIn
  /\ ~(hook_handle_ /\ foreground) => physical \ straddled \subseteq async
  /\ physical \ (async \cup straddled) \subseteq told

\* The cursor is hidden, clipped and read only while it is locked (Windows ends the
\* clip when the focus changes, and it is not renewed), and Flutter never sees the
\* move that re-seeds its position.
LockSound ==
  /\ showCount = IF cursor_locked_ THEN -1 ELSE 0
  /\ raw_input = cursor_locked_
  /\ clipped = (cursor_locked_ /\ ~refocused)
  /\ ~sawReseed

\* What KeyboardHookProc told Dart is down is held, and what it let through or kept
\* leaves the system with the keys as they are.
KeysSound == ToldIsHeld /\ SystemKnowsKeys
=============================================================================
