----------------------- MODULE WindowsCursorMonitor -----------------------
(***************************************************************************)
(* windows/cursor_monitor.cc: every subscriber of the host's cursor is told *)
(* its shape, its visibility and, on request, its position.  Windows posts *)
(* change events to the platform thread, where CursorChangedEventProc and  *)
(* every call run; they read the cursor as it is by then, not as it was.   *)
(* Subscribers share lastHCursor, lastCursorVisible and lastCursorPos, and  *)
(* each has a cache of the bitmaps it was sent.  Messages reach Dart later, *)
(* in order, and are given to whatever callback has the id by then; a call *)
(* and its handler are one step here, so Dart's ids are the native ones.   *)
(*                                                                         *)
(* A bitmap is a name (Bitmap); two handles may have the same one.  Of     *)
(* CursorBitmapHash it is kept that bitmap and system id both count, and   *)
(* that equal ones hash alike; collisions of the 31-bit hash are left out. *)
(* So is the pixel ratio, which the plugin reads once and never changes.   *)
(***************************************************************************)
EXTENDS Naturals, Sequences, FiniteSets

CONSTANTS
  Ids,             \* callback ids
  HookAll,         \* those that ask for all images (hookAll), not only custom ones
  PositionIds,     \* those that also ask for positions
  Cursors,         \* cursor handles, positive numbers
  SystemCursors,   \* those that GetCursorHandle recognises
  Bitmap,          \* the picture of each handle
  Positions,
  MaxChanges,      \* bound on changes of the host's cursor and desktop
  MaxCalls,        \* bound on calls
  MaxFaults        \* bound on failures of SetWinEventHook and GetDIBits

NoCursor == 0
NoPos    == 0
Nothing  == <<>>        \* a subscriber that was shown no cursor yet
Unknown  == <<0, 0, 0>> \* ... or was told to use a bitmap that it never got

ASSUME CursorAssumption ==
  /\ Ids \subseteq Nat /\ Cursors \subseteq Nat \ {NoCursor}
  /\ SystemCursors \subseteq Cursors /\ SystemCursors # {}
  /\ Positions \subseteq Nat \ {NoPos} /\ Positions # {}
  /\ HookAll \subseteq Ids /\ PositionIds \subseteq Ids
  /\ Bitmap \in [Cursors -> Nat \ {0}]
  /\ {MaxChanges, MaxCalls, MaxFaults} \subseteq Nat

VARIABLES
  os,                \* the host's cursor; readable is FALSE on a secure desktop
  Global_HOOK, posted,            \* the event hook; its events not handled yet
  callbacks,         \* the ids that are callbacks
  cachedcursors, lastHCursor, lastCursorVisible, hasLastCursorVisible,
  positionCallbacks,
  lastCursorPos,     \* NoPos while hasLastCursorPos is false
  toDart,            \* messages on the channel
  view,              \* what Dart's callback of each id was told
  excuse,            \* what each subscriber may have wrong, and why (see below)
  late,              \* ids registered while older messages for them were under way
  changes, calls, faults

hookVars   == <<Global_HOOK, posted>>
nativeVars == <<callbacks, cachedcursors, lastHCursor, lastCursorVisible,
                hasLastCursorVisible, positionCallbacks, lastCursorPos>>
cursorGhosts     == <<excuse, late>>
cursorVars == <<os, hookVars, nativeVars, toDart, view, cursorGhosts, changes, calls, faults>>

NewView == [img |-> Nothing, have |-> {}, vis |-> "none", pos |-> NoPos]

CursorInit ==
  /\ os = [cursor |-> CHOOSE c \in Cursors : c \in SystemCursors, visible |-> TRUE,
            pos |-> CHOOSE p \in Positions : TRUE, readable |-> TRUE]
  /\ Global_HOOK = FALSE /\ posted = <<>>
  /\ callbacks = {} /\ cachedcursors = [i \in Ids |-> {}]
  /\ lastHCursor = NoCursor /\ lastCursorVisible = TRUE /\ hasLastCursorVisible = FALSE
  /\ positionCallbacks = {} /\ lastCursorPos = NoPos
  /\ toDart = <<>> /\ view = [i \in Ids |-> NewView]
  /\ excuse = [i \in Ids |-> {}] /\ late = {}
  /\ changes = 0 /\ calls = 0 /\ faults = 0

CursorCall == calls < MaxCalls /\ calls' = calls + 1
MayFail   == IF faults < MaxFaults THEN BOOLEAN ELSE {TRUE}
Fault(ok) == faults' = IF ok THEN faults ELSE faults + 1

----------------------------------------------------------------------------
(* What is sent.                                                           *)

\* The ids of S in the order of the map, as a set of the one sequence of them.
InMapOrder(S) ==
  {ids \in [1 .. Cardinality(S) -> S] : \A m, n \in DOMAIN ids : m < n => ids[m] < ids[n]}

\* The picture is empty when the bitmap cannot be read.
CreateMouseCursorFromHCursor(c, ok) == IF ok THEN Bitmap[c] ELSE 0

GetCursorHandle(c) == IF c \in SystemCursors THEN c ELSE NoCursor

CursorBitmapHash(picture, system_cursor_id) == <<picture, system_cursor_id>>

FrameOf(c, ok) == CursorBitmapHash(CreateMouseCursorFromHCursor(c, ok), GetCursorHandle(c))

\* A bitmap is encoded and sent once; after that its hash will do.
ImageMessage(i, frame, cache) ==
  [to |-> i, kind |-> IF frame \in cache THEN "cached" ELSE "image", what |-> frame]

\* A system cursor goes by its id unless the subscriber asked for all images.
ByName(i, c) == i \notin HookAll /\ GetCursorHandle(c) # NoCursor

CursorMessage(i, c, frame, cache) ==
  IF ByName(i, c) THEN [to |-> i, kind |-> "default", what |-> <<c>>]
  ELSE ImageMessage(i, frame, cache)

VisibilityMessage(i, visible) ==
  [to |-> i, kind |-> IF visible THEN "visible" ELSE "invisible", what |-> <<os.pos>>]

PositionMessage(i) == [to |-> i, kind |-> "position", what |-> <<os.pos>>]

Excused(S, what, e)   == [i \in Ids |-> IF i \in S THEN e[i] \cup what ELSE e[i]]
Unexcused(S, what, e) == [i \in Ids |-> IF i \in S THEN e[i] \ what ELSE e[i]]

----------------------------------------------------------------------------
(* The two synchronisations.  Each is given the messages and the excuses   *)
(* of the handler so far.                                                  *)

ShouldSyncCursorImage(cursor, previous) == cursor # previous

SyncCursorImage(sent, e) ==
  IF callbacks # {} /\ os.readable /\ ShouldSyncCursorImage(os.cursor, lastHCursor) THEN
    \E ok \in MayFail, ids \in InMapOrder(callbacks) :
      LET frame  == FrameOf(os.cursor, ok)
          drawn  == {i \in callbacks : ~ByName(i, os.cursor)}
          shape  == [n \in DOMAIN ids |->
                       CursorMessage(ids[n], os.cursor, frame, cachedcursors[ids[n]])]
      IN  /\ Fault(ok)
          /\ lastHCursor' = os.cursor
          /\ cachedcursors' = [i \in Ids |-> cachedcursors[i] \cup
                                 (IF i \in drawn THEN {frame} ELSE {})]
          /\ toDart' = toDart \o sent \o shape
          /\ excuse' = IF ok THEN Unexcused(callbacks, {"img", "seeded"}, e)
                       ELSE Excused(drawn, {"img"}, Unexcused(callbacks, {"img", "seeded"}, e))
  ELSE
    /\ toDart' = toDart \o sent
    /\ excuse' = IF os.readable THEN e ELSE Excused(callbacks, {"img"}, e)
    /\ UNCHANGED <<lastHCursor, cachedcursors, faults>>

\* Telling everyone that the cursor is (in)visible, then the shape of a visible one.
TellVisibility(visible) ==
  \E ids \in InMapOrder(callbacks) :
    LET sent == [n \in DOMAIN ids |-> VisibilityMessage(ids[n], visible)]
        e    == Unexcused(callbacks, {"vis"}, excuse)
    IN  /\ hasLastCursorVisible' = TRUE /\ lastCursorVisible' = visible
        /\ IF visible THEN SyncCursorImage(sent, e)
           ELSE /\ toDart' = toDart \o sent /\ excuse' = e
                /\ UNCHANGED <<lastHCursor, cachedcursors, faults>>

Quiet == UNCHANGED <<toDart, lastHCursor, cachedcursors, lastCursorVisible,
                     hasLastCursorVisible, faults>>

\* syncNow, called after pen input and by clearAllPressedEvents.
syncNow ==
  /\ CursorCall /\ callbacks # {}
  /\ IF os.readable /\ (hasLastCursorVisible => os.visible # lastCursorVisible)
       THEN TellVisibility(os.visible)
     ELSE /\ UNCHANGED <<lastCursorVisible, hasLastCursorVisible>>
          /\ IF lastCursorVisible THEN SyncCursorImage(<<>>, excuse)
             ELSE UNCHANGED <<toDart, excuse, lastHCursor, cachedcursors, faults>>
  /\ UNCHANGED <<os, hookVars, callbacks, positionCallbacks, lastCursorPos, view,
                 late, changes>>

----------------------------------------------------------------------------
(* CursorChangedEventProc.                                                 *)

\* EVENT_OBJECT_SHOW and EVENT_OBJECT_HIDE: the event is believed, unless the
\* position cannot be read.
OnVisibility(visible) ==
  IF os.readable THEN TellVisibility(visible)
  ELSE excuse' = Excused(callbacks, {"vis", "img"}, excuse) /\ Quiet

\* EVENT_OBJECT_LOCATIONCHANGE: positions, then the shape.
OnLocation ==
  IF positionCallbacks = {} THEN SyncCursorImage(<<>>, excuse) /\ UNCHANGED lastCursorPos
  ELSE IF ~os.readable THEN
    /\ excuse' = Excused(positionCallbacks, {"pos"}, excuse)
    /\ UNCHANGED <<toDart, lastHCursor, cachedcursors, faults, lastCursorPos>>
  ELSE
    /\ lastCursorPos' = os.pos
    /\ IF os.pos # lastCursorPos
         THEN \E ids \in InMapOrder(positionCallbacks) :
                SyncCursorImage([n \in DOMAIN ids |-> PositionMessage(ids[n])],
                                Unexcused(positionCallbacks, {"pos", "seededPos"}, excuse))
         ELSE SyncCursorImage(<<>>, excuse)

CursorChangedEventProc ==
  /\ posted # <<>>
  /\ posted' = Tail(posted)
  /\ \/ /\ Head(posted) \in {"show", "hide"}
        /\ OnVisibility(Head(posted) = "show")
        /\ UNCHANGED lastCursorPos
     \/ /\ Head(posted) = "name"
        /\ SyncCursorImage(<<>>, excuse)
        /\ UNCHANGED <<lastCursorVisible, hasLastCursorVisible, lastCursorPos>>
     \/ /\ Head(posted) = "location"
        /\ OnLocation
        /\ UNCHANGED <<lastCursorVisible, hasLastCursorVisible>>
  /\ UNCHANGED <<os, Global_HOOK, callbacks, positionCallbacks, view, late,
                 changes, calls>>

----------------------------------------------------------------------------
(* Subscribing.                                                            *)

EnsureCursorEventHook == Global_HOOK' \in IF Global_HOOK THEN {TRUE} ELSE MayFail

\* Mutant: the hook is never removed.
ReleaseNever(images, positions) == UNCHANGED hookVars
ReleaseCursorEventHookIfUnused(images, positions) ==
  IF images = {} /\ positions = {}
    THEN Global_HOOK' = FALSE /\ posted' = <<>>
    ELSE UNCHANGED hookVars

\* Mutant: the cache of an earlier registration of the id is kept.
FreshCacheKept(i) == cachedcursors[i]
FreshCache(i)     == {}

\* The first message of a subscription: the cursor as it is now.  lastHCursor is
\* not set, as the others have not been told.
Seed(i, ok) ==
  IF ~os.readable \/ (~ok /\ ~ByName(i, os.cursor)) THEN <<>>
  ELSE <<CursorMessage(i, os.cursor, FrameOf(os.cursor, TRUE), {})>>

\* Mutant: the seed also sets lastHCursor.
startHookSetsLast(i) ==
  /\ CursorCall
  /\ EnsureCursorEventHook
  /\ callbacks' = callbacks \cup {i}
  /\ faults' = faults + (IF Global_HOOK' THEN 0 ELSE 1)
  /\ lastHCursor' = os.cursor
  /\ toDart' = toDart \o Seed(i, TRUE)
                 \o IF os.readable THEN <<VisibilityMessage(i, os.visible)>> ELSE <<>>
  /\ excuse' = [excuse EXCEPT ![i] = IF os.readable THEN {} ELSE {"vis", "img"}]
  /\ view' = [view EXCEPT ![i] = [NewView EXCEPT !.pos = view[i].pos]]
  /\ UNCHANGED <<os, posted, cachedcursors, lastCursorVisible, hasLastCursorVisible,
                 positionCallbacks, lastCursorPos, changes, late>>

\* startHook, with Dart's addCursorImageUpdated that calls it.
startHook(i) ==
  /\ CursorCall
  /\ EnsureCursorEventHook
  /\ callbacks' = callbacks \cup {i}
  /\ \E ok \in IF Global_HOOK' \/ faults + 1 < MaxFaults THEN MayFail ELSE {TRUE} :
       LET seed  == Seed(i, ok)
           drawn == seed # <<>> /\ ~ByName(i, os.cursor)
           sees  == IF os.readable THEN <<VisibilityMessage(i, os.visible)>> ELSE <<>>
       IN  /\ faults' = faults + (IF Global_HOOK' THEN 0 ELSE 1) + (IF ok THEN 0 ELSE 1)
           /\ cachedcursors' = [cachedcursors EXCEPT ![i] =
                FreshCache(i) \cup IF drawn THEN {FrameOf(os.cursor, TRUE)} ELSE {}]
           /\ toDart' = toDart \o seed \o sees
           /\ excuse' = [excuse EXCEPT ![i] =
                (@ \cap {"pos", "seededPos"})
                \cup (IF os.readable THEN {} ELSE {"vis"})
                \cup (IF seed = <<>> THEN {"img"} ELSE {})
                \cup (IF lastHCursor # os.cursor THEN {"seeded"} ELSE {})]
  /\ view' = [view EXCEPT ![i] = [NewView EXCEPT !.pos = view[i].pos]]
  /\ late' = IF \E n \in 1 .. Len(toDart) : toDart[n].to = i /\ toDart[n].kind # "position"
               THEN late \cup {i} ELSE late \ {i}
  /\ UNCHANGED <<os, posted, lastHCursor, lastCursorVisible, hasLastCursorVisible,
                 positionCallbacks, lastCursorPos, changes>>

\* endHook, with removeCursorImageUpdated.
endHook(i) ==
  /\ CursorCall /\ i \in callbacks
  /\ callbacks' = callbacks \ {i}
  /\ cachedcursors' = [cachedcursors EXCEPT ![i] = {}]
  /\ ReleaseCursorEventHookIfUnused(callbacks \ {i}, positionCallbacks)
  /\ UNCHANGED <<os, lastHCursor, lastCursorVisible, hasLastCursorVisible,
                 positionCallbacks, lastCursorPos, toDart, view, cursorGhosts, changes, faults>>

\* startPositionHook: the first subscriber decides lastCursorPos.
startPositionHook(i) ==
  /\ CursorCall
  /\ EnsureCursorEventHook
  /\ faults' = faults + (IF Global_HOOK' THEN 0 ELSE 1)
  /\ positionCallbacks' = positionCallbacks \cup {i}
  /\ lastCursorPos' = IF positionCallbacks # {} THEN lastCursorPos
                      ELSE IF os.readable THEN os.pos ELSE NoPos
  /\ toDart' = IF os.readable THEN Append(toDart, PositionMessage(i)) ELSE toDart
  /\ excuse' = [excuse EXCEPT ![i] =
                  (@ \ {"pos", "seededPos"})
                  \cup (IF os.readable THEN {} ELSE {"pos"})
                  \cup (IF lastCursorPos' # os.pos THEN {"seededPos"} ELSE {})]
  /\ view' = [view EXCEPT ![i].pos = NoPos]
  /\ UNCHANGED <<os, posted, callbacks, cachedcursors, lastHCursor, lastCursorVisible,
                 hasLastCursorVisible, late, changes>>

endPositionHook(i) ==
  /\ CursorCall /\ i \in positionCallbacks
  /\ positionCallbacks' = positionCallbacks \ {i}
  /\ ReleaseCursorEventHookIfUnused(callbacks, positionCallbacks \ {i})
  /\ UNCHANGED <<os, callbacks, cachedcursors, lastHCursor, lastCursorVisible,
                 hasLastCursorVisible, lastCursorPos, toDart, view, cursorGhosts,
                 changes, faults>>

----------------------------------------------------------------------------
(* Dart, and the host.                                                     *)

\* onCursorImageMessage and onCursorPositionMessage, for the message m.
Told(v, m) ==
  IF m.to \notin IF m.kind = "position" THEN positionCallbacks ELSE callbacks THEN v
  ELSE IF m.kind = "position" THEN [v EXCEPT ![m.to].pos = m.what[1]]
  ELSE IF m.kind \in {"visible", "invisible"} THEN [v EXCEPT ![m.to].vis = m.kind]
  ELSE IF m.kind = "image"
    THEN [v EXCEPT ![m.to].img = m.what, ![m.to].have = @ \cup {m.what}]
  ELSE IF m.kind = "cached" /\ m.what \notin v[m.to].have
    THEN [v EXCEPT ![m.to].img = Unknown]
  ELSE [v EXCEPT ![m.to].img = m.what]

\* Dart's event loop handles the oldest message.
DartHandles ==
  /\ toDart # <<>>
  /\ view' = Told(view, Head(toDart))
  /\ toDart' = Tail(toDart)
  /\ UNCHANGED <<os, hookVars, nativeVars, cursorGhosts, changes,
                 calls, faults>>

\* The host's cursor changes, or a secure desktop (UAC) comes or goes.  Windows
\* posts an event of the change if there is a hook; without one nobody is told.
HostChanges(new, event) ==
  /\ changes < MaxChanges /\ changes' = changes + 1
  /\ os' = new /\ new # os
  /\ posted' = IF Global_HOOK /\ event # "none" THEN Append(posted, event) ELSE posted
  /\ excuse' = IF Global_HOOK \/ event = "none" THEN excuse
               ELSE Excused(Ids, {"vis", "img", "pos"}, excuse)
  /\ UNCHANGED <<Global_HOOK, nativeVars, toDart, view, late, calls, faults>>

Host ==
  \/ \E c \in Cursors : HostChanges([os EXCEPT !.cursor = c], "name")
  \/ \E v \in BOOLEAN : HostChanges([os EXCEPT !.visible = v], IF v THEN "show" ELSE "hide")
  \/ \E p \in Positions : HostChanges([os EXCEPT !.pos = p], "location")
  \/ HostChanges([os EXCEPT !.readable = ~os.readable], "none")

CursorNext ==
  \/ \E i \in Ids : startHook(i) \/ endHook(i)
  \/ \E i \in PositionIds : startPositionHook(i) \/ endPositionHook(i)
  \/ syncNow \/ CursorChangedEventProc \/ DartHandles \/ Host

CursorSpec == CursorInit /\ [][CursorNext]_cursorVars

----------------------------------------------------------------------------
(* Properties.                                                             *)

Messages == [to : Ids, kind : {"visible", "invisible", "default", "image", "cached",
                               "position"}, what : Seq(Nat)]

\* Type correctness; the hook exists only while someone is subscribed.
CursorTypeOK ==
  /\ os \in [cursor : Cursors, visible : BOOLEAN, pos : Positions, readable : BOOLEAN]
  /\ posted \in Seq({"show", "hide", "name", "location"})
  /\ callbacks \subseteq Ids
  /\ lastHCursor \in Cursors \cup {NoCursor} /\ lastCursorPos \in Positions \cup {NoPos}
  /\ {lastCursorVisible, hasLastCursorVisible, Global_HOOK} \subseteq BOOLEAN
  /\ positionCallbacks \subseteq Ids
  /\ toDart \in Seq(Messages)
  /\ excuse \in [Ids -> SUBSET {"vis", "img", "seeded", "pos", "seededPos"}] /\ late \subseteq Ids
  /\ Global_HOOK => callbacks # {} \/ positionCallbacks # {}
  /\ posted # <<>> => Global_HOOK

\* A subscriber is told to take a bitmap from its cache only if it was sent that
\* bitmap, through any order of hooking, unhooking and hooking again, unless it
\* registered an id for which older messages were still under way.
CachedIsKnown == \A i \in Ids : view[i].img = Unknown => i \in late

Shown(i) == IF ByName(i, os.cursor) THEN <<os.cursor>>
            ELSE FrameOf(os.cursor, TRUE)

\* Once all events and messages are handled every subscriber has the cursor as it
\* is, though events are read late and subscribers share what was last seen.
\* It may not, if a change could not be read or came while there was no hook, if
\* its picture could not be drawn, or if it was seeded with a cursor other than
\* lastHCursor (lastCursorPos) and the cursor went back to that one, which is then
\* taken for no change.
ViewsSettle ==
  os.readable /\ posted = <<>> /\ toDart = <<>> =>
    /\ \A i \in callbacks \ late :
         /\ "vis" \in excuse[i] \/ view[i].vis = IF os.visible THEN "visible" ELSE "invisible"
         /\ \/ view[i].img = Shown(i)
            \/ "img" \in excuse[i]
            \/ "seeded" \in excuse[i] /\ os.cursor = lastHCursor
    /\ \A i \in positionCallbacks :
         \/ view[i].pos = os.pos
         \/ "pos" \in excuse[i]
         \/ "seededPos" \in excuse[i] /\ os.pos = lastCursorPos
=============================================================================
