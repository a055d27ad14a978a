---------------------------- MODULE LinuxEditFocus ----------------------------
(***************************************************************************)
(* The question whether a click went into a text field                     *)
(* (linux/linux_edit_focus.cc): 80 ms after a click the field that has the *)
(* focus is looked at through AT-SPI.  Applications move the focus and     *)
(* tell the listener of it by events that come late; the two events of one *)
(* move may come in either order.  A click goes to one node of the screen, *)
(* or none; 80 ms are taken to be enough for the application to handle the *)
(* click, as the code does, but not for its events to arrive.              *)
(***************************************************************************)
EXTENDS Naturals, Sequences, FiniteSets

CONSTANTS
  Nodes, Editable,
  Secure,       \* password fields
  Boundless,    \* nodes without a component interface: they tell no extents
  NoNode,
  MaxClicks, MaxFocusMoves

ASSUME EditFocusAssumption ==
  /\ Editable \cup Secure \cup Boundless \subseteq Nodes /\ NoNode \notin Nodes
  /\ {MaxClicks, MaxFocusMoves} \subseteq Nat

VARIABLES
  listener, focused,
  timers,          \* the requests whose timers run; pending is the last of them
  request, callback,
  clicked, handled,        \* where each request was clicked; how many clicks were handled
  realFocus, defunct,      \* the desktop's focus; nodes that went away
  events, focusMoves,
  cancelled,               \* requests made before the last stop
  answers

requestVars   == <<listener, focused, timers, request, callback, cancelled, answers>>
screenVars    == <<handled, realFocus, defunct, events, focusMoves>>
editFocusVars == <<requestVars, clicked, screenVars>>

EditFocusInit ==
  /\ listener = FALSE /\ focused = NoNode /\ timers = {} /\ request = 0 /\ callback = FALSE
  /\ clicked = <<>> /\ handled = 0 /\ realFocus \in Nodes \cup {NoNode} /\ defunct = {}
  /\ events = <<>> /\ focusMoves = 0 /\ cancelled = 0 /\ answers = <<>>

----------------------------------------------------------------------------
(* The desktop.                                                            *)

Gained(n) == [node |-> n, gained |-> TRUE]
Lost(n)   == [node |-> n, gained |-> FALSE]

\* The focus moves to n, or nowhere, and a listener is told.
FocusTo(n) ==
  /\ realFocus' = n
  /\ IF ~listener \/ n = realFocus THEN UNCHANGED events
     ELSE LET was == IF realFocus = NoNode THEN <<>> ELSE <<Lost(realFocus)>>
              now == IF n = NoNode THEN <<>> ELSE <<Gained(n)>>
          IN  events' \in {events \o was \o now, events \o now \o was}

Focusable == (Nodes \ defunct) \cup {NoNode}

AppHandlesClick ==
  /\ handled < Len(clicked) /\ handled' = handled + 1
  /\ IF clicked[handled + 1] \in Focusable THEN FocusTo(clicked[handled + 1])
     ELSE UNCHANGED <<realFocus, events>>
  /\ UNCHANGED <<requestVars, clicked, defunct, focusMoves>>

FocusMoves ==
  /\ focusMoves < MaxFocusMoves /\ focusMoves' = focusMoves + 1
  /\ \E n \in Focusable : FocusTo(n)
  /\ UNCHANGED <<requestVars, clicked, handled, defunct>>

\* An application ends without a word.
AppDies ==
  /\ focusMoves < MaxFocusMoves /\ focusMoves' = focusMoves + 1
  /\ \E n \in Nodes \ defunct :
       defunct' = defunct \cup {n} /\ realFocus' = IF n = realFocus THEN NoNode ELSE realFocus
  /\ UNCHANGED <<requestVars, clicked, handled, events>>

----------------------------------------------------------------------------
(* LinuxEditFocus.                                                         *)

Stopped ==
  /\ timers' = {} /\ callback' = FALSE /\ listener' = FALSE /\ focused' = NoNode
  /\ events' = <<>> /\ cancelled' = Len(clicked)
  /\ UNCHANGED <<request, clicked, answers, handled, realFocus, defunct, focusMoves>>

\* start; AT-SPI may be missing, or refuse the listener, which ends in stop.
start ==
  IF listener THEN UNCHANGED editFocusVars
  ELSE \/ listener' = TRUE
          /\ UNCHANGED <<focused, timers, request, callback, cancelled, answers, clicked, screenVars>>
       \/ Stopped
stop == Stopped

\* Mutant: the timer of an earlier click runs on.
RunsOn(id)   == timers \cup {id}
Replaces(id) == {id}

\* inspect, by the release of the left button at n.
inspect(n) ==
  /\ Len(clicked) < MaxClicks
  /\ clicked' = Append(clicked, n)
  /\ IF listener THEN timers' = Replaces(Len(clicked')) /\ request' = Len(clicked') /\ callback' = TRUE
                 ELSE UNCHANGED <<timers, request, callback>>
  /\ UNCHANGED <<listener, focused, cancelled, answers, screenVars>>

\* Mutant: the end of a focus is not noticed.
KeepLost(e) == IF e.gained THEN e.node ELSE focused
Noticed(e)  == IF e.gained THEN e.node ELSE IF focused = e.node THEN NoNode ELSE focused

event ==
  /\ events # <<>> /\ events' = Tail(events)
  /\ focused' = Noticed(Head(events))
  /\ UNCHANGED <<listener, timers, request, callback, cancelled, answers, clicked, handled,
                 realFocus, defunct, focusMoves>>

\* find_focus returns the field with the focus if it is at the place; it searches a
\* bounded number of nodes for a bounded time.
find_focus(n, reached) ==
  IF /\ reached /\ realFocus \in Editable
     /\ realFocus = n \/ realFocus \in Boundless
    THEN realFocus ELSE NoNode

\* Mutant: the place of the click does not matter.
IsIn(n, target)     == TRUE
Contains(n, target) == n = target /\ target \notin Boundless

\* The timer.  An application may leave any of the questions unanswered.
Timer(id) ==
  /\ id \in timers /\ handled >= id
  /\ timers' = timers \ {id}
  /\ \E reached, replies \in BOOLEAN :
       LET n      == clicked[request]
           target == IF focused # NoNode THEN focused ELSE find_focus(n, reached)
           active == /\ target \in Editable \ defunct /\ replies
                     /\ target = realFocus /\ Contains(n, target)
       IN  /\ focused' = target
           /\ answers' = IF ~callback THEN answers
                ELSE Append(answers,
                       [id |-> request, active |-> active,
                        secure |-> active /\ target \in Secure,
                        truth  |-> n \in Editable \ defunct /\ n = realFocus,
                        hidden |-> n \in Boundless,
                        certain |-> reached /\ replies /\ events = <<>> /\ handled = Len(clicked),
                        waited |-> handled >= request,
                        late   |-> request <= cancelled])
  /\ callback' = FALSE
  /\ UNCHANGED <<listener, request, cancelled, clicked, screenVars>>

EditFocusCalls  == start \/ stop \/ \E n \in Nodes \cup {NoNode} : inspect(n)
EditFocusEvents ==
  \/ AppHandlesClick \/ FocusMoves \/ AppDies \/ event
  \/ \E id \in timers : Timer(id)

----------------------------------------------------------------------------
\* A listener that has heard everything has the field with the focus cached, or
\* nothing, or one that went away without a word.
CacheIsCurrent == listener /\ events = <<>> => focused \in {NoNode, realFocus} \cup defunct

\* Clicks are answered once and in order, never after a stop, and never before the
\* application had its 80 ms.  A keyboard is only asked for when the click is in the
\* editable field with the focus; and it is, if nothing is still under way.
AnswersSound ==
  /\ \A i, j \in DOMAIN answers : i < j => answers[i].id < answers[j].id
  /\ \A i \in DOMAIN answers :
       LET a == answers[i] IN
       /\ a.waited /\ ~a.late
       /\ a.active => a.truth
       /\ a.truth /\ a.certain => a.active \/ a.hidden
       /\ a.secure => a.active /\ clicked[a.id] \in Secure

EditFocusTypeOK ==
  /\ {listener, callback} \subseteq BOOLEAN
  /\ {focused, realFocus} \subseteq Nodes \cup {NoNode}
  /\ timers \subseteq {request} /\ handled <= Len(clicked)
=============================================================================
