------------------------ MODULE WindowsVirtualDisplay ------------------------
(***************************************************************************)
(* windows/virtual_display_control.cc: the Parsec virtual displays, the    *)
(* exclusive topology with its backup, and the switch of the interactive   *)
(* session to the console.                                                 *)
(*                                                                         *)
(* All of it runs on Flutter's platform thread, one method call at a time, *)
(* except ensureConsoleForDisplay, for which the plugin starts a worker    *)
(* per call; Initialize makes the same call on the platform thread.        *)
(* AddDisplay sleeps between enumerations, and Windows, the driver, the    *)
(* user and a game change the displays at any time.                        *)
(*                                                                         *)
(* A display is <<is_virtual, target id>>.  A configuration (the arrays of *)
(* QueryDisplayConfig and SetDisplayConfig) is a function from its active  *)
(* displays to their modes.                                                *)
(***************************************************************************)
EXTENDS Integers, FiniteSets, Sequences, SequencesExt

CONSTANTS
  VirtualTargets,    \* target ids of the driver's displays (256 + index)
  PhysicalTargets,   \* target ids of the physical monitors
  Workers,           \* threads of concurrent ensureConsoleForDisplay calls
  Attempts,          \* enumerations of AddDisplay (5 in the code)
  MaxDisplayCalls,   \* bound: method calls
  MaxEvents          \* bound: events of the user, of Windows and of a game

ASSUME TargetsAssumption ==
  /\ VirtualTargets \subseteq 256 .. 271
  /\ PhysicalTargets \subseteq 0 .. 255
  /\ IsFiniteSet(VirtualTargets) /\ IsFiniteSet(PhysicalTargets)

ASSUME DisplayBoundsAssumption ==
  /\ Attempts \in Nat \ {0} /\ MaxDisplayCalls \in Nat /\ MaxEvents \in Nat
  /\ "platform" \notin Workers /\ "none" \notin Workers

VARIABLES
  \* the plugin's static members
  initialized, displays, backup, adding, displayCalls,
  \* displays as the driver and Windows have them
  plugged, seen, active, db, late, events,
  \* sessions, callers of EnsureConsoleForDisplay, running tscon processes
  place, step, holder, tscons,
  \* what the properties remember
  before, exclusive, drift, changed

plugin  == <<initialized, displays, backup, adding>>
screens == <<plugged, seen, active, db, late>>
console == <<place, step, holder, tscons>>
ghosts  == <<before, exclusive, drift, changed>>
displayVars == <<plugin, screens, console, ghosts, displayCalls, events>>

Displays == ({TRUE} \X VirtualTargets) \cup ({FALSE} \X PhysicalTargets)
Modes    == {"desk", "game"}
Sessions == {"ours", "other"}
Callers  == Workers \cup {"platform"}
None     == <<>>    \* no display active; also no backup, nothing under way

\* Entries of displays_ and of Windows' own list: a display and the name
\* of its adapter (\\.\DISPLAYn), which Windows gives again once it is free.
Names == 1 .. Cardinality(Displays)
Entry == [display : Displays, name : Names]
Shown(list) == {list[i].display : i \in DOMAIN list}

Configs == UNION {[S -> Modes] : S \in SUBSET Displays}
Only(config, S) == [d \in DOMAIN config \cap S |-> config[d]]

\* A virtual display is known by its driver index, a physical one by its
\* target id moved out of the way of those.
\* Mutant: a physical display keeps its target id.
UidWithoutOffset(d) == IF d[1] THEN d[2] - 256 ELSE d[2]
Uid(d) == IF d[1] THEN d[2] - 256 ELSE d[2] + 1024

---------------------------------------------------------------------------
(* Windows *)

\* What the process enumerates: the driver's and the physical displays
\* belong to the console session.
Visible == IF place["ours"] = "console" THEN seen ELSE <<>>

FreeName == CHOOSE n \in Names :
              /\ \A i \in DOMAIN seen : seen[i].name # n
              /\ \A m \in Names : m < n => \E i \in DOMAIN seen : seen[i].name = m

\* A configuration with more displays; those that were off get the usual mode.
With(config, S) == [d \in DOMAIN config \cup S |->
                      IF d \in DOMAIN config THEN config[d] ELSE "desk"]
AllOn(S) == [d \in S |-> "desk"]

\* Windows enumerates a plugged display, and may or may not make it part of
\* the desktop.
Arrive(d) ==
  /\ d \notin Shown(seen)
  /\ seen' = Append(seen, [display |-> d, name |-> FreeName])
  /\ \E on \in BOOLEAN :
       /\ active = None => on
       /\ active' = IF on THEN With(active, {d}) ELSE active
       /\ db' = IF on THEN With(db, {d}) ELSE db
       /\ exclusive' = IF on THEN None ELSE exclusive

\* A display is gone: the desktop is what is left of it, or everything.
Depart(d) ==
  /\ \E i \in DOMAIN seen : seen[i].display = d /\ seen' = RemoveAt(seen, i)
  /\ LET rest == Shown(seen) \ {d}
         left(config) == IF DOMAIN config \cap rest = {} THEN AllOn(rest)
                                                         ELSE Only(config, rest)
     IN active' = left(active) /\ db' = left(db)
  /\ drift' = (drift \/ d \in Shown(displays))
  /\ exclusive' = IF exclusive = d THEN None ELSE exclusive

VirtualArrives ==
  /\ \E d \in plugged : Arrive(d)
  /\ UNCHANGED <<plugin, plugged, late, console, before, drift, changed, displayCalls, events>>

VirtualDeparts ==
  /\ \E d \in Displays \ plugged : d[1] /\ Depart(d)
  /\ UNCHANGED <<plugin, plugged, late, console, before, changed, displayCalls, events>>

Event ==
  /\ events < MaxEvents
  /\ events' = events + 1
  /\ UNCHANGED <<plugin, plugged, displayCalls>>

MonitorPlugged ==
  /\ Event
  /\ \E d \in Displays : ~d[1] /\ Arrive(d)
  /\ UNCHANGED <<late, console, before, drift, changed>>

MonitorUnplugged ==
  /\ Event
  /\ \E d \in Displays : ~d[1] /\ Depart(d)
  /\ UNCHANGED <<late, console, before, changed>>

\* A game changes the mode of a display for as long as it is full-screen;
\* when it ends, Windows loads what its database has.
GameStarts ==
  /\ Event
  /\ \E d \in DOMAIN active : active' = [active EXCEPT ![d] = "game"]
  /\ UNCHANGED <<seen, db, late, console, ghosts>>

GameEnds ==
  /\ Event
  /\ active' = db
  /\ UNCHANGED <<seen, db, late, console, ghosts>>

\* SetDisplayConfig with SDC_ALLOW_CHANGES: displays that are gone are left
\* out, and it is an error if none remains.
CanApply(config) == DOMAIN config \cap Shown(seen) # {}

Applied(config, persist) ==
  /\ active' = Only(config, Shown(seen))
  /\ db' = IF persist THEN Only(config, Shown(seen)) ELSE db

\* The desktop service carries out a request whose answer was not awaited.
ServiceIsLate ==
  /\ late # <<>>
  /\ late' = Tail(late)
  /\ IF CanApply(Head(late).config)
     THEN Applied(Head(late).config, Head(late).persist)
     ELSE UNCHANGED <<active, db>>
  /\ exclusive' = None
  /\ UNCHANGED <<plugin, plugged, seen, console, before, drift, changed, displayCalls, events>>

---------------------------------------------------------------------------
(* Method calls on the platform thread *)

Call ==
  /\ displayCalls < MaxDisplayCalls
  /\ adding = None /\ step["platform"] = "idle"
  /\ displayCalls' = displayCalls + 1
  /\ UNCHANGED <<events, place, holder, tscons>>

\* GetAllDisplays: displays_ becomes what Windows enumerates, by arrival.
Enumerate ==
  /\ displays' = Visible
  /\ drift' = FALSE

\* getAllDisplays, getDisplayList and getDisplayConfigs.
GetAllDisplays ==
  /\ Call
  /\ Enumerate
  /\ UNCHANGED <<initialized, backup, adding, screens, step, before, exclusive, changed>>

\* Initialize first makes sure of the console, see EnsureConsoleForDisplay.
Initialize ==
  /\ Call
  /\ ~initialized
  /\ step' = [step EXCEPT !["platform"] = "want"]
  /\ UNCHANGED <<plugin, screens, ghosts>>

\* Then it opens the driver, which may be missing or disabled.
OpenDriver ==
  /\ step["platform"] = "ready"
  /\ step' = [step EXCEPT !["platform"] = "idle"]
  /\ \/ initialized' = TRUE /\ displays' = <<>> /\ drift' = FALSE
     \/ UNCHANGED <<initialized, displays, drift>>
  /\ UNCHANGED <<backup, adding, screens, place, holder, tscons, before, exclusive,
                 changed, displayCalls, events>>

\* AddDisplay: the driver plugs a display ...
AddDisplay ==
  /\ Call
  /\ initialized
  /\ \E d \in Displays \ plugged :
       /\ d[1]
       /\ plugged' = plugged \cup {d}
       /\ adding' = [display |-> d, prev |-> displays, attempt |-> 1]
  /\ UNCHANGED <<initialized, displays, backup, seen, active, db, late, step, ghosts>>

\* Mutant: any enumeration ends the wait.
AtLeast(count, prev) == count >= prev
MoreThan(count, prev) == count > prev

\* Mutant: one attempt too many.
LastAttemptOffByOne == adding.attempt > Attempts
LastAttempt == adding.attempt = Attempts

\* ... and the displays are enumerated until there are more than before.
AddDisplayPoll ==
  /\ adding # None
  /\ Enumerate
  /\ adding' = IF \/ MoreThan(Len(displays'), Len(adding.prev))
                  \/ LastAttempt
               THEN None ELSE [adding EXCEPT !.attempt = @ + 1]
  /\ UNCHANGED <<initialized, backup, screens, console, before, exclusive, changed,
                 displayCalls, events>>

\* The first of displays_ with the uid that the caller asks for.
Found(d) == \E i \in DOMAIN displays : Uid(displays[i].display) = Uid(d)
IndexOf(d) == CHOOSE i \in DOMAIN displays :
                /\ Uid(displays[i].display) = Uid(d)
                /\ \A j \in 1 .. i - 1 : Uid(displays[j].display) # Uid(d)

RemoveDisplay(d) ==
  /\ Call
  /\ initialized
  /\ Found(d) /\ displays[IndexOf(d)].display[1]
  /\ plugged' = plugged \ {displays[IndexOf(d)].display}
  /\ displays' = RemoveAt(displays, IndexOf(d))
  /\ UNCHANGED <<initialized, backup, adding, seen, active, db, late, step, ghosts>>

\* The visible displays whose adapter has the name kept for d.
Named(d) == {e.display : e \in {v \in Range(Visible) : v.name = displays[IndexOf(d)].name}}

\* CDS_UPDATEREGISTRY: the new mode is also the one of the database.
ChangeDisplaySettings(d) ==
  /\ Call
  /\ Found(d)
  /\ \E hit \in Named(d), m \in Modes :
       /\ changed' = [asked |-> d, hit |-> hit, drift |-> drift]
       /\ active' = IF hit \in DOMAIN active THEN [active EXCEPT ![hit] = m] ELSE active
       /\ db' = IF hit \in DOMAIN db THEN [db EXCEPT ![hit] = m] ELSE db
  /\ UNCHANGED <<plugin, plugged, seen, late, step, before, exclusive, drift>>

\* Duplicate and extend use every display, the other two a single one; only
\* extend asks for the result to be kept.
SetMultiDisplayMode ==
  /\ Call
  /\ place["ours"] = "console"
  /\ \/ /\ seen # <<>>
        /\ active' = Only(With(db, Shown(seen)), Shown(seen))
        /\ db' \in {db, active'}
     \/ \E d \in Shown(seen) : active' = AllOn({d}) /\ db' = db
  /\ exclusive' = None
  /\ UNCHANGED <<plugin, plugged, seen, late, step, before, drift, changed>>

---------------------------------------------------------------------------
(* The exclusive topology and its backup *)

\* Mutant: a second call takes a second backup.
NeverRefused == FALSE
SetRefused == backup # None

Backup == [persistent |-> db, original |-> active]

\* The path to keep: that of the active display with the name kept for d;
\* if there is none, or its name cannot be read, the one with d's position,
\* in an order of Windows' own.
Target(d, t) ==
  /\ t \in DOMAIN active
  /\ t \in Named(d) \/ IndexOf(d) <= Cardinality(DOMAIN active)

\* SDC_SAVE_TO_DATABASE is passed.
KeepInDatabase == TRUE

SetPrimaryDisplayOnly(d) ==
  /\ Call
  /\ ~SetRefused
  /\ place["ours"] = "console"
  /\ active # None /\ db # None
  /\ backup' = Backup
  /\ \/ \E t \in Displays :
          /\ Found(d) /\ Target(d, t)
          /\ Applied(Only(active, {t}), KeepInDatabase)
          /\ before' = IF before = None THEN Backup ELSE before
          /\ exclusive' = t
     \/ UNCHANGED <<active, db, before, exclusive>>    \* found or applied nothing
  /\ UNCHANGED <<initialized, displays, adding, plugged, seen, late, step, drift, changed>>

\* SetDisplayConfig was refused and the desktop service asked instead, and
\* no answer came in five seconds; or there was an error.
Unanswered(config, persist) ==
  late' \in {late, Append(late, [config |-> config, persist |-> persist])}

RestoreBoth ==
  /\ CanApply(backup.persistent) /\ CanApply(backup.original)
  /\ db' = Only(backup.persistent, Shown(seen))
  /\ active' = Only(backup.original, Shown(seen))
  /\ backup' = None
  /\ before' = None /\ exclusive' = None
  /\ late' = late

RestoreNothing ==
  /\ Unanswered(backup.persistent, TRUE)
  /\ UNCHANGED <<backup, active, db, before, exclusive>>

\* Mutant: the backup is given up after its first half.
RestorePersistentForgets ==
  /\ CanApply(backup.persistent)
  /\ Applied(backup.persistent, TRUE)
  /\ Unanswered(backup.original, FALSE)
  /\ exclusive' = None
  /\ backup' = None /\ before' = before

RestorePersistentOnly ==
  /\ CanApply(backup.persistent)
  /\ Applied(backup.persistent, TRUE)
  /\ Unanswered(backup.original, FALSE)
  /\ exclusive' = None
  /\ UNCHANGED <<backup, before>>

RestoreDisplayConfiguration ==
  /\ Call
  /\ backup # None
  /\ RestoreBoth \/ RestoreNothing \/ RestorePersistentOnly
  /\ UNCHANGED <<initialized, displays, adding, plugged, seen, step, drift, changed>>

\* Shutdown restores first, and keeps everything if that fails.
Shutdown ==
  /\ Call
  /\ initialized
  /\ \/ backup = None /\ UNCHANGED <<backup, active, db, before, exclusive, late>>
     \/ backup # None /\ RestoreBoth
  /\ plugged' = {}
  /\ initialized' = FALSE /\ displays' = <<>> /\ drift' = FALSE
  /\ UNCHANGED <<adding, seen, step, changed>>

---------------------------------------------------------------------------
(* Sessions and the console *)

HasActiveDisplay ==
  \/ place["ours"] = "rdp"
  \/ place["ours"] = "console" /\ active # None

\* A disconnected session of a user, whichever comes first; otherwise any.
TargetSessions ==
  LET users == {s \in Sessions : place[s] # "out"}
      disconnected == {s \in users : place[s] = "away"}
  IN IF disconnected # {} THEN disconnected ELSE users

HasActiveRdpSession == \E s \in Sessions : place[s] = "rdp"

\* A user connects to a session over RDP, disconnects, or signs in to the
\* other session at the console.
SessionEvent ==
  /\ Event
  /\ \E s \in Sessions :
       \/ place[s] # "rdp" /\ place' = [place EXCEPT ![s] = "rdp"]
       \/ place[s] = "rdp" /\ place' = [place EXCEPT ![s] = "away"]
       \/ /\ s = "other" /\ place[s] = "out"
          /\ \A r \in Sessions : place[r] # "console"
          /\ place' = [place EXCEPT ![s] = "console"]
  /\ UNCHANGED <<seen, active, db, late, step, holder, tscons, ghosts>>

\* The plugin starts a worker for the call.
EnsureConsoleForDisplay(w) ==
  /\ displayCalls < MaxDisplayCalls
  /\ step[w] = "idle"
  /\ displayCalls' = displayCalls + 1
  /\ step' = [step EXCEPT ![w] = "want"]
  /\ UNCHANGED <<plugin, screens, ghosts, events, place, holder, tscons>>

TakeSwitchMutex(c) ==
  /\ step[c] = "want"
  /\ holder = "none"
  /\ holder' = c
  /\ step' = [step EXCEPT ![c] = "check"]
  /\ UNCHANGED <<plugin, screens, ghosts, displayCalls, events, place, tscons>>

\* The answer only goes to the log in Initialize and to Dart otherwise.
Return(c) ==
  /\ holder' = "none"
  /\ step' = [step EXCEPT ![c] = IF c = "platform" THEN "ready" ELSE "idle"]

\* Nothing to do, or not to be done ...
CheckReturns(c) ==
  /\ step[c] = "check"
  /\ \/ HasActiveDisplay
     \/ TargetSessions = {}
     \/ \E s \in TargetSessions : place[s] = "console"
     \/ HasActiveRdpSession
  /\ Return(c)
  /\ UNCHANGED <<plugin, screens, ghosts, displayCalls, events, place, tscons>>

\* ... or tscon is started, or cannot be.
CheckSwitches(c) ==
  /\ step[c] = "check"
  /\ ~HasActiveDisplay /\ ~HasActiveRdpSession
  /\ \E s \in TargetSessions :
       /\ place[s] # "console"
       /\ \/ /\ tscons' = Append(tscons, [by |-> c, target |-> s])
             /\ step' = [step EXCEPT ![c] = "wait"]
             /\ UNCHANGED holder
          \/ Return(c) /\ UNCHANGED tscons
  /\ UNCHANGED <<plugin, screens, ghosts, displayCalls, events, place>>

\* tscon ends.  It has failed, or the target is now at the console, and
\* whoever was there, or connected over RDP, is not any more.
TsconEnds(i) ==
  /\ i \in DOMAIN tscons
  /\ tscons' = RemoveAt(tscons, i)
  /\ \/ place' = [s \in Sessions |-> IF s = tscons[i].target THEN "console"
                                     ELSE IF place[s] = "out" THEN "out" ELSE "away"]
     \/ UNCHANGED place
  /\ IF tscons[i].by = "none" THEN UNCHANGED <<step, holder>> ELSE Return(tscons[i].by)
  /\ UNCHANGED <<plugin, screens, ghosts, displayCalls, events>>

\* Mutant: no time limit on the wait for tscon.
WaitsForever(c) == FALSE /\ UNCHANGED displayVars

\* After ten seconds the caller waits no longer; tscon is left running.
WaitTimesOut(c) ==
  /\ step[c] = "wait"
  /\ tscons' = [i \in DOMAIN tscons |->
                  IF tscons[i].by = c THEN [tscons[i] EXCEPT !.by = "none"] ELSE tscons[i]]
  /\ Return(c)
  /\ UNCHANGED <<plugin, screens, ghosts, displayCalls, events, place>>

---------------------------------------------------------------------------
(* Specification *)

DisplayInit ==
  /\ initialized = FALSE /\ displays = <<>> /\ backup = None /\ adding = None
  /\ displayCalls = 0 /\ events = 0
  /\ plugged = {} /\ late = <<>>
  /\ \E S \in SUBSET PhysicalTargets :
       /\ active = AllOn({FALSE} \X S) /\ db = active
       /\ seen = SetToSeq({[display |-> <<FALSE, t>>,
                            name |-> Cardinality({u \in S : u <= t})] : t \in S})
  /\ place \in {p \in [Sessions -> {"console", "away", "out"}] :
                  p["ours"] # "out" /\ p["other"] = "out"}
  /\ step = [c \in Callers |-> "idle"] /\ holder = "none" /\ tscons = <<>>
  /\ before = None /\ exclusive = None /\ drift = FALSE /\ changed = None

Platform ==
  \/ GetAllDisplays \/ Initialize \/ OpenDriver \/ AddDisplay \/ AddDisplayPoll
  \/ \E d \in Displays :
       RemoveDisplay(d) \/ ChangeDisplaySettings(d) \/ SetPrimaryDisplayOnly(d)
  \/ SetMultiDisplayMode \/ RestoreDisplayConfiguration \/ Shutdown

EnsureStep(c) ==
  TakeSwitchMutex(c) \/ CheckReturns(c) \/ CheckSwitches(c) \/ WaitTimesOut(c)

Windows ==
  \/ VirtualArrives \/ VirtualDeparts \/ MonitorPlugged \/ MonitorUnplugged
  \/ GameStarts \/ GameEnds \/ ServiceIsLate \/ SessionEvent
  \/ \E i \in DOMAIN tscons : TsconEnds(i)

DisplayNext ==
  \/ Platform \/ Windows
  \/ \E w \in Workers : EnsureConsoleForDisplay(w)
  \/ \E c \in Callers : EnsureStep(c)

DisplaySpec == DisplayInit /\ [][DisplayNext]_displayVars

\* Threads run and waits end; nothing is assumed of tscon, Windows, the user
\* or the caller.  A mutex that is released again and again is had in the end.
DisplayFairSpec ==
  /\ DisplaySpec
  /\ WF_displayVars(OpenDriver) /\ WF_displayVars(AddDisplayPoll)
  /\ \A c \in Callers :
       /\ SF_displayVars(TakeSwitchMutex(c))
       /\ WF_displayVars(CheckReturns(c) \/ CheckSwitches(c))
       /\ WF_displayVars(WaitTimesOut(c))

---------------------------------------------------------------------------
(* Properties *)

\* Type correctness; Windows' list names each display and each adapter once,
\* and AddDisplay polls no more often than it may.
DisplayTypeOK ==
  /\ initialized \in BOOLEAN /\ drift \in BOOLEAN
  /\ adding # None => adding.attempt \in 1 .. Attempts
  /\ displays \in Seq(Entry) /\ seen \in Seq(Entry)
  /\ \A i, j \in DOMAIN seen : i # j => /\ seen[i].name # seen[j].name
                                       /\ seen[i].display # seen[j].display
  /\ active \in Configs /\ db \in Configs
  /\ DOMAIN active \subseteq Shown(seen) /\ DOMAIN db \subseteq Shown(seen)
  /\ \A c \in {backup, before} \ {None} : c.persistent \in Configs /\ c.original \in Configs
  /\ plugged \subseteq Displays
  /\ \A s \in Sessions : place[s] \in {"console", "rdp", "away", "out"}
  /\ \A c \in Callers : step[c] \in {"idle", "want", "check", "wait", "ready"}
  /\ holder \in Callers \cup {"none"}

\* A restore that succeeds (RestoreDisplayConfiguration, also from Shutdown)
\* brings back what the desktop was before the exclusive topology: Windows'
\* database and the modes then active, however many calls failed, were
\* refused or half succeeded in between.
RestoreBringsBack ==
  [][before # None /\ before' = None =>
       /\ db' = Only(before.persistent, Shown(seen))
       /\ active' = Only(before.original, Shown(seen))]_displayVars

\* As long as the exclusive topology was not undone, has_backup_ holds and
\* the backup is the desktop of before: a failed restore can be repeated.
ExclusiveCanBeUndone == before # None => backup = before

\* An exclusive display stays the only one when a game leaves full-screen
\* and Windows loads its database, until a display comes or goes or another
\* call, or the service, changes the topology.
ExclusiveSurvivesGame ==
  exclusive # None => DOMAIN active = {exclusive} /\ DOMAIN db = {exclusive}

\* ChangeDisplaySettings changes the display whose uid it was given, unless
\* one that displays_ lists was unplugged since it was enumerated: adapter
\* names are used again, and uids of two displays never coincide.
ChangeHitsRequested ==
  changed # None /\ ~changed.drift => changed.hit = changed.asked

\* "Retry until it becomes visible" (AddDisplay): if it stops before its last
\* attempt the new display is among the enumerated ones, provided every other one
\* was in displays_ when it began.  Without the proviso it is not so: Initialize leaves
\* displays_ empty, and a physical monitor then looks like the new display.
CreatedIsListed ==
  [][(/\ adding # None /\ adding' = None
      /\ Shown(displays') \subseteq Shown(adding.prev) \cup {adding.display}
      /\ adding.attempt < Attempts) => adding.display \in Shown(displays')]_displayVars

\* The exclusive topology lasts until it is undone and can be undone, and a change of
\* settings hits the display it names.
DisplaysSound == ExclusiveCanBeUndone /\ ExclusiveSurvivesGame /\ ChangeHitsRequested

\* A call that succeeds had its effect: what was before the exclusive topology is back,
\* the display that was added is listed.
CallsTakeEffect == RestoreBringsBack /\ CreatedIsListed

\* What EnsureConsoleForDisplay's comment says ("at most one tscon
\* console-switch at a time").
OneTsconAtATime == Len(tscons) <= 1

\* Every ensureConsoleForDisplay, Initialize and AddDisplay returns, even if
\* tscon never ends and the display is never enumerated.
CallsReturn ==
  /\ \A c \in Callers : step[c] # "idle" ~> step[c] = "idle"
  /\ adding # None ~> adding = None

=============================================================================
