------------------------ MODULE WindowsDisplaySettings ------------------------
(***************************************************************************)
(* Two settings of the Windows plugin that outlive a call: the custom      *)
(* resolutions of the Parsec driver, which live in the registry and are    *)
(* written by the desktop service or, when it does not answer, by the      *)
(* plugin itself; and the orientation of a display, of which displays_ has *)
(* a copy.  Calls run on the platform thread; the service may carry out a  *)
(* request after its answer is no longer awaited, and the user may rotate  *)
(* the display.                                                            *)
(***************************************************************************)
EXTENDS Naturals, Sequences

CONSTANTS
  Valid, Invalid,   \* resolutions; one with a zero in it is invalid
  NSlots,           \* subkeys of the driver's registry key (5)
  MaxLate           \* bound on requests the service has yet to carry out

Empty    == "empty"
Unlisted == 4
NoList   == <<Empty>>
Configs  == Valid \cup Invalid
Lists    == UNION {[1 .. n -> Configs] : n \in 0 .. NSlots + 1}

ASSUME SettingsAssumption ==
  /\ NSlots \in Nat \ {0} /\ MaxLate \in Nat
  /\ Valid \cap Invalid = {} /\ Empty \notin Configs

VARIABLES
  slots,                 \* the driver's registry subkeys; Empty is no subkey
  late,                  \* requests that the service has yet to carry out
  kept,                  \* the list last set with success
  overtaken,             \* the service wrote after that
  orientation,           \* the display's
  turned,                \* since it was listed, a call swapped its width and height by mistake
  current_orientation_,  \* the copy in displays_; Unlisted before the first enumeration
  rotated                \* the user rotated the display since it was copied

configVars      == <<slots, late, kept, overtaken>>
orientationVars == <<orientation, turned, current_orientation_, rotated>>
settingsVars    == <<configVars, orientationVars>>

SettingsInit ==
  /\ slots = [i \in 1 .. NSlots |-> Empty] /\ late = <<>> /\ kept = NoList /\ overtaken = FALSE
  /\ orientation \in 0 .. 3 /\ turned = FALSE /\ current_orientation_ = Unlisted /\ rotated = FALSE

----------------------------------------------------------------------------
(* Custom resolutions.                                                     *)

\* Mutant: subkeys past the end of the list stay.
StoredOver(list) == [i \in 1 .. NSlots |-> IF i <= Len(list) THEN list[i] ELSE slots[i]]
Stored(list)     == [i \in 1 .. NSlots |-> IF i <= Len(list) THEN list[i] ELSE Empty]

\* What GetCustomDisplayConfigs returns, from the service or from the registry.
GetCustomDisplayConfigs ==
  LET upTo[i \in 0 .. NSlots] ==
        IF i = 0 THEN <<>>
        ELSE IF slots[i] = Empty THEN upTo[i - 1] ELSE Append(upTo[i - 1], slots[i])
  IN  upTo[NSlots]

\* SetCustomDisplayConfigs of VirtualDisplayControl, from the subkeys s: it stops at
\* the first subkey it cannot write and leaves the ones before it written.
WriteSubkeys(s, list) ==
  \/ slots' = Stored(list) /\ kept' = list
  \/ /\ \E k \in {1} \cup (DOMAIN list \cap 1 .. NSlots) :
          slots' = [i \in 1 .. NSlots |-> IF i < k THEN list[i] ELSE s[i]]
     /\ kept' = NoList

\* ExchangeRawLocked, over a connection of its own: an answer, or none in time; the
\* service may then have done the request, may do it later, or never.
ServiceTakes(list) == Len(list) <= NSlots /\ \A i \in DOMAIN list : list[i] \in Valid

ServiceAnswers(list) ==
  /\ ServiceTakes(list)
  /\ \/ slots' = Stored(list) /\ kept' = list
     \/ slots' = slots /\ kept' = NoList
  /\ UNCHANGED late

NoAnswer(list) ==
  \/ WriteSubkeys(slots, list) /\ UNCHANGED late
  \/ /\ ServiceTakes(list)
     /\ \/ WriteSubkeys(Stored(list), list) /\ UNCHANGED late
        \/ Len(late) < MaxLate /\ WriteSubkeys(slots, list) /\ late' = Append(late, list)

SetCustomDisplayConfigs(list) ==
  /\ ServiceAnswers(list) \/ NoAnswer(list)
  /\ overtaken' = FALSE
  /\ UNCHANGED orientationVars

ServiceCatchesUp ==
  /\ late # <<>> /\ late' = Tail(late)
  /\ slots' = Stored(Head(late)) /\ overtaken' = TRUE
  /\ UNCHANGED <<kept, orientationVars>>

----------------------------------------------------------------------------
(* Orientation: 0 landscape, 1 portrait, 2 and 3 the same upside down.      *)

IsPortrait(o) == o \in {1, 3}

FetchAllDisplayConfigs == current_orientation_' = orientation /\ rotated' = FALSE /\ turned' = FALSE

\* GetDetailedDisplayList (which enumerates) and GetDisplayConfigs of a listed display.
ListDisplay == FetchAllDisplayConfigs /\ UNCHANGED <<configVars, orientation>>

\* Mutant: the copy is left as it was.
NotNoted(o) == current_orientation_
Noted(o)    == o

\* SetDisplayOrientation: nothing if the copy says so already.  Width and height of
\* the present mode are swapped if copy and request differ in being portrait, which is
\* wrong if the copy is; Windows may refuse what it is asked for.
SetDisplayOrientation(o) ==
  /\ current_orientation_ # Unlisted
  /\ \/ /\ current_orientation_ # o
        /\ orientation' = o
        /\ turned' = (turned \/ IsPortrait(current_orientation_) # IsPortrait(orientation))
        /\ current_orientation_' = Noted(o)
     \/ UNCHANGED <<orientation, turned, current_orientation_>>
  /\ UNCHANGED <<configVars, rotated>>

UserRotates ==
  /\ orientation' \in 0 .. 3
  /\ rotated' = (rotated \/ orientation' # orientation)
  /\ UNCHANGED <<configVars, turned, current_orientation_>>

ConfigCalls      == \E list \in Lists : SetCustomDisplayConfigs(list)
OrientationCalls == ListDisplay \/ \E o \in 0 .. 3 : SetDisplayOrientation(o)

----------------------------------------------------------------------------
SettingsTypeOK ==
  /\ slots \in [1 .. NSlots -> Configs \cup {Empty}] /\ Len(late) <= MaxLate
  /\ orientation \in 0 .. 3 /\ current_orientation_ \in 0 .. Unlisted
  /\ {overtaken, turned, rotated} \subseteq BOOLEAN

\* A list that was set with success is the one that is read, as far as the driver has
\* subkeys for it, until the next call: not what an earlier list, a refusal or a
\* half-done write left.  Only a request that the service carries out late overtakes it.
KeptIsRead ==
  kept # NoList /\ ~overtaken =>
    GetCustomDisplayConfigs = SubSeq(kept, 1, IF Len(kept) < NSlots THEN Len(kept) ELSE NSlots)

\* Unless the user rotates the display behind the copy's back, the copy is right, and
\* turning the display any number of times never changes its resolution.
CopyIsRight ==
  /\ current_orientation_ \in {orientation, Unlisted} \/ rotated
  /\ turned => rotated

\* What SetCustomDisplayConfigs and SetDisplayOrientation report as done is so.
SettingsSound == KeptIsRead /\ CopyIsRight
=============================================================================
