--------------------------------- MODULE Remote ---------------------------------
(***************************************************************************)
(* The remote control and everything that reads it: the choice of the      *)
(* server, the question whether to wake the VDR up, message boxes, the     *)
(* event loop that forwards keys to the VDR, and the menu of the power     *)
(* button.  One thread, main, reads, but in five places, each with a rule  *)
(* of its own for presses, repeats and releases; the events of a key that  *)
(* is held while the place changes are read partly here and partly there.  *)
(* What the places remember of a key is in static variables: count and     *)
(* rc_last_key of cMenu::GetRCCode, keypress_count of fbvnc_get_event.     *)
(***************************************************************************)
EXTENDS Integers, Sequences, FiniteSetsExt

CONSTANTS
  Keys,        \* the keys that are used, among those named below
  NServers,    \* servers in vdr.conf
  VolumeTop,   \* 100, in steps of 5
  VolumeStep,
  UseLirc,     \* use_lirc, of neutrino.conf
  MaxInput     \* bound on the events that wait to be read

ASSUME ParameterAssumption ==
  /\ NServers \in Nat \ {0} /\ VolumeTop \in Nat /\ VolumeStep \in 1..VolumeTop
  /\ UseLirc \in BOOLEAN /\ MaxInput \in Nat \ {0}
  /\ "none" \notin Keys

\* The places: the choice of the server, waiting for the VDR, the question, a
\* message box, the handshake, the event loop, the menu; and the end.
Modes == {"servers", "connect", "ask", "handshake", "loop", "menu", "fatal", "ended"}

VARIABLES
  held,             \* the key the user holds, or "none"
  input,            \* events not yet read: [key, value], value 1 press, 2 repeat, 0 release
  mode,
  sel,              \* the selected line of the server list
  due,              \* ten seconds have passed since the question
  menu,             \* the power menu: the selected item, the lit ones, what opened it
  count, rc_last_key,
  keypress_count,   \* 2 stands for more
  controld,         \* volume and mute of the box
  flags,            \* g_bResync and g_bLcdInfo
  last,             \* history: the press read last, until its release is: where,
                    \* its repeats, how often the key was sent
  closer            \* history: the key that closed the last dialog, until a dialog
                    \* reads its release

vars == <<held, input, mode, sel, due, menu, count, rc_last_key, keypress_count,
          controld, flags, last, closer>>

REPEAT_TIMER == 3

\* The items of the menu as PowerButtonMenu adds them; a cMenuSeparatorItem
\* cannot be selected.
cMenuSelItem(v) == [value |-> v, selectable |-> TRUE]
cMenuSeparatorItem == [value |-> "None", selectable |-> FALSE]
Items ==
  <<cMenuSelItem("ViewerClose"), cMenuSelItem("VdrShutdown"), cMenuSeparatorItem,
    cMenuSelItem("Resync"), cMenuSelItem("ToggleLCD")>>

NoMenu == [item |-> 1, lit |-> {}, opener |-> 0]

NoPress == [key |-> "none", by |-> "none", repeats |-> 0, sent |-> 0]

\* A single server is not asked for; without vdr.conf there is only a message.
Init ==
  /\ held = "none" /\ input = << >>
  /\ mode \in {IF NServers = 1 THEN "connect" ELSE "servers", "fatal"}
  /\ sel = 1 /\ due = TRUE
  /\ menu = NoMenu
  /\ count = 0 /\ rc_last_key = "none" /\ keypress_count = 0
  /\ controld \in [volume : {0, VolumeTop}, muted : {FALSE}]
  /\ flags = [resync |-> FALSE, lcdInfo |-> FALSE]
  /\ last = NoPress
  /\ closer = "none"

--------------------------------------------------------------------------------
(***************************************************************************)
(* The user, one key at a time; a key that is held repeats.                *)
(***************************************************************************)
UserKeeps ==
  UNCHANGED <<mode, sel, due, menu, count, rc_last_key, keypress_count, controld,
              flags, last, closer>>

Event(k, v) ==
  /\ mode # "ended" /\ Len(input) < MaxInput
  /\ input' = Append(input, [key |-> k, value |-> v])
  /\ UserKeeps

Press(k) == held = "none" /\ held' = k /\ Event(k, 1)
Repeat == held # "none" /\ UNCHANGED held /\ Event(held, 2)
Release == held # "none" /\ held' = "none" /\ Event(held, 0)

--------------------------------------------------------------------------------
(***************************************************************************)
(* Reading an event, in the mode m.                                        *)
(***************************************************************************)
\* The history after the event e, sent to the VDR n times.
Least(a, b) == IF a <= b THEN a ELSE b

Heard(e, n) ==
  CASE e.value = 1 -> [key |-> e.key, by |-> mode, repeats |-> 0, sent |-> n]
    [] e.value = 2 -> [last EXCEPT !.repeats = Least(@ + 1, 4), !.sent = Least(@ + n, 3)]
    [] e.value = 0 -> NoPress

Reads(m) ==
  /\ mode = m /\ input # << >>
  /\ input' = Tail(input)
  /\ UNCHANGED held

\* Of an event that is not for the VDR.
ReadsFor(m) == Reads(m) /\ last' = Heard(Head(input), 0)

\* cMenu::GetRCCode: a release has no code, and a key that comes again has none
\* for REPEAT_TIMER times.
Swallowed(e) == e.key = rc_last_key /\ count < REPEAT_TIMER

RcCode(e) == IF e.value = 0 \/ Swallowed(e) THEN "none" ELSE e.key

Closer(k) ==
  IF k \in {"ok", "home"} THEN k
  ELSE IF Head(input) = [key |-> closer, value |-> 0] THEN "none" ELSE closer

\* Mutant: a release starts the count anew, and leaves the key.
GetRCCodeRestarts(e) ==
  /\ count' = IF e.value = 0 \/ e.key # rc_last_key THEN 0
              ELSE Least(count + 1, REPEAT_TIMER)
  /\ rc_last_key' = IF e.value = 0 THEN rc_last_key ELSE e.key

\* Mutant: a release is not noted.
GetRCCodeForgets(e) ==
  /\ count' = IF e.value = 0 THEN count
              ELSE IF e.key # rc_last_key THEN 0
              ELSE Least(count + 1, REPEAT_TIMER)
  /\ rc_last_key' = IF e.value = 0 THEN rc_last_key ELSE e.key

GetRCCode(e) ==
  /\ count' = IF e.value = 0 THEN count
              ELSE IF e.key # rc_last_key THEN 0
              ELSE Least(count + 1, REPEAT_TIMER)
  /\ rc_last_key' = IF e.value = 0 THEN "none" ELSE e.key

--------------------------------------------------------------------------------
(***************************************************************************)
(* selectServer and MessageBox: they read the events themselves.           *)
(***************************************************************************)
SelectServer ==
  /\ ReadsFor("servers")
  /\ LET k == IF Head(input).value = 1 THEN Head(input).key ELSE "none" IN
     /\ sel' = CASE k = "up" /\ sel > 1 -> sel - 1
                 [] k = "down" /\ sel < NServers -> sel + 1
                 [] OTHER -> sel
     /\ mode' = CASE k = "ok" -> "connect" [] k = "home" -> "ended" [] OTHER -> mode
  /\ UNCHANGED <<due, menu, count, rc_last_key, keypress_count, controld, flags, closer>>

\* It is left when the Home key is released.
MessageBox ==
  /\ ReadsFor("fatal")
  /\ mode' = IF Head(input).key = "home" /\ Head(input).value = 0 THEN "ended" ELSE "fatal"
  /\ UNCHANGED <<sel, due, menu, count, rc_last_key, keypress_count, controld, flags, closer>>

--------------------------------------------------------------------------------
(***************************************************************************)
(* Waiting for the VDR: ConnectToRFBServer, again and again; MsgBox every  *)
(* ten seconds.                                                            *)
(***************************************************************************)
ConnectKeeps ==
  UNCHANGED <<held, input, sel, menu, count, rc_last_key, keypress_count, controld,
              flags, last, closer>>

Connected == mode = "connect" /\ mode' = "handshake" /\ UNCHANGED due /\ ConnectKeeps

\* Refused: the question, or a second of sleep.
Refused ==
  /\ mode = "connect"
  /\ \/ due /\ mode' = "ask" /\ UNCHANGED due
     \/ ~ due /\ due' \in BOOLEAN /\ UNCHANGED mode
  /\ ConnectKeeps

\* OK wakes the VDR up, Home ends the viewer.
MsgBox ==
  /\ ReadsFor("ask")
  /\ GetRCCode(Head(input))
  /\ LET k == RcCode(Head(input)) IN
     /\ mode' = CASE k = "ok" -> "connect" [] k = "home" -> "ended" [] OTHER -> "ask"
     /\ due' = (k # "ok")
     /\ closer' = Closer(k)
  /\ UNCHANGED <<sel, menu, keypress_count, controld, flags>>

\* The handshake, the encodings, the scale: a failure of the first two is
\* shown in a message box, of the last not.
Initialise ==
  /\ mode = "handshake"
  /\ mode' \in {"loop", "fatal", "ended"}
  /\ UNCHANGED due /\ ConnectKeeps

--------------------------------------------------------------------------------
(***************************************************************************)
(* fbvnc_get_event: the keys that are for the box, for the VDR and for the *)
(* menu.                                                                   *)
(***************************************************************************)
\* g_iIsAC3 is the player's, and may be anything at each of its reads.
Lirc == {TRUE} \cup (IF UseLirc THEN {} ELSE {FALSE})

\* Mutant: the ends of the scale are taken one step further out.
VolumeOver(k, v) ==
  IF k = "volumeup"
  THEN IF v > VolumeTop THEN VolumeTop ELSE v + VolumeStep
  ELSE IF v < 0 THEN 0 ELSE v - VolumeStep

\* What a key makes of the volume v.
Volume(k, v) ==
  IF k = "volumeup"
  THEN IF v > VolumeTop - VolumeStep THEN VolumeTop ELSE v + VolumeStep
  ELSE IF v < VolumeStep THEN 0 ELSE v - VolumeStep

VolumeKeys == {"volumeup", "volumedown"}

\* With LIRC the amplifier is told instead, which keeps its own volume.
VolumeKey ==
  /\ ReadsFor("loop")
  /\ LET e == Head(input) IN
     /\ e.key \in VolumeKeys
     /\ \E lirc \in Lirc :
          controld' = IF e.value = 0 \/ lirc THEN controld
                      ELSE [controld EXCEPT !.volume = Volume(e.key, @)]
  /\ UNCHANGED <<mode, sel, due, menu, count, rc_last_key, keypress_count, flags, closer>>

MuteKey ==
  /\ ReadsFor("loop")
  /\ LET e == Head(input) IN
     /\ e.key = "mute"
     /\ \E lirc \in Lirc :
          controld' = IF e.value # 1 \/ lirc THEN controld
                      ELSE [controld EXCEPT !.muted = ~ @]
  /\ UNCHANGED <<mode, sel, due, menu, count, rc_last_key, keypress_count, flags, closer>>

\* Mutant: the count goes on over presses and releases.
KeypressCountKept(e) == IF e.value = 2 THEN Least(keypress_count + 1, 2) ELSE keypress_count

\* The first two repeats of a key are held back; sending one does not count.
KeypressCount(e) ==
  IF e.value # 2 THEN 0
  ELSE IF keypress_count > 1 THEN keypress_count ELSE keypress_count + 1

Sends(e) == IF e.value = 1 \/ (e.value = 2 /\ keypress_count > 1) THEN 1 ELSE 0

Forwarded(k) == k \notin VolumeKeys \cup {"mute", "power", "none"}

ForwardKey ==
  /\ Reads("loop")
  /\ LET e == Head(input) IN
     /\ Forwarded(e.key)
     /\ last' = Heard(e, Sends(e))
     /\ keypress_count' = KeypressCount(e)
  /\ UNCHANGED <<mode, sel, due, menu, count, rc_last_key, controld, flags, closer>>

\* HandleMenu: the power button opens the menu with a repeat or with its release.
PowerKey ==
  /\ ReadsFor("loop")
  /\ LET e == Head(input) IN
     /\ e.key = "power"
     /\ IF e.value = 1
        THEN UNCHANGED <<mode, menu>>
        ELSE mode' = "menu" /\ menu' = [item |-> 1, lit |-> {1}, opener |-> e.value]
  /\ UNCHANGED <<sel, due, count, rc_last_key, keypress_count, controld, flags, closer>>

\* The player has seen g_bResync; the server has closed the connection.
PlayerResyncs ==
  /\ flags.resync
  /\ flags' = [flags EXCEPT !.resync = FALSE]
  /\ UNCHANGED <<held, input, mode, sel, due, menu, count, rc_last_key,
                 keypress_count, controld, last, closer>>

ConnectionLost == mode = "loop" /\ mode' = "ended" /\ UNCHANGED due /\ ConnectKeeps

--------------------------------------------------------------------------------
(***************************************************************************)
(* cMenu::Show, ProcessKey and PowerButtonMenu.                            *)
(***************************************************************************)
\* Mutant: a separator is not skipped.
NextItemPlain(k, i) ==
  CASE k = "up" /\ i > 1 -> i - 1
    [] k = "down" /\ i < Len(Items) -> i + 1
    [] OTHER -> i

\* The item RC_UP or RC_DOWN goes to from i: the next that can be selected, or i.  This
\* is what the loop means to do below the last one; it looks at the item after it
\* before it tests that there is none (viewermenu.cpp:677), and what it finds there
\* is not modelled.
NextItem(k, i) ==
  LET there == {j \in DOMAIN Items : Items[j].selectable}
      above == {j \in there : j < i}
      below == {j \in there : j > i}
  IN CASE k = "up" /\ above # {} -> Max(above)
       [] k = "down" /\ below # {} -> Min(below)
       [] OTHER -> i

\* The old item is drawn anew without the mark, then the new one with it.
MoveMark(i) ==
  menu' = [menu EXCEPT !.item = i, !.lit = (@ \ {menu.item}) \cup {i}]

MenuKey(k) ==
  /\ ReadsFor("menu")
  /\ GetRCCode(Head(input))
  /\ k = RcCode(Head(input))
  /\ UNCHANGED <<sel, due>>

MenuMove ==
  /\ \E k \in Keys \cup {"none"} :
       /\ k \notin {"ok", "home"}
       /\ MenuKey(k)
       /\ MoveMark(NextItem(k, menu.item))
       /\ closer' = Closer(k)
  /\ UNCHANGED <<mode, keypress_count, controld, flags>>

\* Home closes the menu without a choice.
MenuHome ==
  /\ MenuKey("home")
  /\ mode' = "loop" /\ menu' = NoMenu /\ closer' = Closer("home")
  /\ UNCHANGED <<keypress_count, controld, flags>>

\* OK chooses.  "VDR ausschalten" leaves the event of the power button to the
\* code that forwards keys.
MenuOk ==
  /\ MenuKey("ok")
  /\ LET choice == Items[menu.item].value IN
     /\ mode' = IF choice = "ViewerClose" THEN "ended" ELSE "loop"
     /\ flags' = CASE choice = "Resync" -> [flags EXCEPT !.resync = TRUE]
                   [] choice = "ToggleLCD" -> [flags EXCEPT !.lcdInfo = ~ @]
                   [] OTHER -> flags
     /\ keypress_count' = IF choice # "VdrShutdown" THEN keypress_count
                          ELSE KeypressCount([key |-> "power", value |-> menu.opener])
  /\ menu' = NoMenu /\ closer' = Closer("ok")
  /\ UNCHANGED controld

--------------------------------------------------------------------------------
User == (\E k \in Keys : Press(k)) \/ Repeat \/ Release

Reading ==
  \/ SelectServer \/ MessageBox \/ MsgBox
  \/ VolumeKey \/ MuteKey \/ ForwardKey \/ PowerKey
  \/ MenuMove \/ MenuHome \/ MenuOk

Next ==
  \/ User \/ Reading
  \/ Connected \/ Refused \/ Initialise \/ ConnectionLost \/ PlayerResyncs

Spec == Init /\ [][Next]_vars

\* Main reads whenever there is something to read.  Of the user: he lets go of
\* every key, and presses Home again and again.
FairSpec == Spec /\ WF_vars(Reading) /\ SF_vars(Release) /\ SF_vars(Press("home"))

--------------------------------------------------------------------------------
(***************************************************************************)
(* Properties.                                                             *)
(***************************************************************************)
Events == [key : Keys, value : 0..2]
Menus == [item : DOMAIN Items, lit : SUBSET DOMAIN Items, opener : 0..2]
Volumes == [volume : 0..VolumeTop, muted : BOOLEAN]
Flags == [resync : BOOLEAN, lcdInfo : BOOLEAN]
Histories ==
  [key : Keys \cup {"none"}, by : Modes \cup {"none"}, repeats : 0..4, sent : 0..3]

TypeOK ==
  /\ held \in Keys \cup {"none"}
  /\ input \in Seq(Events) /\ Len(input) <= MaxInput
  /\ mode \in Modes /\ sel \in 1..NServers /\ due \in BOOLEAN
  /\ menu \in Menus
  /\ count \in 0..REPEAT_TIMER /\ rc_last_key \in Keys \cup {"none"}
  /\ keypress_count \in 0..2
  /\ controld \in Volumes
  /\ flags \in Flags
  /\ last \in Histories
  /\ closer \in Keys \cup {"none"}

\* The menu shows its selection: exactly the selected item is lit, and it is one
\* that can be selected (cMenu::ProcessKey, viewermenu.cpp:654-687).
SelectionShown ==
  mode = "menu" => Items[menu.item].selectable /\ menu.lit = {menu.item}

\* The VDR gets a key that is pressed in the event loop once, and from the third
\* repeat on once more for every repeat; a key that was pressed in a dialog not
\* before the dialog is gone and a second repeat has come; the power button never
\* (vdrviewer.cpp:2540-2555, whose counter outlives keys, menus and dialogs).
KeysDelivered ==
  IF last.by # "loop" THEN last.repeats <= 1 => last.sent = 0
  ELSE IF ~ Forwarded(last.key) THEN last.sent = 0
  ELSE last.sent = IF last.repeats <= 2 THEN 1 ELSE last.repeats - 1

\* A dialog misses a press only of the key that closed the dialog before it: that
\* key's release was read elsewhere, and rc_last_key still has it
\* (viewermenu.cpp:413-424).
Misses == mode \in {"menu", "ask"} /\ Len(input') < Len(input) /\
          Head(input).value = 1 /\ RcCode(Head(input)) = "none"
PressTaken == [][Misses => Head(input).key = closer]_vars

\* A user who presses Home again and again gets out of the menu and of the
\* question, whatever the static variables have kept of earlier keys.
DialogsEnd == mode \in {"menu", "ask"} ~> mode \notin {"menu", "ask"}
================================================================================
