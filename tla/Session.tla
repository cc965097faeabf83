------------------------------- MODULE Session -------------------------------
(***************************************************************************)
(* The interactive session (src/rts_run.rs, src/rts_ui.rs): its event loop, *)
(* the pause menu and the settings page with their pointer and keyboard    *)
(* state machines, focus, and how a run ends.  Changes staged on the page  *)
(* are committed by LiveSettings.                                          *)
(*                                                                         *)
(* One arrow key, one volume with its slider and its field, and one point  *)
(* of the world stand for the rest.  Left out as independent of all this:  *)
(* the manual pause, the warning banner, SDL's text input, the viewport,   *)
(* and the digests of the first two frames, which are kept.  Assumed of    *)
(* the window system: it releases the keys before it takes the focus, and  *)
(* buttons and keys go down only in a window that has it.                  *)
(***************************************************************************)
EXTENDS LiveSettings

Controls == [
  gameplay  |-> {"world", "menu"},
  pauseMenu |-> {"open", "close"},
  settings  |-> {"back", "mode", "confine", "pause", "slider", "field"}]
Pages == DOMAIN Controls

VARIABLES
  page, reasons,  \* session.ui: the page, and why the game is paused
  edit,           \* the text of the active field, which may be "empty"
  press,          \* the control under the last press
  held,           \* session.keyboard_held: -1, 0 or 1
  down,           \* whether the arrow key is down
  focused,
  phase,          \* where the loop is
  ending,         \* whether this batch, or the script after it, ends the run
  touched,        \* whether this batch has changed the world
  captured,       \* the world of hashes.live_quit: "none", "rendered" or "other"
  fatal,          \* session.audio_fatal
  exit            \* "no", "error", or the world of the hash that was printed

ui == <<page, reasons, edit, press>>
keyboard == <<held, down>>
batch == <<ending, touched, captured, fatal>>
session == <<ui, keyboard, focused, phase, batch, exit>>
vars == <<live, txn, staged, session>>

\* One type invariant for the module.
TypeOK ==
  /\ TypeOKLive
  /\ page \in Pages /\ reasons \subseteq {"menu", "focus"}
  /\ edit \in Levels \cup {Nothing, "empty"}
  /\ press \in (UNION {Controls[p] : p \in Pages}) \cup {Nothing}
  /\ held \in -1..1 /\ down \in BOOLEAN /\ focused \in BOOLEAN
  /\ phase \in {"poll", "batch", "drain", "unfocus drain", "unfocus", "frame", "over"}
  /\ ending \in BOOLEAN /\ touched \in BOOLEAN /\ fatal \in BOOLEAN
  /\ captured \in {"none", "rendered", "other"}
  /\ exit \in {"no", "error", "rendered", "other"}

\* The window has been built for its mode and has shown the first frame; a
\* pointer grab that failed has been logged.
Init ==
  /\ settings \in Settings /\ disk = settings
  /\ window = Shape(settings.mode) /\ claimed = TRUE
  /\ grab \in {settings.confine, "unknown"}
  /\ gain = settings.volume
  /\ at = "idle" /\ change = Nothing /\ lost = FALSE
  /\ pending = Nothing /\ followup = Nothing
  /\ page = "gameplay" /\ reasons = {} /\ edit = Nothing /\ press = Nothing
  /\ held = 0 /\ down = FALSE /\ focused = TRUE
  /\ phase = "poll" /\ ending = FALSE /\ touched = FALSE
  /\ captured = "none" /\ fatal = FALSE /\ exit = "no"
-----------------------------------------------------------------------------
Opposite(switch) == IF switch = "on" THEN "off" ELSE "on"
Clamp(n) == IF n > 1 THEN 1 ELSE IF n < -1 THEN -1 ELSE n

\* Mutant of Staged: an empty field stages what it holds.
StagedEmpty(v, before) == IF v \notin {settings.volume, Nothing} THEN Change("volume", v) ELSE before

\* What is staged once a field or a slider asks for a volume: nothing new if
\* the settings have it, or if the field is empty.
Staged(v, before) == IF v \in Levels \ {settings.volume} THEN Change("volume", v) ELSE before

EndEdit == edit' = Nothing /\ pending' = Staged(edit, pending)

\* Handlers that stage changes commit them before the next event.
ThenDrain == phase' = IF pending' = Nothing THEN "batch" ELSE "drain"
-----------------------------------------------------------------------------
\* A press in the content of the window.  It ends the edit of a field it is
\* not on; on the slider it stages a step, behind what the edit has staged.
PressOn(c) ==
  LET blurs == edit # Nothing /\ c # "field"
      first == IF blurs THEN Staged(edit, pending) ELSE pending
  IN  /\ phase = "batch" /\ focused /\ c \in Controls[page]
      /\ press' = c
      /\ edit' = IF blurs THEN Nothing ELSE edit
      /\ \/ /\ c # "slider"
            /\ pending' = first /\ UNCHANGED followup
         \/ /\ c = "slider"
            /\ \E v \in Levels :
                 IF blurs /\ first # Nothing
                 THEN pending' = first /\ followup' = Staged(v, Nothing)
                 ELSE pending' = Staged(v, first) /\ UNCHANGED followup
      /\ ThenDrain
      /\ UNCHANGED <<live, txn, page, reasons, keyboard, focused, batch, exit>>

\* A press or a release outside the content.
PressOff ==
  /\ phase = "batch" /\ press # Nothing
  /\ press' = Nothing
  /\ UNCHANGED <<live, txn, staged, page, reasons, edit, keyboard, focused, phase, batch, exit>>

OpenMenu == page' = "pauseMenu" /\ reasons' = reasons \cup {"menu"}

\* Mutant of CloseMenu: the reason that a loss of focus left stays.
CloseMenuOnly == page' = "gameplay" /\ reasons' = reasons \ {"menu"}

CloseMenu == page' = "gameplay" /\ reasons' = {}

GoTo(p) == page' = p /\ UNCHANGED reasons

Stage(c) == pending' = c /\ UNCHANGED <<page, reasons, edit>>

\* What a control does when the press that began on it ends on it; a click in
\* the world is no concern of the pages, and a slider has done its work.
Activate(c) ==
  CASE c = "menu"    -> OpenMenu /\ UNCHANGED <<edit, pending>>
    [] c = "open"    -> GoTo("settings") /\ UNCHANGED <<edit, pending>>
    [] c = "close"   -> CloseMenu /\ UNCHANGED <<edit, pending>>
    [] c = "back"    -> GoTo("pauseMenu") /\ UNCHANGED <<edit, pending>>
    [] c = "field"   -> edit' = settings.volume /\ UNCHANGED <<page, reasons, pending>>
    [] c = "mode"    -> \E m \in Modes : Stage(Change("mode", m))
    [] c = "confine" -> Stage(Change("confine", Opposite(settings.confine)))
    [] c = "pause"   -> Stage(Change("pause", Opposite(settings.pause)))
    [] OTHER -> UNCHANGED <<page, reasons, edit, pending>>

ReleaseOn(c) ==
  /\ phase = "batch" /\ press # Nothing /\ c \in Controls[page]
  /\ press' = Nothing
  /\ IF c = press THEN Activate(c) ELSE UNCHANGED <<page, reasons, edit, pending>>
  /\ ThenDrain
  /\ UNCHANGED <<live, txn, followup, keyboard, focused, batch, exit>>

\* The pointer moves: a slider under the press follows it, on whatever page,
\* and what a scroll has staged is committed.
Move ==
  /\ phase = "batch"
  /\ \E v \in Levels : pending' = IF press = "slider" THEN Staged(v, pending) ELSE pending
  /\ ThenDrain
  /\ UNCHANGED <<live, txn, followup, ui, keyboard, focused, batch, exit>>

\* Scrolling the settings page ends an edit, as a loss of the focus does, but
\* what that stages waits for a later handler.
Wheel ==
  /\ phase = "batch" /\ page = "settings" /\ edit # Nothing
  /\ EndEdit /\ press' = Nothing /\ held' = 0
  /\ UNCHANGED <<live, txn, followup, page, reasons, down, focused, phase, batch, exit>>

Enter ==
  /\ phase = "batch" /\ focused /\ edit # Nothing
  /\ EndEdit /\ ThenDrain
  /\ UNCHANGED <<live, txn, followup, page, reasons, press, keyboard, focused, batch, exit>>

Type ==
  /\ phase = "batch" /\ focused /\ edit # Nothing
  /\ edit' \in Levels \cup {"empty"}
  /\ UNCHANGED <<live, txn, staged, page, reasons, press, keyboard, focused, phase, batch, exit>>

\* An active field takes the key; else it opens the menu or goes one page back.
Escape ==
  /\ phase = "batch" /\ focused
  /\ \/ /\ edit # Nothing
        /\ edit' = Nothing
        /\ UNCHANGED <<page, reasons, pending>>
        /\ ThenDrain
     \/ /\ edit = Nothing
        /\ CASE page = "gameplay"  -> OpenMenu
             [] page = "settings"  -> GoTo("pauseMenu")
             [] page = "pauseMenu" -> CloseMenu
        /\ UNCHANGED <<edit, pending, phase>>
  /\ UNCHANGED <<live, txn, followup, press, keyboard, focused, batch, exit>>

\* PanStart and PanStop.
Arrow ==
  /\ phase = "batch" /\ focused
  /\ down' = ~down
  /\ held' = Clamp(IF down THEN held - 1 ELSE held + 1)
  /\ UNCHANGED <<live, txn, staged, ui, focused, phase, batch, exit>>
-----------------------------------------------------------------------------
\* The focus goes: an edit is finished and committed first, whatever it takes.
FocusLost ==
  /\ phase = "batch" /\ focused /\ ~down
  /\ focused' = FALSE
  /\ EndEdit /\ press' = Nothing /\ held' = 0
  /\ phase' = "unfocus drain"
  /\ UNCHANGED <<live, txn, followup, page, reasons, down, batch, exit>>

\* Then the pointer is let go, and the game pauses if it is to; a grab that
\* cannot be released leaves it running.
LetGo ==
  /\ phase = "unfocus" /\ phase' = "batch"
  /\ grab' \in {"off", "unknown"}
  /\ IF grab' = "off" /\ settings.pause = "on"
     THEN page' = "pauseMenu" /\ reasons' = reasons \cup {"focus"}
     ELSE UNCHANGED <<page, reasons>>
  /\ UNCHANGED <<settings, disk, window, gain, claimed, txn, staged, edit, press, keyboard, focused,
                 batch, exit>>

\* A grab that fails is only logged.
FocusGained ==
  /\ phase = "batch" /\ ~focused
  /\ focused' = TRUE
  /\ grab' \in {settings.confine, "unknown"}
  /\ UNCHANGED <<settings, disk, window, gain, claimed, txn, staged, ui, keyboard, phase, batch, exit>>
-----------------------------------------------------------------------------
kept == <<settings, disk, window, grab, gain, txn, staged, ui, keyboard, focused>>

\* The world as a hash would find it now.
World == IF touched THEN "other" ELSE "rendered"

\* The window is released.
Over(e) == phase' = "over" /\ exit' = e /\ claimed' = FALSE
Fail == Over("error")
Finish == Over(IF captured = "none" THEN World' ELSE captured)
GoOn(p) == phase' = p /\ UNCHANGED <<claimed, exit>>

\* The drain of a handler commits what is staged and returns to the handler.
Drain ==
  /\ phase \in {"drain", "unfocus drain"}
  /\ \/ (Begin \/ TransactionStep) /\ UNCHANGED session
     \/ /\ at = "idle" /\ (pending = Nothing \/ lost)
        /\ IF lost THEN Fail ELSE GoOn(IF phase = "drain" THEN "batch" ELSE "unfocus")
        /\ UNCHANGED <<kept, batch>>

\* Mutant of Poll: the world is not kept for the hash.
PollOnly ==
  /\ phase = "poll" /\ GoOn("batch")
  /\ ending' \in BOOLEAN
  /\ UNCHANGED <<kept, touched, captured, fatal>>

\* A batch of events is taken.  If it ends the run, or the script does after
\* it, the world is hashed before any of it is handled.
Poll ==
  /\ phase = "poll" /\ GoOn("batch")
  /\ ending' \in BOOLEAN
  /\ captured' = IF ending' /\ captured = "none" THEN World ELSE captured
  /\ UNCHANGED <<kept, touched, fatal>>

\* Mutant of EndBatch: the close is seen before the sink that failed.
QuitBeforeAudio ==
  /\ phase = "batch"
  /\ touched' \in BOOLEAN /\ fatal' \in BOOLEAN
  /\ \/ ending /\ Finish
     \/ ~ending /\ IF fatal' THEN Fail ELSE GoOn("frame")
  /\ UNCHANGED <<kept, ending, captured>>

\* The batch is through, or at the close, which drops the rest of it: it may
\* have changed the world, and the sink may have failed in it.
EndBatch ==
  /\ phase = "batch"
  /\ touched' \in BOOLEAN /\ fatal' \in BOOLEAN
  /\ \/ fatal' /\ Fail
     \/ ~fatal' /\ ending /\ Finish
     \/ ~fatal' /\ GoOn("frame")
  /\ UNCHANGED <<kept, ending, captured>>

\* One frame: a quit of the script, else a tick unless paused, the drawing,
\* and the sink's upkeep.
Frame ==
  /\ phase = "frame"
  /\ \/ /\ ending /\ UNCHANGED <<touched, fatal>>
        /\ Finish
     \/ /\ ~ending /\ touched' \in {touched, touched \/ reasons = {}} /\ UNCHANGED fatal
        /\ Fail
     \/ /\ ~ending /\ touched' = FALSE /\ fatal' \in BOOLEAN
        /\ IF fatal' THEN Fail ELSE GoOn("poll")
  /\ UNCHANGED <<kept, ending, captured>>

\* An automatic run has rendered its frames.
Budget ==
  /\ phase = "poll" /\ UNCHANGED touched
  /\ Finish
  /\ UNCHANGED <<kept, ending, captured, fatal>>

Pointer == (\E p \in Pages : \E c \in Controls[p] : PressOn(c) \/ ReleaseOn(c)) \/ PressOff \/ Move \/ Wheel

Keyboard == Enter \/ Type \/ Escape \/ Arrow

Focus == FocusLost \/ LetGo \/ FocusGained

Loop == Poll \/ Drain \/ EndBatch \/ Frame \/ Budget

Next == Pointer \/ Keyboard \/ Focus \/ Loop

Spec == Init /\ [][Next]_vars
-----------------------------------------------------------------------------
\* While no change is being committed and the run goes on, the game is as its
\* settings say, and they are what is on disk: the window is whole and has the
\* shape of its mode, the mixer has its gain, and the pointer is held exactly
\* if it is to be and the window has the focus -- unless the system refused to
\* move the grab on a change of focus, which is logged and no more.  It is what
\* rts_ui.rs:681 promises of a failed change, whatever fails and when.
RuntimeIsAsConfigured ==
  at = "idle" /\ ~lost /\ phase \notin {"over", "unfocus drain", "unfocus"} =>
    /\ disk = settings
    /\ window = Shape(settings.mode) /\ claimed
    /\ gain = settings.volume
    /\ grab \in {"unknown", IF focused THEN settings.confine ELSE "off"}

\* A menu page is open exactly while one of its two reasons pauses the game,
\* and a field is edited on the settings page only: no way in or out of the
\* menu leaves the game paused with no page to leave it by.
MenuPauses ==
  /\ page # "gameplay" <=> reasons # {}
  /\ edit # Nothing => page = "settings"

\* A clean exit prints the hash of the last world that was rendered, though the
\* events of the last batch have changed it since (rts_run.rs:914).
HashIsOfTheLastFrame == exit # "other"

\* A run that has lost its audio, or a transaction it could not undo, fails:
\* it neither goes on nor exits as if all were well (rts_run.rs:1037).
FaultsEndTheRun ==
  /\ fatal => phase = "over"
  /\ lost /\ at = "idle" => phase \in {"drain", "unfocus drain", "over"}
  /\ phase = "over" /\ (fatal \/ lost) => exit = "error"

\* rts_run.rs:152: `Currently held keyboard pan directions, summed and clamped
\* per axis'.
PanFollowsKeys == held = IF down THEN 1 ELSE 0
=============================================================================
