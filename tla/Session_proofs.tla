---------------------------- MODULE Session_proofs ----------------------------
(***************************************************************************)
(* The session, for any set of volumes: whatever fails and when, the game  *)
(* is as its settings say and they are on the disk; the menu and the pause *)
(* go together; a run that cannot go on does not; and the hash is of the   *)
(* last world that was drawn.                                              *)
(***************************************************************************)
EXTENDS Session, TLAPS

\* A change of the volume or none: all that an edit or the slider stages.
Volumes == {Change("volume", v) : v \in Levels}
Quiet(c) == c \in Volumes \cup {Nothing}

\* The handlers that stage another kind of change commit it before the next
\* event, in a window that has the focus.
StagesInv ==
  /\ at # "idle" => phase \in {"drain", "unfocus drain"} /\ change \in Changes
  /\ Quiet(followup)
  /\ followup # Nothing => at # "idle" \/ (phase = "drain" /\ pending # Nothing) \/ phase = "over"
  /\ at # "idle" \/ lost => pending = Nothing
  /\ ~Quiet(pending) => phase \in {"drain", "over"} /\ focused
  /\ at # "idle" /\ change \notin Volumes => phase = "drain" /\ focused
  /\ press # Nothing => focused
  /\ phase \in {"unfocus drain", "unfocus"} => ~focused

\* The two settings a transaction is between, and the window and the grab as
\* some settings have them; a grab that failed is unknown, and a window that
\* has lost the focus lets the pointer go last.
Shaped(s) == window = Shape(s.mode)
Grabbed(s) ==
  grab \in {"unknown", IF focused \/ phase \in {"unfocus drain", "unfocus"} THEN s.confine ELSE "off"}

\* Where the disk, the window, the grab and the mixer stand before each step of
\* a transaction, until a compensation fails: which of the two settings they
\* have by then.  From there on only the disk and the window are sure.
LiveInv ==
  /\ phase = "over" \/ claimed \/ lost \/ (at # "idle" /\ change.kind = "mode")
  /\ at = "idle" /\ ~lost =>
       disk = settings /\ Shaped(settings) /\ Grabbed(settings) /\ gain = settings.volume
  /\ at = "runtime" =>
       ~lost /\ disk = settings /\ Shaped(settings) /\ Grabbed(settings) /\ gain = settings.volume
  /\ at = "gains" =>
       ~lost /\ disk = settings /\ Shaped(Candidate) /\ Grabbed(Candidate) /\ gain = settings.volume
  /\ at = "save" =>
       ~lost /\ disk = settings /\ Shaped(Candidate) /\ Grabbed(Candidate) /\ gain = Candidate.volume
  /\ at = "publish" =>
       ~lost /\ disk = Candidate /\ Shaped(Candidate) /\ Grabbed(Candidate) /\ gain = Candidate.volume
  /\ at = "undo gains" => ~lost /\ disk = settings /\ Shaped(Candidate) /\ Grabbed(Candidate)
  /\ at = "undo runtime" =>
       /\ disk = settings /\ Shaped(Candidate) /\ (change.kind = "confine" \/ Grabbed(settings))
       /\ lost \/ gain = settings.volume
  /\ at = "reclaim" =>
       \/ lost
       \/ disk = settings /\ Shaped(settings) /\ Grabbed(settings) /\ gain = settings.volume

\* A page and its reasons; an edit ends before another control is pressed, and
\* before the focus goes.
MenuInv ==
  /\ page # "gameplay" <=> reasons # {}
  /\ edit # Nothing => page = "settings"
  /\ press \notin {Nothing, "field"} => edit = Nothing
  /\ phase \in {"unfocus drain", "unfocus"} => edit = Nothing

\* The world is kept before a batch that ends the run, and the poll comes after
\* a frame.
EndInv ==
  /\ captured # "other"
  /\ phase = "poll" => ~touched /\ ~ending
  /\ phase # "poll" /\ ending => captured = "rendered"
  /\ exit # "other"
  /\ fatal => phase = "over"
  /\ lost => phase \in {"drain", "unfocus drain", "over"}
  /\ phase = "over" /\ (fatal \/ lost) => exit = "error"

SessionInv == TypeOK /\ StagesInv /\ LiveInv /\ MenuInv /\ EndInv
-----------------------------------------------------------------------------
(* What a change and a transaction's helpers return.                       *)

LEMMA ChangeParts ==
  ASSUME NEW c \in Changes
  PROVE  \/ c.kind = "mode" /\ c.to \in Modes
         \/ c.kind = "volume" /\ c.to \in Levels /\ c \in Volumes
         \/ c.kind \in {"confine", "pause"} /\ c.to \in Switch
BY DEF Changes, Change, Volumes

LEMMA VolumeParts == \A c \in Volumes : c \in Changes /\ c.kind = "volume"
BY DEF Changes, Change, Volumes

LEMMA CandidateParts ==
  ASSUME settings \in Settings, change \in Changes
  PROVE  /\ Candidate \in Settings
         /\ Candidate.mode = IF change.kind = "mode" THEN change.to ELSE settings.mode
         /\ Candidate.volume = IF change.kind = "volume" THEN change.to ELSE settings.volume
         /\ Candidate.confine = IF change.kind = "confine" THEN change.to ELSE settings.confine
<1>1. CASE change.kind = "mode"
  <2>1. Candidate = [settings EXCEPT !.mode = change.to]
    BY <1>1 DEF Candidate
  <2> QED
    BY <1>1, <2>1, ChangeParts DEF Settings
<1>2. CASE change.kind = "volume"
  <2>1. Candidate = [settings EXCEPT !.volume = change.to]
    BY <1>2 DEF Candidate
  <2> QED
    BY <1>2, <2>1, ChangeParts DEF Settings
<1>3. CASE change.kind = "confine"
  <2>1. Candidate = [settings EXCEPT !.confine = change.to]
    BY <1>3 DEF Candidate
  <2> QED
    BY <1>3, <2>1, ChangeParts DEF Settings
<1>4. CASE change.kind = "pause"
  <2>1. Candidate = [settings EXCEPT !.pause = change.to]
    BY <1>4 DEF Candidate
  <2> QED
    BY <1>4, <2>1, ChangeParts DEF Settings
<1> QED
  BY <1>1, <1>2, <1>3, <1>4, ChangeParts

LEMMA ReachedType ==
  ASSUME NEW w \in Shapes, NEW mode, NEW n PROVE Reached(w, mode, n) \in Shapes
<1>1. \A calls, on, off, was : was \in BOOLEAN => Flag(calls, n, on, off, was) \in BOOLEAN
  BY DEF Flag
<1> QED
  BY <1>1 DEF Reached, Shapes

\* The calls of a mode that all succeed take any window to its shape.
LEMMA WholeIsShape ==
  ASSUME NEW w \in Shapes, NEW mode \in Modes PROVE Whole(w, mode) = Shape(mode)
<1>1. CASE mode = "borderless"
  <2> DEFINE calls == <<"leave", "clear", "unborder", "enter", "sync">>
  <2>1. Calls(mode) = calls /\ Len(calls) = 5
    BY <1>1 DEF Calls
  <2>2. Flag(calls, 5, "enter", "leave", w.full) = TRUE
    BY DEF Flag
  <2>3. Flag(calls, 5, "choose", "clear", w.exclusive) = FALSE
    BY DEF Flag
  <2>4. Flag(calls, 5, "border", "unborder", w.bordered) = FALSE
    BY DEF Flag
  <2> HIDE DEF calls
  <2> QED
    BY <1>1, <2>1, <2>2, <2>3, <2>4 DEF Whole, Reached, Shape
<1>2. CASE mode = "exclusive"
  <2> DEFINE calls == <<"list", "border", "choose", "enter", "sync">>
  <2>1. Calls(mode) = calls /\ Len(calls) = 5
    BY <1>2 DEF Calls
  <2>2. Flag(calls, 5, "enter", "leave", w.full) = TRUE
    BY DEF Flag
  <2>3. Flag(calls, 5, "choose", "clear", w.exclusive) = TRUE
    BY DEF Flag
  <2>4. Flag(calls, 5, "border", "unborder", w.bordered) = TRUE
    BY DEF Flag
  <2> HIDE DEF calls
  <2> QED
    BY <1>2, <2>1, <2>2, <2>3, <2>4 DEF Whole, Reached, Shape
<1>3. CASE mode = "windowed"
  <2> DEFINE calls == <<"leave", "clear", "border", "size", "center", "sync">>
  <2>1. Calls(mode) = calls /\ Len(calls) = 6
    BY <1>3 DEF Calls
  <2>2. Flag(calls, 6, "enter", "leave", w.full) = FALSE
    BY DEF Flag
  <2>3. Flag(calls, 6, "choose", "clear", w.exclusive) = FALSE
    BY DEF Flag
  <2>4. Flag(calls, 6, "border", "unborder", w.bordered) = TRUE
    BY DEF Flag
  <2> HIDE DEF calls
  <2> QED
    BY <1>3, <2>1, <2>2, <2>3, <2>4 DEF Whole, Reached, Shape
<1> QED
  BY <1>1, <1>2, <1>3 DEF Modes

\* What transition_window_mode answers is true of the window it leaves.
LEMMA TransitionTells ==
  ASSUME NEW w \in Shapes, NEW from \in Modes, NEW to \in Modes,
         NEW t \in Transition(w, from, to)
  PROVE  /\ t[1] \in {"applied", "rolled back", "lost"} /\ t[2] \in Shapes
         /\ t[1] = "applied" => t[2] = Shape(to)
         /\ t[1] = "rolled back" => t[2] = Shape(from)
<1>1. \A v \in Shapes, mode \in Modes : Stranded(v, mode) \subseteq Shapes /\ Whole(v, mode) \in Shapes
  BY ReachedType DEF Stranded, Whole
<1>2. CASE t = <<"applied", Whole(w, to)>>
  BY <1>1, <1>2, WholeIsShape
<1>3. CASE \E v \in Stranded(w, to) : t = <<"rolled back", Whole(v, from)>>
  <2>1. PICK v \in Stranded(w, to) : t = <<"rolled back", Whole(v, from)>>
    BY <1>3
  <2>2. v \in Shapes /\ Whole(v, from) \in Shapes /\ Whole(v, from) = Shape(from)
    BY <1>1, <2>1, WholeIsShape
  <2> QED
    BY <2>1, <2>2
<1>4. CASE \E v \in Stranded(w, to) : \E u \in Stranded(v, from) : t = <<"lost", u>>
  BY <1>1, <1>4
<1> QED
  BY <1>2, <1>3, <1>4 DEF Transition
-----------------------------------------------------------------------------
(* The pages, the ways out of Drain, and the invariants step by step.       *)

LEMMA PagesAre ==
  /\ Pages = {"gameplay", "pauseMenu", "settings"}
  /\ Controls["gameplay"] = {"world", "menu"}
  /\ Controls["pauseMenu"] = {"open", "close"}
  /\ Controls["settings"] = {"back", "mode", "confine", "pause", "slider", "field"}
BY DEF Pages, Controls

\* The two halves of Drain.
InDrain == phase \in {"drain", "unfocus drain"} /\ UNCHANGED session
DrainEnds ==
  /\ phase \in {"drain", "unfocus drain"}
  /\ at = "idle" /\ (pending = Nothing \/ lost)
  /\ IF lost THEN Fail ELSE GoOn(IF phase = "drain" THEN "batch" ELSE "unfocus")
  /\ UNCHANGED <<kept, batch>>

LEMMA NextActions ==
  ASSUME [Next]_vars
  PROVE  \/ \E p \in Pages : \E c \in Controls[p] : PressOn(c) \/ ReleaseOn(c)
         \/ PressOff \/ Move \/ Wheel \/ Enter \/ Type \/ Escape \/ Arrow
         \/ FocusLost \/ LetGo \/ FocusGained
         \/ Poll \/ EndBatch \/ Frame \/ Budget \/ DrainEnds
         \/ InDrain /\ (Begin \/ TransactionStep)
         \/ UNCHANGED vars
<1>1. Drain => DrainEnds \/ (InDrain /\ (Begin \/ TransactionStep))
  BY DEF Drain, DrainEnds, InDrain
<1> QED
  BY <1>1 DEF Next, Pointer, Keyboard, Focus, Loop

LEMMA MenuNext == TypeOK /\ StagesInv /\ MenuInv /\ [Next]_vars => MenuInv'
<1> SUFFICES ASSUME TypeOK, StagesInv, MenuInv, [Next]_vars PROVE MenuInv'
  OBVIOUS
<1> USE PagesAre DEF TypeOK, StagesInv, MenuInv, session, ui, keyboard, batch
<1>1. ASSUME NEW p \in Pages, NEW c \in Controls[p], PressOn(c) PROVE MenuInv'
  BY <1>1 DEF PressOn, ThenDrain, live, txn, keyboard, batch, staged, ui
<1>2. ASSUME NEW p \in Pages, NEW c \in Controls[p], ReleaseOn(c) PROVE MenuInv'
  BY <1>2 DEF ReleaseOn, ThenDrain, Activate, live, txn, keyboard, batch, OpenMenu, CloseMenu,
     GoTo, Stage, Opposite, staged, ui, Clamp
<1>3. ASSUME PressOff PROVE MenuInv'
  BY <1>3 DEF PressOff, live, txn, staged, keyboard, batch, ui
<1>4. ASSUME Move PROVE MenuInv'
  BY <1>4 DEF Move, ThenDrain, live, txn, ui, keyboard, batch, staged
<1>5. ASSUME Wheel PROVE MenuInv'
  BY <1>5 DEF Wheel, EndEdit, live, txn, batch, staged, ui, keyboard
<1>6. ASSUME Enter PROVE MenuInv'
  BY <1>6 DEF Enter, EndEdit, ThenDrain, live, txn, keyboard, batch, staged, ui
<1>7. ASSUME Type PROVE MenuInv'
  BY <1>7 DEF Type, live, txn, staged, keyboard, batch, ui
<1>8. ASSUME Escape PROVE MenuInv'
  BY <1>8 DEF Escape, ThenDrain, OpenMenu, CloseMenu, GoTo, live, txn, keyboard, batch, staged,
     ui
<1>9. ASSUME Arrow PROVE MenuInv'
  BY <1>9 DEF Arrow, Clamp, live, txn, staged, ui, batch, keyboard
<1>10. ASSUME FocusLost PROVE MenuInv'
  BY <1>10 DEF FocusLost, EndEdit, live, txn, batch, staged, ui, keyboard
<1>11. ASSUME LetGo PROVE MenuInv'
  BY <1>11 DEF LetGo, txn, staged, keyboard, batch, live, ui
<1>12. ASSUME FocusGained PROVE MenuInv'
  BY <1>12 DEF FocusGained, txn, staged, ui, keyboard, batch, live
<1>13. ASSUME Poll PROVE MenuInv'
  BY <1>13 DEF Poll, GoOn, World, batch, kept, live, txn, staged, ui, keyboard
<1>14. ASSUME EndBatch PROVE MenuInv'
  BY <1>14 DEF EndBatch, Fail, Finish, GoOn, batch, kept, Over, World, live, txn, staged, ui,
     keyboard
<1>15. ASSUME Frame PROVE MenuInv'
  BY <1>15 DEF Frame, Fail, Finish, GoOn, kept, Over, World, txn, staged, ui, keyboard, live,
     batch
<1>16. ASSUME Budget PROVE MenuInv'
  BY <1>16 DEF Budget, Finish, kept, Over, GoOn, World, txn, staged, ui, keyboard, Fail, live,
     batch
<1>17. ASSUME DrainEnds PROVE MenuInv'
  BY <1>17 DEF DrainEnds, Fail, Over, GoOn, kept, batch, txn, staged, ui, keyboard
<1>18. ASSUME InDrain, Begin PROVE MenuInv'
  BY <1>18 DEF InDrain, Begin
<1>19. ASSUME InDrain, ApplyRuntime PROVE MenuInv'
  BY <1>19 DEF InDrain, ApplyRuntime, Goto, GiveUp, live, staged
<1>20. ASSUME InDrain, SetGains PROVE MenuInv'
  BY <1>20 DEF InDrain, SetGains, Goto, GiveUp, live, staged
<1>21. ASSUME InDrain, Save PROVE MenuInv'
  BY <1>21 DEF InDrain, Save, Goto, GiveUp, live, staged
<1>22. ASSUME InDrain, Publish PROVE MenuInv'
  BY <1>22 DEF InDrain, Publish, Goto, GiveUp, live, staged
<1>23. ASSUME InDrain, UndoGains PROVE MenuInv'
  BY <1>23 DEF InDrain, UndoGains, Goto, GiveUp, live, staged
<1>24. ASSUME InDrain, UndoRuntime PROVE MenuInv'
  BY <1>24 DEF InDrain, UndoRuntime, Goto, GiveUp, live, staged
<1>25. ASSUME InDrain, Reclaim PROVE MenuInv'
  BY <1>25 DEF InDrain, Reclaim
<1>26. CASE UNCHANGED vars
  BY <1>26 DEF vars, live, txn, staged, session, ui, keyboard, batch
<1> QED
  BY NextActions, <1>1, <1>2, <1>3, <1>4, <1>5, <1>6, <1>7, <1>8, <1>9, <1>10, <1>11, <1>12,
     <1>13, <1>14, <1>15, <1>16, <1>17, <1>18, <1>19, <1>20, <1>21, <1>22, <1>23, <1>24, <1>25,
     <1>26 DEF TransactionStep

LEMMA EndNext == TypeOK /\ StagesInv /\ EndInv /\ [Next]_vars => EndInv'
<1> SUFFICES ASSUME TypeOK, StagesInv, EndInv, [Next]_vars PROVE EndInv'
  OBVIOUS
<1>1. ASSUME Frame PROVE EndInv'
  <2>1. CASE ending
    BY <1>1, <2>1 DEF Frame, Finish, Over, kept, txn, EndInv, TypeOK, StagesInv
  <2>2. CASE ~ending
    BY <1>1, <2>2 DEF Frame, Fail, Over, GoOn, kept, txn, EndInv, TypeOK, StagesInv
  <2> QED
    BY <2>1, <2>2
<1> USE DEF TypeOK, TypeOKLive, StagesInv, EndInv, session, ui, keyboard, batch
<1>2. ASSUME NEW p \in Pages, NEW c \in Controls[p], PressOn(c) PROVE EndInv'
  BY <1>2 DEF PressOn, ThenDrain, live, txn, keyboard, batch, staged, ui
<1>3. ASSUME NEW p \in Pages, NEW c \in Controls[p], ReleaseOn(c) PROVE EndInv'
  BY <1>3 DEF ReleaseOn, ThenDrain, Activate, live, txn, keyboard, batch, OpenMenu, CloseMenu,
     GoTo, Stage, Opposite, staged, ui, Clamp
<1>4. ASSUME PressOff PROVE EndInv'
  BY <1>4 DEF PressOff, live, txn, staged, keyboard, batch, ui
<1>5. ASSUME Move PROVE EndInv'
  BY <1>5 DEF Move, ThenDrain, live, txn, ui, keyboard, batch, staged
<1>6. ASSUME Wheel PROVE EndInv'
  BY <1>6 DEF Wheel, EndEdit, live, txn, batch, staged, ui, keyboard
<1>7. ASSUME Enter PROVE EndInv'
  BY <1>7 DEF Enter, EndEdit, ThenDrain, live, txn, keyboard, batch, staged, ui
<1>8. ASSUME Type PROVE EndInv'
  BY <1>8 DEF Type, live, txn, staged, keyboard, batch, ui
<1>9. ASSUME Escape PROVE EndInv'
  BY <1>9 DEF Escape, ThenDrain, OpenMenu, CloseMenu, GoTo, live, txn, keyboard, batch, staged,
     ui
<1>10. ASSUME Arrow PROVE EndInv'
  BY <1>10 DEF Arrow, Clamp, live, txn, staged, ui, batch, keyboard
<1>11. ASSUME FocusLost PROVE EndInv'
  BY <1>11 DEF FocusLost, EndEdit, live, txn, batch, staged, ui, keyboard
<1>12. ASSUME LetGo PROVE EndInv'
  BY <1>12 DEF LetGo, txn, staged, keyboard, batch, live, ui
<1>13. ASSUME FocusGained PROVE EndInv'
  BY <1>13 DEF FocusGained, txn, staged, ui, keyboard, batch, live
<1>14. ASSUME Poll PROVE EndInv'
  BY <1>14 DEF Poll, GoOn, World, batch, kept, live, txn, staged, ui, keyboard
<1>15. ASSUME EndBatch PROVE EndInv'
  BY <1>15 DEF EndBatch, Fail, Finish, GoOn, batch, kept, Over, World, live, txn, staged, ui,
     keyboard
<1>16. ASSUME Budget PROVE EndInv'
  BY <1>16 DEF Budget, Finish, kept, Over, GoOn, World, txn, staged, ui, keyboard, Fail, live,
     batch
<1>17. ASSUME DrainEnds PROVE EndInv'
  BY <1>17 DEF DrainEnds, Fail, Over, GoOn, kept, batch, txn, staged, ui, keyboard
<1>18. ASSUME InDrain, Begin PROVE EndInv'
  BY <1>18 DEF InDrain, Begin
<1>19. ASSUME InDrain, ApplyRuntime PROVE EndInv'
  BY <1>19 DEF InDrain, ApplyRuntime, Goto, GiveUp, live, staged
<1>20. ASSUME InDrain, SetGains PROVE EndInv'
  BY <1>20 DEF InDrain, SetGains, Goto, GiveUp, live, staged
<1>21. ASSUME InDrain, Save PROVE EndInv'
  BY <1>21 DEF InDrain, Save, Goto, GiveUp, live, staged
<1>22. ASSUME InDrain, Publish PROVE EndInv'
  BY <1>22 DEF InDrain, Publish, Goto, GiveUp, live, staged
<1>23. ASSUME InDrain, UndoGains PROVE EndInv'
  BY <1>23 DEF InDrain, UndoGains, Goto, GiveUp, live, staged
<1>24. ASSUME InDrain, UndoRuntime PROVE EndInv'
  BY <1>24 DEF InDrain, UndoRuntime, Goto, GiveUp, live, staged
<1>25. ASSUME InDrain, Reclaim PROVE EndInv'
  BY <1>25 DEF InDrain, Reclaim
<1>26. CASE UNCHANGED vars
  BY <1>26 DEF vars, live, txn, staged, session, ui, keyboard, batch
<1> QED
  BY NextActions, <1>1, <1>2, <1>3, <1>4, <1>5, <1>6, <1>7, <1>8, <1>9, <1>10, <1>11, <1>12,
     <1>13, <1>14, <1>15, <1>16, <1>17, <1>18, <1>19, <1>20, <1>21, <1>22, <1>23, <1>24, <1>25,
     <1>26 DEF TransactionStep

\* The ways through the two steps that may have to do with the window.
LEMMA ApplyRuntimeDoes ==
  ASSUME TypeOKLive, change \in Changes, ApplyRuntime
  PROVE  /\ UNCHANGED <<settings, disk, gain, claimed, change, staged>>
         /\ window' \in Shapes /\ grab' \in {grab, "unknown", change.to}
         /\ grab' = change.to => grab' = grab \/ change.to \in Switch
         /\ \/ /\ at' = "gains" /\ lost' = lost
               /\ window' = IF change.kind = "mode" THEN Shape(change.to) ELSE window
               /\ grab' = IF change.kind = "confine" THEN change.to ELSE grab
            \/ /\ at' = "reclaim" /\ change.kind = "mode" /\ grab' = grab
               /\ lost' = TRUE \/ (lost' = lost /\ window' = Shape(settings.mode))
            \/ /\ at' = "undo runtime" /\ change.kind = "confine" /\ grab' = "unknown"
               /\ window' = window /\ lost' = lost
<1>1. CASE change.kind = "mode"
  <2>1. PICK t \in Transition(window, settings.mode, change.to) :
          /\ window' = t[2]
          /\ CASE t[1] = "applied"     -> Goto("gains")
               [] t[1] = "rolled back" -> Goto("reclaim")
               [] t[1] = "lost"        -> GiveUp("reclaim")
    BY <1>1 DEF ApplyRuntime
  <2>2. UNCHANGED <<settings, disk, grab, gain, claimed>>
    BY <1>1 DEF ApplyRuntime
  <2>3. window \in Shapes /\ settings.mode \in Modes /\ change.to \in Modes
    BY <1>1, ChangeParts DEF TypeOKLive, Settings
  <2>4. /\ t[1] \in {"applied", "rolled back", "lost"} /\ t[2] \in Shapes
        /\ t[1] = "applied" => t[2] = Shape(change.to)
        /\ t[1] = "rolled back" => t[2] = Shape(settings.mode)
    BY <2>3, TransitionTells
  <2>5. CASE t[1] = "applied"
    BY <1>1, <2>1, <2>2, <2>4, <2>5 DEF Goto
  <2>6. CASE t[1] = "rolled back"
    BY <1>1, <2>1, <2>2, <2>4, <2>6 DEF Goto
  <2>7. CASE t[1] = "lost"
    BY <1>1, <2>1, <2>2, <2>4, <2>7 DEF GiveUp, staged
  <2> QED
    BY <2>4, <2>5, <2>6, <2>7
<1>2. CASE change.kind = "confine"
  BY <1>2, ChangeParts DEF ApplyRuntime, Goto, TypeOKLive
<1>3. CASE change.kind \notin {"mode", "confine"}
  BY <1>3 DEF ApplyRuntime, Goto, live, TypeOKLive
<1> QED
  BY <1>1, <1>2, <1>3

LEMMA UndoRuntimeDoes ==
  ASSUME TypeOKLive, change \in Changes, UndoRuntime
  PROVE  /\ UNCHANGED <<settings, disk, gain, claimed, change, staged>>
         /\ at' = "reclaim" /\ window' \in Shapes
         /\ \/ lost' = TRUE /\ grab' \in {grab, "unknown"}
            \/ /\ lost' = lost
               /\ window' = IF change.kind = "mode" THEN Shape(settings.mode) ELSE window
               /\ grab' = IF change.kind = "confine" THEN settings.confine ELSE grab
<1>1. CASE change.kind = "mode"
  <2>1. PICK t \in Transition(window, change.to, settings.mode) :
          window' = t[2] /\ IF t[1] = "applied" THEN Goto("reclaim") ELSE GiveUp("reclaim")
    BY <1>1 DEF UndoRuntime
  <2>2. UNCHANGED <<settings, disk, grab, gain, claimed>>
    BY <1>1 DEF UndoRuntime
  <2>3. window \in Shapes /\ settings.mode \in Modes /\ change.to \in Modes
    BY <1>1, ChangeParts DEF TypeOKLive, Settings
  <2>4. t[2] \in Shapes /\ (t[1] = "applied" => t[2] = Shape(settings.mode))
    BY <2>3, TransitionTells
  <2>5. CASE t[1] = "applied"
    BY <1>1, <2>1, <2>2, <2>4, <2>5 DEF Goto
  <2>6. CASE t[1] # "applied"
    BY <1>1, <2>1, <2>2, <2>4, <2>6 DEF GiveUp
  <2> QED
    BY <2>5, <2>6
<1>2. CASE change.kind = "confine"
  BY <1>2 DEF UndoRuntime, Goto, GiveUp, TypeOKLive
<1>3. CASE change.kind \notin {"mode", "confine"}
  BY <1>3 DEF UndoRuntime, Goto, live, TypeOKLive
<1> QED
  BY <1>1, <1>2, <1>3

\* What asks for a volume stages it, or leaves what was staged.
LEMMA StagedGives == \A v, before : Staged(v, before) \in Volumes \cup {before}
BY DEF Staged, Volumes

LEMMA VolumesAreQuiet ==
  /\ \A c \in Volumes : Quiet(c) /\ c \in Changes
  /\ Quiet(Nothing) /\ \A v, before : Quiet(before) => Quiet(Staged(v, before))
BY VolumeParts, StagedGives DEF Quiet

LEMMA StagesNext == TypeOK /\ StagesInv /\ EndInv /\ [Next]_vars => StagesInv'
<1> SUFFICES ASSUME TypeOK, StagesInv, EndInv, [Next]_vars PROVE StagesInv'
  OBVIOUS
<1>a. pending \in Changes \cup {Nothing} /\ (\A c \in Volumes : c \in Changes)
  BY VolumesAreQuiet DEF TypeOK, TypeOKLive
<1>b. phase = "batch" => at = "idle" /\ ~lost /\ Quiet(pending) /\ followup = Nothing
  BY DEF StagesInv, EndInv
<1>c. Quiet(followup) /\ (followup # Nothing => followup \in Volumes)
  BY DEF StagesInv, Quiet
<1>d. lost => phase \in {"drain", "unfocus drain", "over"}
  BY DEF EndInv
<1>1. ASSUME NEW p \in Pages, NEW c \in Controls[p], PressOn(c) PROVE StagesInv'
  <2>1. /\ phase = "batch" /\ focused /\ UNCHANGED <<at, change, lost, focused>>
        /\ phase' = IF pending' = Nothing THEN "batch" ELSE "drain"
    BY <1>1 DEF PressOn, ThenDrain, txn
  <2>2. Quiet(pending') /\ Quiet(followup') /\ (followup' = Nothing \/ pending' # Nothing)
    BY <1>1, <1>b, VolumesAreQuiet DEF PressOn
  <2> QED
    BY <1>b, <2>1, <2>2 DEF StagesInv
<1>2. ASSUME NEW p \in Pages, NEW c \in Controls[p], ReleaseOn(c) PROVE StagesInv'
  <2>1. /\ phase = "batch" /\ focused /\ UNCHANGED <<at, change, lost, focused, followup>>
        /\ phase' = (IF pending' = Nothing THEN "batch" ELSE "drain") /\ press' = Nothing
    BY <1>2 DEF ReleaseOn, ThenDrain, txn, StagesInv
  <2> QED
    BY <1>b, <2>1, VolumesAreQuiet DEF StagesInv
<1>3. ASSUME DrainEnds PROVE StagesInv'
  <2>1. /\ at = "idle" /\ UNCHANGED <<at, pending, followup, change, lost, press, focused>>
        /\ phase' \in {"batch", "unfocus", "over"} /\ (phase' = "unfocus" => phase = "unfocus drain")
        /\ phase' # "over" => pending = Nothing /\ followup = Nothing
    BY <1>3 DEF DrainEnds, Fail, Over, GoOn, kept, txn, staged, ui, StagesInv
  <2> QED
    BY <2>1, VolumesAreQuiet DEF StagesInv
<1>4. ASSUME InDrain, Begin PROVE StagesInv'
  <2>1. /\ at' # "idle" /\ change' = pending /\ pending # Nothing
        /\ pending' = Nothing /\ followup' = followup
    BY <1>4 DEF Begin
  <2>2. pending \in Changes /\ (pending \notin Volumes => ~Quiet(pending))
    BY <1>a, <2>1 DEF Quiet
  <2> QED
    BY <1>4, <2>1, <2>2, VolumesAreQuiet DEF InDrain, session, ui, StagesInv
<1>5. ASSUME InDrain, ApplyRuntime PROVE StagesInv'
  <2>1. phase \in {"drain", "unfocus drain"} /\ at # "idle" /\ change \in Changes
    BY <1>5 DEF InDrain, ApplyRuntime, StagesInv
  <2>2. at' # "idle" /\ UNCHANGED <<change, pending, followup>>
    BY <1>5, <2>1, ApplyRuntimeDoes DEF TypeOK, staged
  <2> QED
    BY <1>5, <2>1, <2>2 DEF InDrain, session, ui, StagesInv
<1> USE <1>a, <1>b, <1>c, <1>d, VolumesAreQuiet, PagesAre DEF StagesInv, session, ui, keyboard,
     batch
<1>6. ASSUME PressOff PROVE StagesInv'
  BY <1>6 DEF PressOff, live, txn, staged, keyboard, batch, ui
<1>7. ASSUME Move PROVE StagesInv'
  BY <1>7 DEF Move, ThenDrain, live, txn, ui, keyboard, batch, staged
<1>8. ASSUME Wheel PROVE StagesInv'
  BY <1>8 DEF Wheel, EndEdit, live, txn, batch, staged, ui, keyboard
<1>9. ASSUME Enter PROVE StagesInv'
  BY <1>9 DEF Enter, EndEdit, ThenDrain, live, txn, keyboard, batch, staged, ui
<1>10. ASSUME Type PROVE StagesInv'
  BY <1>10 DEF Type, live, txn, staged, keyboard, batch, ui
<1>11. ASSUME Escape PROVE StagesInv'
  BY <1>11 DEF Escape, ThenDrain, OpenMenu, CloseMenu, GoTo, live, txn, keyboard, batch, staged,
     ui
<1>12. ASSUME Arrow PROVE StagesInv'
  BY <1>12 DEF Arrow, Clamp, live, txn, staged, ui, batch, keyboard
<1>13. ASSUME FocusLost PROVE StagesInv'
  BY <1>13 DEF FocusLost, EndEdit, live, txn, batch, staged, ui, keyboard
<1>14. ASSUME LetGo PROVE StagesInv'
  BY <1>14 DEF LetGo, txn, staged, keyboard, batch, live, ui
<1>15. ASSUME FocusGained PROVE StagesInv'
  BY <1>15 DEF FocusGained, txn, staged, ui, keyboard, batch, live
<1>16. ASSUME Poll PROVE StagesInv'
  BY <1>16 DEF Poll, GoOn, World, batch, kept, live, txn, staged, ui, keyboard
<1>17. ASSUME EndBatch PROVE StagesInv'
  BY <1>17 DEF EndBatch, Fail, Finish, GoOn, batch, kept, Over, World, live, txn, staged, ui,
     keyboard
<1>18. ASSUME Frame PROVE StagesInv'
  BY <1>18 DEF Frame, Fail, Finish, GoOn, kept, Over, World, txn, staged, ui, keyboard, live,
     batch
<1>19. ASSUME Budget PROVE StagesInv'
  BY <1>19 DEF Budget, Finish, kept, Over, GoOn, World, txn, staged, ui, keyboard, Fail, live,
     batch
<1>20. ASSUME InDrain, SetGains PROVE StagesInv'
  BY <1>20 DEF InDrain, SetGains, Goto, GiveUp, live, staged
<1>21. ASSUME InDrain, Save PROVE StagesInv'
  BY <1>21 DEF InDrain, Save, Goto, GiveUp, live, staged
<1>22. ASSUME InDrain, Publish PROVE StagesInv'
  BY <1>22 DEF InDrain, Publish, Goto, GiveUp, live, staged
<1>23. ASSUME InDrain, UndoGains PROVE StagesInv'
  BY <1>23 DEF InDrain, UndoGains, Goto, GiveUp, live, staged
<1>24. ASSUME InDrain, UndoRuntime PROVE StagesInv'
  BY <1>24 DEF InDrain, UndoRuntime, Goto, GiveUp, live, staged
<1>25. ASSUME InDrain, Reclaim PROVE StagesInv'
  BY <1>25 DEF InDrain, Reclaim
<1>26. CASE UNCHANGED vars
  BY <1>26 DEF vars, live, txn, staged, session, ui, keyboard, batch
<1> QED
  BY NextActions, <1>1, <1>2, <1>3, <1>4, <1>5, <1>6, <1>7, <1>8, <1>9, <1>10, <1>11, <1>12,
     <1>13, <1>14, <1>15, <1>16, <1>17, <1>18, <1>19, <1>20, <1>21, <1>22, <1>23, <1>24, <1>25,
     <1>26 DEF TransactionStep

\* TypeOK in three parts, most actions touching but one of them.
Presses == (UNION {Controls[p] : p \in Pages}) \cup {Nothing}
Edits == Levels \cup {Nothing, "empty"}

UiTypes ==
  page \in Pages /\ reasons \subseteq {"menu", "focus"} /\ edit \in Edits /\ press \in Presses

LoopTypes ==
  /\ held \in -1..1 /\ down \in BOOLEAN /\ focused \in BOOLEAN
  /\ phase \in {"poll", "batch", "drain", "unfocus drain", "unfocus", "frame", "over"}
  /\ ending \in BOOLEAN /\ touched \in BOOLEAN /\ fatal \in BOOLEAN
  /\ captured \in {"none", "rendered", "other"}
  /\ exit \in {"no", "error", "rendered", "other"}

LEMMA TypeParts == TypeOK <=> TypeOKLive /\ UiTypes /\ LoopTypes
BY DEF TypeOK, UiTypes, LoopTypes, Presses, Edits

LEMMA UiTypesNext == TypeOKLive /\ UiTypes /\ [Next]_vars => UiTypes'
<1> SUFFICES ASSUME TypeOKLive, UiTypes, [Next]_vars PROVE UiTypes'
  OBVIOUS
<1>a. settings.volume \in Edits /\ Levels \cup {"empty", Nothing} \subseteq Edits
  BY DEF TypeOKLive, Settings, Edits
<1>b. Nothing \in Presses /\ \A p \in Pages : \A c \in Controls[p] : c \in Presses
  <2>1. Nothing \in Presses
    BY Zenon DEF Presses
  <2>2. ASSUME NEW p \in Pages, NEW c \in Controls[p] PROVE c \in Presses
    BY SMT, <2>2 DEF Presses
  <2> QED
    BY <2>1, <2>2
<1>c. {"gameplay", "pauseMenu", "settings"} \subseteq Pages
  BY PagesAre
<1>1. ASSUME Escape PROVE UiTypes'
  <2>1. press' = press /\ edit' \in {edit, Nothing}
    BY <1>1 DEF Escape
  <2>2. page' \in {page, "gameplay", "pauseMenu"}
    BY <1>1, PagesAre DEF Escape, OpenMenu, CloseMenu, GoTo, UiTypes
  <2>3. reasons' \in {reasons, {}, reasons \cup {"menu"}}
    BY <1>1, PagesAre DEF Escape, OpenMenu, CloseMenu, GoTo, UiTypes
  <2> QED
    BY <1>a, <1>c, <2>1, <2>2, <2>3 DEF UiTypes
<1> USE <1>a, <1>b, <1>c DEF UiTypes, session, ui, keyboard, batch
<1>2. ASSUME NEW p \in Pages, NEW c \in Controls[p], PressOn(c) PROVE UiTypes'
  BY <1>2 DEF PressOn, ThenDrain, live, txn, keyboard, batch, staged, ui
<1>3. ASSUME NEW p \in Pages, NEW c \in Controls[p], ReleaseOn(c) PROVE UiTypes'
  BY <1>3 DEF ReleaseOn, ThenDrain, Activate, live, txn, keyboard, batch, OpenMenu, CloseMenu,
     GoTo, Stage, Opposite, staged, ui, Clamp
<1>4. ASSUME PressOff PROVE UiTypes'
  BY <1>4 DEF PressOff, live, txn, staged, keyboard, batch, ui
<1>5. ASSUME Move PROVE UiTypes'
  BY <1>5 DEF Move, ThenDrain, live, txn, ui, keyboard, batch, staged
<1>6. ASSUME Wheel PROVE UiTypes'
  BY <1>6 DEF Wheel, EndEdit, live, txn, batch, staged, ui, keyboard
<1>7. ASSUME Enter PROVE UiTypes'
  BY <1>7 DEF Enter, EndEdit, ThenDrain, live, txn, keyboard, batch, staged, ui
<1>8. ASSUME Type PROVE UiTypes'
  BY <1>8 DEF Type, live, txn, staged, keyboard, batch, ui
<1>9. ASSUME Arrow PROVE UiTypes'
  BY <1>9 DEF Arrow, Clamp, live, txn, staged, ui, batch, keyboard
<1>10. ASSUME FocusLost PROVE UiTypes'
  BY <1>10 DEF FocusLost, EndEdit, live, txn, batch, staged, ui, keyboard
<1>11. ASSUME LetGo PROVE UiTypes'
  BY <1>11 DEF LetGo, txn, staged, keyboard, batch, live, ui
<1>12. ASSUME FocusGained PROVE UiTypes'
  BY <1>12 DEF FocusGained, txn, staged, ui, keyboard, batch, live
<1>13. ASSUME Poll PROVE UiTypes'
  BY <1>13 DEF Poll, GoOn, World, batch, kept, live, txn, staged, ui, keyboard
<1>14. ASSUME EndBatch PROVE UiTypes'
  BY <1>14 DEF EndBatch, Fail, Finish, GoOn, batch, kept, Over, World, live, txn, staged, ui,
     keyboard
<1>15. ASSUME Frame PROVE UiTypes'
  BY <1>15 DEF Frame, Fail, Finish, GoOn, kept, Over, World, txn, staged, ui, keyboard, live,
     batch
<1>16. ASSUME Budget PROVE UiTypes'
  BY <1>16 DEF Budget, Finish, kept, Over, GoOn, World, txn, staged, ui, keyboard, Fail, live,
     batch
<1>17. ASSUME DrainEnds PROVE UiTypes'
  BY <1>17 DEF DrainEnds, Fail, Over, GoOn, kept, batch, txn, staged, ui, keyboard
<1>18. ASSUME InDrain, Begin PROVE UiTypes'
  BY <1>18 DEF InDrain, Begin
<1>19. ASSUME InDrain, ApplyRuntime PROVE UiTypes'
  BY <1>19 DEF InDrain, ApplyRuntime, Goto, GiveUp, live, staged
<1>20. ASSUME InDrain, SetGains PROVE UiTypes'
  BY <1>20 DEF InDrain, SetGains, Goto, GiveUp, live, staged
<1>21. ASSUME InDrain, Save PROVE UiTypes'
  BY <1>21 DEF InDrain, Save, Goto, GiveUp, live, staged
<1>22. ASSUME InDrain, Publish PROVE UiTypes'
  BY <1>22 DEF InDrain, Publish, Goto, GiveUp, live, staged
<1>23. ASSUME InDrain, UndoGains PROVE UiTypes'
  BY <1>23 DEF InDrain, UndoGains, Goto, GiveUp, live, staged
<1>24. ASSUME InDrain, UndoRuntime PROVE UiTypes'
  BY <1>24 DEF InDrain, UndoRuntime, Goto, GiveUp, live, staged
<1>25. ASSUME InDrain, Reclaim PROVE UiTypes'
  BY <1>25 DEF InDrain, Reclaim
<1>26. CASE UNCHANGED vars
  BY <1>26 DEF vars, live, txn, staged, session, ui, keyboard, batch
<1> QED
  BY NextActions, <1>1, <1>2, <1>3, <1>4, <1>5, <1>6, <1>7, <1>8, <1>9, <1>10, <1>11, <1>12,
     <1>13, <1>14, <1>15, <1>16, <1>17, <1>18, <1>19, <1>20, <1>21, <1>22, <1>23, <1>24, <1>25,
     <1>26 DEF TransactionStep

LEMMA LoopTypesNext == LoopTypes /\ [Next]_vars => LoopTypes'
<1> SUFFICES ASSUME LoopTypes, [Next]_vars PROVE LoopTypes'
  OBVIOUS
<1>1. ASSUME FocusLost PROVE LoopTypes'
  <2>1. /\ focused' = FALSE /\ held' = 0 /\ down' = down /\ phase' = "unfocus drain"
        /\ UNCHANGED <<batch, exit>>
    BY <1>1 DEF FocusLost
  <2>a. 0 \in -1..1
    OBVIOUS
  <2>b. held' = 0
    BY <2>1
  <2>2. held' \in -1..1
    BY Zenon, <2>a, <2>b
  <2>3. /\ ending' = ending /\ touched' = touched /\ fatal' = fatal /\ captured' = captured
        /\ exit' = exit
    BY <2>1 DEF batch
  <2> QED
    BY Zenon, <2>1, <2>2, <2>3 DEF LoopTypes
<1> USE DEF LoopTypes, session, ui, keyboard, batch
<1>2. ASSUME NEW p \in Pages, NEW c \in Controls[p], PressOn(c) PROVE LoopTypes'
  BY <1>2 DEF PressOn, ThenDrain, live, txn, keyboard, batch, staged, ui
<1>3. ASSUME NEW p \in Pages, NEW c \in Controls[p], ReleaseOn(c) PROVE LoopTypes'
  BY <1>3 DEF ReleaseOn, ThenDrain, Activate, live, txn, keyboard, batch, OpenMenu, CloseMenu,
     GoTo, Stage, Opposite, staged, ui, Clamp
<1>4. ASSUME PressOff PROVE LoopTypes'
  BY <1>4 DEF PressOff, live, txn, staged, keyboard, batch, ui
<1>5. ASSUME Move PROVE LoopTypes'
  BY <1>5 DEF Move, ThenDrain, live, txn, ui, keyboard, batch, staged
<1>6. ASSUME Wheel PROVE LoopTypes'
  BY <1>6 DEF Wheel, EndEdit, live, txn, batch, staged, ui, keyboard
<1>7. ASSUME Enter PROVE LoopTypes'
  BY <1>7 DEF Enter, EndEdit, ThenDrain, live, txn, keyboard, batch, staged, ui
<1>8. ASSUME Type PROVE LoopTypes'
  BY <1>8 DEF Type, live, txn, staged, keyboard, batch, ui
<1>9. ASSUME Escape PROVE LoopTypes'
  BY <1>9 DEF Escape, ThenDrain, OpenMenu, CloseMenu, GoTo, live, txn, keyboard, batch, staged,
     ui
<1>10. ASSUME Arrow PROVE LoopTypes'
  BY <1>10 DEF Arrow, Clamp, live, txn, staged, ui, batch, keyboard
<1>11. ASSUME LetGo PROVE LoopTypes'
  BY <1>11 DEF LetGo, txn, staged, keyboard, batch, live, ui
<1>12. ASSUME FocusGained PROVE LoopTypes'
  BY <1>12 DEF FocusGained, txn, staged, ui, keyboard, batch, live
<1>13. ASSUME Poll PROVE LoopTypes'
  BY <1>13 DEF Poll, GoOn, World, batch, kept, live, txn, staged, ui, keyboard
<1>14. ASSUME EndBatch PROVE LoopTypes'
  BY <1>14 DEF EndBatch, Fail, Finish, GoOn, batch, kept, Over, World, live, txn, staged, ui,
     keyboard
<1>15. ASSUME Frame PROVE LoopTypes'
  BY <1>15 DEF Frame, Fail, Finish, GoOn, kept, Over, World, txn, staged, ui, keyboard, live,
     batch
<1>16. ASSUME Budget PROVE LoopTypes'
  BY <1>16 DEF Budget, Finish, kept, Over, GoOn, World, txn, staged, ui, keyboard, Fail, live,
     batch
<1>17. ASSUME DrainEnds PROVE LoopTypes'
  BY <1>17 DEF DrainEnds, Fail, Over, GoOn, kept, batch, txn, staged, ui, keyboard
<1>18. ASSUME InDrain, Begin PROVE LoopTypes'
  BY <1>18 DEF InDrain, Begin
<1>19. ASSUME InDrain, ApplyRuntime PROVE LoopTypes'
  BY <1>19 DEF InDrain, ApplyRuntime, Goto, GiveUp, live, staged
<1>20. ASSUME InDrain, SetGains PROVE LoopTypes'
  BY <1>20 DEF InDrain, SetGains, Goto, GiveUp, live, staged
<1>21. ASSUME InDrain, Save PROVE LoopTypes'
  BY <1>21 DEF InDrain, Save, Goto, GiveUp, live, staged
<1>22. ASSUME InDrain, Publish PROVE LoopTypes'
  BY <1>22 DEF InDrain, Publish, Goto, GiveUp, live, staged
<1>23. ASSUME InDrain, UndoGains PROVE LoopTypes'
  BY <1>23 DEF InDrain, UndoGains, Goto, GiveUp, live, staged
<1>24. ASSUME InDrain, UndoRuntime PROVE LoopTypes'
  BY <1>24 DEF InDrain, UndoRuntime, Goto, GiveUp, live, staged
<1>25. ASSUME InDrain, Reclaim PROVE LoopTypes'
  BY <1>25 DEF InDrain, Reclaim
<1>26. CASE UNCHANGED vars
  BY <1>26 DEF vars, live, txn, staged, session, ui, keyboard, batch
<1> QED
  BY NextActions, <1>1, <1>2, <1>3, <1>4, <1>5, <1>6, <1>7, <1>8, <1>9, <1>10, <1>11, <1>12,
     <1>13, <1>14, <1>15, <1>16, <1>17, <1>18, <1>19, <1>20, <1>21, <1>22, <1>23, <1>24, <1>25,
     <1>26 DEF TransactionStep

LEMMA LiveTypesNext == TypeOK /\ StagesInv /\ [Next]_vars => TypeOKLive'
<1> DEFINE Pending == Changes \cup {Nothing}
<1> SUFFICES ASSUME TypeOKLive, UiTypes, LoopTypes, StagesInv, [Next]_vars PROVE TypeOKLive'
  BY TypeParts
<1>a. \A v, before : before \in Pending => Staged(v, before) \in Pending
  BY StagedGives, VolumesAreQuiet
<1>b. /\ \A m \in Modes : Change("mode", m) \in Pending
      /\ \A s \in Switch : Change("confine", s) \in Pending /\ Change("pause", s) \in Pending
      /\ \A s : Opposite(s) \in Switch
  BY DEF Changes, Opposite, Switch
<1>c. settings.confine \in Switch /\ settings.volume \in Levels
  BY DEF TypeOKLive, Settings
<1>d. pending \in Pending /\ followup \in Pending /\ Nothing \in Pending
  BY DEF TypeOKLive
<1>e. ASSUME UNCHANGED <<live, txn>>, pending' \in Pending, followup' \in Pending
      PROVE  TypeOKLive'
  BY <1>e DEF TypeOKLive, live, txn
<1>f. at # "idle" => change \in Changes
  BY DEF StagesInv
<1> HIDE DEF Pending
<1>1. ASSUME NEW p \in Pages, NEW c \in Controls[p], PressOn(c) PROVE TypeOKLive'
  <2>1. UNCHANGED <<live, txn>>
    BY <1>1 DEF PressOn
  <2>2. pending' \in Pending /\ followup' \in Pending
    BY <1>1, <1>a, <1>d DEF PressOn
  <2> QED
    BY <1>e, <2>1, <2>2
<1>2. ASSUME NEW p \in Pages, NEW c \in Controls[p], ReleaseOn(c) PROVE TypeOKLive'
  <2>1. UNCHANGED <<live, txn, followup>>
    BY <1>2 DEF ReleaseOn
  <2>2. pending' \in Pending
    BY <1>2, <1>b, <1>d DEF ReleaseOn, Activate, Stage
  <2> QED
    BY <1>d, <1>e, <2>1, <2>2
<1>3. ASSUME PressOff PROVE TypeOKLive'
  BY <1>3, <1>a, <1>d, <1>e DEF PressOff, staged
<1>4. ASSUME Move PROVE TypeOKLive'
  BY <1>4, <1>a, <1>d, <1>e DEF Move
<1>5. ASSUME Wheel PROVE TypeOKLive'
  BY <1>5, <1>a, <1>d, <1>e DEF Wheel, EndEdit
<1>6. ASSUME Enter PROVE TypeOKLive'
  BY <1>6, <1>a, <1>d, <1>e DEF Enter, EndEdit
<1>7. ASSUME Type PROVE TypeOKLive'
  BY <1>7, <1>a, <1>d, <1>e DEF Type, staged
<1>8. ASSUME Escape PROVE TypeOKLive'
  BY <1>8, <1>a, <1>d, <1>e DEF Escape
<1>9. ASSUME Arrow PROVE TypeOKLive'
  BY <1>9, <1>a, <1>d, <1>e DEF Arrow, staged
<1>10. ASSUME FocusLost PROVE TypeOKLive'
  BY <1>10, <1>a, <1>d, <1>e DEF FocusLost, EndEdit
<1>11. ASSUME LetGo PROVE TypeOKLive'
  <2>1. /\ grab' \in Switch \cup {"unknown"}
        /\ UNCHANGED <<settings, disk, window, gain, claimed, txn, staged>>
    BY <1>11, <1>c DEF LetGo, Switch
  <2> QED
    BY <2>1 DEF TypeOKLive, txn, staged
<1>12. ASSUME FocusGained PROVE TypeOKLive'
  <2>1. /\ grab' \in Switch \cup {"unknown"}
        /\ UNCHANGED <<settings, disk, window, gain, claimed, txn, staged>>
    BY <1>12, <1>c DEF FocusGained, Switch
  <2> QED
    BY <2>1 DEF TypeOKLive, txn, staged
<1>13. ASSUME Poll PROVE TypeOKLive'
  <2>1. /\ claimed' \in {claimed, FALSE}
        /\ UNCHANGED <<settings, disk, window, grab, gain, txn, staged>>
    BY <1>13 DEF Poll, Finish, Fail, Over, GoOn, kept
  <2> QED
    BY <2>1 DEF TypeOKLive, txn, staged
<1>14. ASSUME EndBatch PROVE TypeOKLive'
  <2>1. /\ claimed' \in {claimed, FALSE}
        /\ UNCHANGED <<settings, disk, window, grab, gain, txn, staged>>
    BY <1>14 DEF EndBatch, Finish, Fail, Over, GoOn, kept
  <2> QED
    BY <2>1 DEF TypeOKLive, txn, staged
<1>15. ASSUME Frame PROVE TypeOKLive'
  <2>1. /\ claimed' \in {claimed, FALSE}
        /\ UNCHANGED <<settings, disk, window, grab, gain, txn, staged>>
    BY <1>15 DEF Frame, Finish, Fail, Over, GoOn, kept
  <2> QED
    BY <2>1 DEF TypeOKLive, txn, staged
<1>16. ASSUME Budget PROVE TypeOKLive'
  <2>1. /\ claimed' \in {claimed, FALSE}
        /\ UNCHANGED <<settings, disk, window, grab, gain, txn, staged>>
    BY <1>16 DEF Budget, Finish, Fail, Over, GoOn, kept
  <2> QED
    BY <2>1 DEF TypeOKLive, txn, staged
<1>17. ASSUME DrainEnds PROVE TypeOKLive'
  <2>1. /\ claimed' \in {claimed, FALSE}
        /\ UNCHANGED <<settings, disk, window, grab, gain, txn, staged>>
    BY <1>17 DEF DrainEnds, Finish, Fail, Over, GoOn, kept
  <2> QED
    BY <2>1 DEF TypeOKLive, txn, staged
<1>18. ASSUME InDrain, Begin PROVE TypeOKLive'
  BY <1>18 DEF Begin, TypeOKLive
<1>19. ASSUME InDrain, ApplyRuntime PROVE TypeOKLive'
  <2>1. at # "idle" /\ change \in Changes
    BY <1>19, <1>f DEF ApplyRuntime
  <2>2. at' \in {"gains", "reclaim", "undo runtime"} /\ lost' \in {lost, TRUE}
    BY <1>19, <2>1, ApplyRuntimeDoes
  <2>3. grab' \in Switch \cup {"unknown"}
    BY <1>19, <2>1, ApplyRuntimeDoes DEF TypeOKLive
  <2> QED
    BY <1>19, <2>1, <2>2, <2>3, ApplyRuntimeDoes DEF TypeOKLive, staged
<1>20. ASSUME InDrain, SetGains PROVE TypeOKLive'
  <2>1. Candidate \in Settings /\ Candidate.volume \in Levels
    BY <1>20, <1>f, CandidateParts DEF SetGains, TypeOKLive, Settings
  <2> QED
    BY <1>20, <1>c, <2>1 DEF SetGains, Goto, GiveUp, staged, TypeOKLive
<1>21. ASSUME InDrain, Save PROVE TypeOKLive'
  <2>1. Candidate \in Settings /\ Candidate.volume \in Levels
    BY <1>21, <1>f, CandidateParts DEF Save, TypeOKLive, Settings
  <2> QED
    BY <1>21, <1>c, <2>1 DEF Save, Goto, GiveUp, staged, TypeOKLive
<1>22. ASSUME InDrain, Publish PROVE TypeOKLive'
  <2>1. Candidate \in Settings /\ Candidate.volume \in Levels
    BY <1>22, <1>f, CandidateParts DEF Publish, TypeOKLive, Settings
  <2> QED
    BY <1>22, <1>c, <2>1 DEF Publish, Goto, GiveUp, staged, TypeOKLive
<1>23. ASSUME InDrain, UndoGains PROVE TypeOKLive'
  BY <1>23, <1>c DEF UndoGains, Goto, GiveUp, staged, TypeOKLive
<1>24. ASSUME InDrain, UndoRuntime PROVE TypeOKLive'
  <2>1. at # "idle" /\ change \in Changes
    BY <1>24, <1>f DEF UndoRuntime
  <2>2. at' = "reclaim" /\ lost' \in {lost, TRUE}
    BY <1>24, <2>1, UndoRuntimeDoes
  <2>3. grab' \in Switch \cup {"unknown"}
    BY <1>24, <1>c, <2>1, UndoRuntimeDoes DEF TypeOKLive
  <2> QED
    BY <1>24, <2>1, <2>2, <2>3, UndoRuntimeDoes DEF TypeOKLive, staged
<1>25. ASSUME InDrain, Reclaim PROVE TypeOKLive'
  BY <1>25 DEF Reclaim, TypeOKLive
<1>26. CASE UNCHANGED vars
  BY <1>26, <1>d, <1>e DEF vars, live, txn, staged, session, ui, keyboard, batch
<1> QED
  BY NextActions, <1>1, <1>2, <1>3, <1>4, <1>5, <1>6, <1>7, <1>8, <1>9, <1>10, <1>11, <1>12,
     <1>13, <1>14, <1>15, <1>16, <1>17, <1>18, <1>19, <1>20, <1>21, <1>22, <1>23, <1>24, <1>25,
     <1>26 DEF TransactionStep

\* A transaction that is over, in a window that nothing else touches.
LEMMA LiveKept ==
  ASSUME at = "idle", LiveInv,
         UNCHANGED <<settings, disk, window, grab, gain, txn, focused>>,
         claimed' = claimed \/ phase' = "over", phase # "over",
         lost \/ (phase \in {"unfocus drain", "unfocus"} <=> phase' \in {"unfocus drain", "unfocus"})
  PROVE  LiveInv'
BY DEF LiveInv, Shaped, Grabbed, txn

LEMMA LiveNext == TypeOK /\ StagesInv /\ LiveInv /\ EndInv /\ [Next]_vars => LiveInv'
<1> SUFFICES ASSUME TypeOKLive, StagesInv, LiveInv, EndInv, [Next]_vars PROVE LiveInv'
  BY TypeParts
<1>a. at # "idle" => phase \in {"drain", "unfocus drain"}
  BY DEF StagesInv
<1>b. phase = "batch" => at = "idle" /\ ~lost
  BY DEF StagesInv, EndInv
<1>c. ASSUME at # "idle"
      PROVE  /\ change \in Changes
             /\ Candidate.mode = IF change.kind = "mode" THEN change.to ELSE settings.mode
             /\ Candidate.volume = IF change.kind = "volume" THEN change.to ELSE settings.volume
             /\ Candidate.confine = IF change.kind = "confine" THEN change.to ELSE settings.confine
  BY <1>c, CandidateParts DEF StagesInv, TypeOKLive
<1>d. ASSUME at # "idle", change.kind = "confine" PROVE phase = "drain" /\ focused
  BY <1>d, VolumeParts DEF StagesInv
<1>g. InDrain => phase \in {"drain", "unfocus drain"} /\ phase' = phase /\ focused' = focused
  BY DEF InDrain, session
<1>1. ASSUME NEW p \in Pages, NEW c \in Controls[p], PressOn(c) PROVE LiveInv'
  <2>1. /\ phase = "batch" /\ phase' \in {"batch", "drain"} /\ focused' = focused
        /\ UNCHANGED <<live, txn>>
    BY <1>1 DEF PressOn, ThenDrain
  <2> QED
    BY <1>b, <2>1, LiveKept DEF live
<1>2. ASSUME NEW p \in Pages, NEW c \in Controls[p], ReleaseOn(c) PROVE LiveInv'
  <2>1. /\ phase = "batch" /\ phase' \in {"batch", "drain"} /\ focused' = focused
        /\ UNCHANGED <<live, txn>>
    BY <1>2 DEF ReleaseOn, ThenDrain
  <2> QED
    BY <1>b, <2>1, LiveKept DEF live
<1>3. ASSUME PressOff PROVE LiveInv'
  <2>1. /\ phase = "batch" /\ phase' \in {"batch", "drain"} /\ focused' = focused
        /\ UNCHANGED <<live, txn>>
    BY <1>3 DEF PressOff
  <2> QED
    BY <1>b, <2>1, LiveKept DEF live
<1>4. ASSUME Move PROVE LiveInv'
  <2>1. /\ phase = "batch" /\ phase' \in {"batch", "drain"} /\ focused' = focused
        /\ UNCHANGED <<live, txn>>
    BY <1>4 DEF Move, ThenDrain
  <2> QED
    BY <1>b, <2>1, LiveKept DEF live
<1>5. ASSUME Wheel PROVE LiveInv'
  <2>1. /\ phase = "batch" /\ phase' \in {"batch", "drain"} /\ focused' = focused
        /\ UNCHANGED <<live, txn>>
    BY <1>5 DEF Wheel
  <2> QED
    BY <1>b, <2>1, LiveKept DEF live
<1>6. ASSUME Enter PROVE LiveInv'
  <2>1. /\ phase = "batch" /\ phase' \in {"batch", "drain"} /\ focused' = focused
        /\ UNCHANGED <<live, txn>>
    BY <1>6 DEF Enter, ThenDrain
  <2> QED
    BY <1>b, <2>1, LiveKept DEF live
<1>7. ASSUME Type PROVE LiveInv'
  <2>1. /\ phase = "batch" /\ phase' \in {"batch", "drain"} /\ focused' = focused
        /\ UNCHANGED <<live, txn>>
    BY <1>7 DEF Type
  <2> QED
    BY <1>b, <2>1, LiveKept DEF live
<1>8. ASSUME Escape PROVE LiveInv'
  <2>1. /\ phase = "batch" /\ phase' \in {"batch", "drain"} /\ focused' = focused
        /\ UNCHANGED <<live, txn>>
    BY <1>8 DEF Escape, ThenDrain
  <2> QED
    BY <1>b, <2>1, LiveKept DEF live
<1>9. ASSUME Arrow PROVE LiveInv'
  <2>1. /\ phase = "batch" /\ phase' \in {"batch", "drain"} /\ focused' = focused
        /\ UNCHANGED <<live, txn>>
    BY <1>9 DEF Arrow
  <2> QED
    BY <1>b, <2>1, LiveKept DEF live
<1>10. ASSUME FocusLost PROVE LiveInv'
  <2>1. /\ phase = "batch" /\ phase' = "unfocus drain" /\ focused /\ ~focused'
        /\ UNCHANGED <<live, txn>>
    BY <1>10 DEF FocusLost
  <2> QED
    BY <1>b, <2>1 DEF LiveInv, Shaped, Grabbed, live, txn
<1>11. ASSUME LetGo PROVE LiveInv'
  <2>1. phase = "unfocus" /\ phase' = "batch" /\ ~focused' /\ at = "idle"
    BY <1>11, <1>a DEF LetGo, StagesInv
  <2>2. UNCHANGED <<settings, disk, window, gain, claimed, txn>> /\ grab' \in {"off", "unknown"}
    BY <1>11 DEF LetGo
  <2> QED
    BY <2>1, <2>2 DEF LiveInv, Shaped, Grabbed, txn
<1>12. ASSUME FocusGained PROVE LiveInv'
  <2>1. phase = "batch" /\ phase' = "batch" /\ focused' /\ at = "idle"
    BY <1>12, <1>a DEF FocusGained
  <2>2. /\ UNCHANGED <<settings, disk, window, gain, claimed, txn>>
        /\ grab' \in {settings.confine, "unknown"}
    BY <1>12 DEF FocusGained
  <2> QED
    BY <2>1, <2>2 DEF LiveInv, Shaped, Grabbed, txn
<1>13. ASSUME Poll PROVE LiveInv'
  <2>1. /\ phase = "poll" /\ phase' \in {"batch"}
        /\ claimed' = claimed \/ phase' = "over"
        /\ UNCHANGED <<settings, disk, window, grab, gain, txn, focused>>
    BY <1>13 DEF Poll, Finish, Fail, Over, GoOn, kept
  <2> QED
    BY <1>a, <2>1, LiveKept
<1>14. ASSUME EndBatch PROVE LiveInv'
  <2>1. /\ phase = "batch" /\ phase' \in {"frame", "over"}
        /\ claimed' = claimed \/ phase' = "over"
        /\ UNCHANGED <<settings, disk, window, grab, gain, txn, focused>>
    BY <1>14 DEF EndBatch, Finish, Fail, Over, GoOn, kept
  <2> QED
    BY <1>a, <2>1, LiveKept
<1>15. ASSUME Frame PROVE LiveInv'
  <2>1. /\ phase = "frame" /\ phase' \in {"poll", "over"}
        /\ claimed' = claimed \/ phase' = "over"
        /\ UNCHANGED <<settings, disk, window, grab, gain, txn, focused>>
    BY <1>15 DEF Frame, Finish, Fail, Over, GoOn, kept
  <2> QED
    BY <1>a, <2>1, LiveKept
<1>16. ASSUME Budget PROVE LiveInv'
  <2>1. /\ phase = "poll" /\ phase' \in {"over"}
        /\ claimed' = claimed \/ phase' = "over"
        /\ UNCHANGED <<settings, disk, window, grab, gain, txn, focused>>
    BY <1>16 DEF Budget, Finish, Fail, Over, GoOn, kept
  <2> QED
    BY <1>a, <2>1, LiveKept
<1>17. ASSUME DrainEnds PROVE LiveInv'
  <2>1. /\ phase \in {"drain", "unfocus drain"} /\ at = "idle"
        /\ \/ lost /\ phase' = "over"
           \/ ~lost /\ claimed' = claimed /\ phase' = IF phase = "drain" THEN "batch" ELSE "unfocus"
        /\ UNCHANGED <<settings, disk, window, grab, gain, txn, focused>>
    BY <1>17 DEF DrainEnds, Fail, Over, GoOn, kept
  <2> QED
    BY <2>1, LiveKept
<1>18. ASSUME InDrain, Begin PROVE LiveInv'
  <2>1. ~lost
    BY <1>18 DEF Begin, StagesInv
  <2>2. /\ at = "idle" /\ at' = "runtime" /\ change' = pending
        /\ claimed' = (claimed /\ pending.kind # "mode")
        /\ UNCHANGED <<settings, disk, window, grab, gain, lost, phase, focused>>
    BY <1>18, <1>g DEF Begin
  <2>3. phase # "over"
    BY <1>18, <1>g
  <2> QED
    BY <2>1, <2>2, <2>3 DEF LiveInv, Shaped, Grabbed
<1>19. ASSUME InDrain, ApplyRuntime PROVE LiveInv'
  <2>1. at = "runtime" /\ change \in Changes /\ (change.kind = "mode" \/ claimed)
    BY <1>19, <1>c, <1>g DEF ApplyRuntime, LiveInv
  <2>2. /\ UNCHANGED <<settings, disk, gain, claimed, change, phase, focused>>
        /\ Candidate' = Candidate
    BY <1>19, <1>g, <2>1, ApplyRuntimeDoes DEF Candidate
  <2>3. ~lost /\ disk = settings /\ Shaped(settings) /\ Grabbed(settings) /\ gain = settings.volume
    BY <2>1 DEF LiveInv
  <2>4. CASE at' = "gains"
    <3>1. /\ lost' = lost
          /\ window' = IF change.kind = "mode" THEN Shape(change.to) ELSE window
          /\ grab' = IF change.kind = "confine" THEN change.to ELSE grab
      BY <1>19, <2>1, <2>4, ApplyRuntimeDoes
    <3> QED
      BY <1>c, <1>d, <2>1, <2>2, <2>3, <2>4, <3>1 DEF LiveInv, Shaped, Grabbed
  <2>5. CASE at' = "reclaim"
    <3>1. change.kind = "mode" /\ grab' = grab /\ (lost' = TRUE \/ window' = Shape(settings.mode))
      BY <1>19, <2>1, <2>5, ApplyRuntimeDoes
    <3> QED
      BY <2>2, <2>3, <2>5, <3>1 DEF LiveInv, Shaped, Grabbed
  <2>6. CASE at' = "undo runtime"
    <3>1. change.kind = "confine" /\ window' = window /\ lost' = lost
      BY <1>19, <2>1, <2>6, ApplyRuntimeDoes
    <3> QED
      BY <1>c, <2>1, <2>2, <2>3, <2>6, <3>1 DEF LiveInv, Shaped
  <2> QED
    BY <1>19, <2>1, <2>4, <2>5, <2>6, ApplyRuntimeDoes
<1>20. ASSUME InDrain, SetGains PROVE LiveInv'
  <2>1. Candidate' = Candidate
    BY <1>20 DEF SetGains, Goto, GiveUp, Candidate
  <2>2. /\ at = "gains" /\ settings' = settings /\ disk' = disk /\ window' = window
        /\ grab' = grab /\ claimed' = claimed /\ change' = change /\ lost' = lost
        /\ (at' = "save" /\ gain' = Candidate.volume) \/ at' = "undo gains"
    BY <1>20 DEF SetGains, Goto
  <2>3. ~lost /\ Shaped(Candidate) /\ Grabbed(Candidate)
    BY <2>2 DEF LiveInv
  <2>4. window' = window /\ grab' = grab /\ phase' = phase /\ focused' = focused
    BY Zenon, <1>20, <1>g, <2>2
  <2>5. Shaped(Candidate)'
    BY <2>1, <2>3, <2>4 DEF Shaped
  <2>6. Grabbed(Candidate)'
    BY Zenon, <2>1, <2>3, <2>4 DEF Grabbed
  <2> QED
    BY <1>20, <1>g, <2>1, <2>2, <2>3, <2>5, <2>6 DEF LiveInv
<1>21. ASSUME InDrain, Save PROVE LiveInv'
  <2>1. Candidate' = Candidate
    BY <1>21 DEF Save, Goto, GiveUp, Candidate
  <2>2. /\ at = "save" /\ settings' = settings /\ window' = window /\ grab' = grab
        /\ gain' = gain /\ claimed' = claimed /\ change' = change /\ lost' = lost
        /\ (at' = "publish" /\ disk' = Candidate) \/ (at' = "undo gains" /\ disk' = disk)
    BY <1>21 DEF Save, Goto
  <2>3. ~lost /\ Shaped(Candidate) /\ Grabbed(Candidate)
    BY <2>2 DEF LiveInv
  <2>4. window' = window /\ grab' = grab /\ phase' = phase /\ focused' = focused
    BY Zenon, <1>21, <1>g, <2>2
  <2>5. Shaped(Candidate)'
    BY <2>1, <2>3, <2>4 DEF Shaped
  <2>6. Grabbed(Candidate)'
    BY Zenon, <2>1, <2>3, <2>4 DEF Grabbed
  <2> QED
    BY <1>21, <1>g, <2>1, <2>2, <2>3, <2>5, <2>6 DEF LiveInv
<1>22. ASSUME InDrain, Publish PROVE LiveInv'
  <2>1. /\ at = "publish" /\ disk' = disk /\ window' = window /\ grab' = grab
        /\ gain' = gain /\ claimed' = claimed /\ change' = change /\ lost' = lost
        /\ settings' = Candidate /\ at' = "reclaim"
    BY <1>22 DEF Publish, Goto
  <2>2. /\ ~lost /\ disk = Candidate /\ Shaped(Candidate) /\ Grabbed(Candidate)
        /\ gain = Candidate.volume
    BY <2>1 DEF LiveInv
  <2>3. window' = window /\ grab' = grab /\ phase' = phase /\ focused' = focused
    BY Zenon, <1>22, <1>g, <2>1
  <2>4. Shaped(settings)'
    BY <2>1, <2>2, <2>3 DEF Shaped
  <2>5. Grabbed(settings)'
    BY Zenon, <2>1, <2>2, <2>3 DEF Grabbed
  <2> QED
    BY <1>22, <1>g, <2>1, <2>2, <2>4, <2>5 DEF LiveInv
<1>23. ASSUME InDrain, UndoGains PROVE LiveInv'
  <2>1. Candidate' = Candidate
    BY <1>23 DEF UndoGains, Goto, GiveUp, Candidate
  <2>2. /\ at = "undo gains" /\ at' = "undo runtime"
        /\ settings' = settings /\ disk' = disk /\ window' = window
        /\ grab' = grab /\ claimed' = claimed /\ change' = change
        /\ (gain' = settings.volume /\ lost' = lost) \/ lost'
    BY <1>23 DEF UndoGains, Goto, GiveUp
  <2>3. ~lost /\ disk = settings /\ Shaped(Candidate) /\ Grabbed(Candidate)
    BY <2>2 DEF LiveInv
  <2>4. window' = window /\ grab' = grab /\ phase' = phase /\ focused' = focused
    BY Zenon, <1>23, <1>g, <2>2
  <2>5. Shaped(Candidate)'
    BY <2>1, <2>3, <2>4 DEF Shaped
  <2>6. change.kind = "confine" \/ Candidate.confine = settings.confine
    BY <1>c, <2>2
  <2>7. change.kind = "confine" \/ Grabbed(settings)
    BY Zenon, <2>3, <2>6 DEF Grabbed
  <2>8. change'.kind = "confine" \/ Grabbed(settings)'
    BY Zenon, <2>2, <2>4, <2>7 DEF Grabbed
  <2> QED
    BY <1>23, <1>g, <2>1, <2>2, <2>3, <2>5, <2>8 DEF LiveInv
<1>24. ASSUME InDrain, UndoRuntime PROVE LiveInv'
  <2>1. at = "undo runtime" /\ change \in Changes /\ (change.kind = "mode" \/ claimed \/ lost)
    BY <1>24, <1>c, <1>g DEF UndoRuntime, LiveInv
  <2>2. UNCHANGED <<settings, disk, gain, claimed, change, phase, focused>> /\ at' = "reclaim"
    BY <1>24, <1>g, <2>1, UndoRuntimeDoes
  <2>3. /\ disk = settings /\ Shaped(Candidate) /\ (change.kind = "confine" \/ Grabbed(settings))
        /\ lost \/ gain = settings.volume
    BY <2>1 DEF LiveInv
  <2>4. CASE lost' = TRUE
    BY <2>2, <2>4 DEF LiveInv
  <2>5. CASE /\ lost' = lost
             /\ window' = IF change.kind = "mode" THEN Shape(settings.mode) ELSE window
             /\ grab' = IF change.kind = "confine" THEN settings.confine ELSE grab
    BY <1>c, <1>d, <2>1, <2>2, <2>3, <2>5 DEF LiveInv, Shaped, Grabbed
  <2> QED
    BY <1>24, <2>1, <2>4, <2>5, UndoRuntimeDoes
<1>25. ASSUME InDrain, Reclaim PROVE LiveInv'
  <2>1. /\ at = "reclaim" /\ at' \in {"idle", "runtime"} /\ (at' = "runtime" => ~lost')
        /\ UNCHANGED <<settings, disk, window, grab, gain, phase, focused>>
        /\ lost => lost'
    BY <1>25, <1>g DEF Reclaim
  <2>2. claimed' \/ lost'
    BY <1>25, <1>g DEF Reclaim
  <2> QED
    BY <2>1, <2>2 DEF LiveInv, Shaped, Grabbed
<1>26. CASE UNCHANGED vars
  BY <1>26 DEF LiveInv, Shaped, Grabbed, Candidate, vars, live, txn, staged, session, ui,
     keyboard, batch
<1> QED
  BY NextActions, <1>1, <1>2, <1>3, <1>4, <1>5, <1>6, <1>7, <1>8, <1>9, <1>10, <1>11, <1>12,
     <1>13, <1>14, <1>15, <1>16, <1>17, <1>18, <1>19, <1>20, <1>21, <1>22, <1>23, <1>24, <1>25,
     <1>26 DEF TransactionStep
-----------------------------------------------------------------------------
LEMMA InitSession == Init => SessionInv
<1> SUFFICES ASSUME Init PROVE SessionInv
  OBVIOUS
<1>1. Shape(settings.mode) \in Shapes
  BY DEF Shape, Shapes
<1>2. TypeOKLive
  BY <1>1 DEF Init, TypeOKLive, Settings
<1>3. UiTypes
  <2>1. page \in Pages
    BY PagesAre DEF Init
  <2>2. press \in Presses
    BY Zenon DEF Init, Presses
  <2> QED
    BY <2>1, <2>2 DEF Init, UiTypes, Edits
<1>4. LoopTypes
  <2>1. held \in -1..1
    BY DEF Init
  <2> QED
    BY <2>1 DEF Init, LoopTypes
<1>5. StagesInv
  BY VolumesAreQuiet DEF Init, StagesInv
<1>6. LiveInv
  BY DEF Init, LiveInv, Shaped, Grabbed
<1>7. MenuInv
  BY DEF Init, MenuInv
<1>8. EndInv
  BY DEF Init, EndInv
<1> QED
  BY <1>2, <1>3, <1>4, <1>5, <1>6, <1>7, <1>8, TypeParts DEF SessionInv

LEMMA NextSession == SessionInv /\ [Next]_vars => SessionInv'
<1> SUFFICES ASSUME SessionInv, [Next]_vars PROVE SessionInv'
  OBVIOUS
<1>1. TypeOK /\ StagesInv /\ LiveInv /\ MenuInv /\ EndInv /\ TypeOKLive /\ UiTypes /\ LoopTypes
  BY TypeParts DEF SessionInv
<1>2. TypeOKLive' /\ UiTypes' /\ LoopTypes'
  BY <1>1, LiveTypesNext, UiTypesNext, LoopTypesNext
<1>3. TypeOK'
  BY <1>2 DEF TypeOK, UiTypes, LoopTypes, Presses, Edits
<1>4. StagesInv' /\ LiveInv' /\ MenuInv' /\ EndInv'
  BY <1>1, StagesNext, LiveNext, MenuNext, EndNext
<1> QED
  BY <1>3, <1>4 DEF SessionInv

\* What the session keeps true through every event, every transaction and every
\* failure of it (rts_run.rs, rts_ui.rs, rts_window.rs).
THEOREM SessionInvariant == Spec => []SessionInv
<1> QED
  BY InitSession, NextSession, PTL DEF Spec

\* Every variable of the session keeps its type: the states of a transaction
\* (rts_ui.rs) and of the loop around it (rts_run.rs).
THEOREM TypeCorrect == Spec => []TypeOK
<1>1. SessionInv => TypeOK
  BY DEF SessionInv
<1> QED
  BY <1>1, SessionInvariant, PTL

\* Whatever change failed at whatever call, once it is over the window, the
\* mixer, the grab, the settings and the disk agree, or the run is lost
\* (rts_ui.rs:681).
THEOREM ChangesAreAllOrNothing == Spec => []RuntimeIsAsConfigured
<1>1. SessionInv => RuntimeIsAsConfigured
  BY DEF SessionInv, StagesInv, LiveInv, Shaped, Grabbed, RuntimeIsAsConfigured
<1> QED
  BY <1>1, SessionInvariant, PTL

\* The game is paused by a menu or a lost focus exactly while a page shows it,
\* and only the settings page has an edit (rts_ui.rs).
THEOREM PagesPause == Spec => []MenuPauses
<1>1. SessionInv => MenuPauses
  BY DEF SessionInv, MenuInv, MenuPauses
<1> QED
  BY <1>1, SessionInvariant, PTL

\* The hash of a clean exit is of the last world drawn, whatever the batch that
\* ended the run did to the world since (rts_run.rs:914).
THEOREM HashIsOfWhatWasDrawn == Spec => []HashIsOfTheLastFrame
<1>1. SessionInv => HashIsOfTheLastFrame
  BY DEF SessionInv, EndInv, HashIsOfTheLastFrame
<1> QED
  BY <1>1, SessionInvariant, PTL

\* A sink that failed, or a transaction that could not be undone, ends the run
\* with an error, before another batch of events is handled (rts_run.rs:1037).
THEOREM FaultsAreFatal == Spec => []FaultsEndTheRun
<1>1. SessionInv => FaultsEndTheRun
  BY DEF SessionInv, EndInv, FaultsEndTheRun
<1> QED
  BY <1>1, SessionInvariant, PTL
=============================================================================
