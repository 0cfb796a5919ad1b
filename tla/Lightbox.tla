------------------------------- MODULE Lightbox -------------------------------
(***************************************************************************)
(* The full-size viewer of the showcase: a modal dialog that outlives the  *)
(* photo it shows by one transition, and the gestures on its stage. React  *)
(* renders after a discrete event (a click, a key, a pointer that goes     *)
(* down or up) and, some time later, after wheel turns and moves: until    *)
(* then the handlers see the zoom of the last render.                      *)
(***************************************************************************)
EXTENDS Integers, FiniteSets

CONSTANTS
  Count,      \* photos
  Fingers,    \* pointers that may be down at a time, the mouse among them
  MaxZoom,    \* MAX_ZOOM, in steps
  None

VARIABLES
  openAt,     \* the photo that is open, or None
  dialog,     \* dialog.open: the rest of the page is inert
  shown,      \* faded in
  pending,    \* the effect's frame or timer
  closing,    \* the dialog's close event is queued
  scroll,     \* the page scrolls
  view,       \* zoom, whether the photo is out of the centre, and whether a move that
              \* still saw it zoomed has panned it since
  zoomed,     \* of the last render
  down,       \* pointers on the glass
  pointers,   \* the Map of live pointers
  dragged,    \* the ref
  panned,     \* the pointer that has panned fast since it went down, while it is the only one
  outcome     \* what the last step was, as far as the next or a property asks

vars == <<openAt, dialog, shown, pending, closing, scroll, view, zoomed, down, pointers,
          dragged, panned, outcome>>

RESET == [zoom |-> 1, off |-> FALSE, late |-> FALSE]
Hand == <<down, pointers, dragged, panned>>
Stage == <<dialog, shown, pending, closing, scroll>>

Init ==
  /\ openAt = None /\ dialog = FALSE /\ shown = FALSE /\ pending = "none"
  /\ closing = FALSE /\ scroll = TRUE /\ view = RESET /\ zoomed = FALSE
  /\ down = {} /\ pointers = {} /\ dragged = FALSE /\ panned = None
  /\ outcome = "none"

-----------------------------------------------------------------------------
(* Opening, stepping and closing.                                        *)

\* The effects of a photo that opens: the dialog at once, its fade-in in the next frame.
Entered == dialog' = TRUE /\ pending' = "frame"

\* Mutant: the cleanup takes the timer along.
Left_Cleared == UNCHANGED dialog /\ pending' = "none"

\* The effects of a photo that closes: the dialog stays for the time of the transition.
Left == UNCHANGED dialog /\ pending' = IF dialog THEN "timer" ELSE "none"

\* setOpenAt, the render that adjusts the state to it, and the effects of `open`.
Set(index) ==
  /\ openAt' = index
  /\ \/ index = openAt /\ UNCHANGED <<dialog, shown, pending, scroll, view>>
     \/ /\ index # openAt /\ index = None
        /\ shown' = FALSE /\ scroll' = TRUE /\ Left /\ UNCHANGED view
     \/ /\ index # openAt /\ index # None
        /\ view' = RESET
        /\ IF openAt = None THEN Entered /\ scroll' = FALSE /\ UNCHANGED shown
           ELSE UNCHANGED <<dialog, shown, pending, scroll>>
  /\ zoomed' = (view'.zoom > 1)

\* A tile of the grid, which a modal dialog makes inert.
View(index) ==
  /\ ~dialog
  /\ Set(index) /\ outcome' = "none"
  /\ UNCHANGED <<closing, Hand>>

\* An arrow, on the screen or on the keyboard.
step(delta) ==
  /\ dialog /\ openAt # None
  /\ Set((openAt + delta + Count) % Count) /\ outcome' = "none"
  /\ UNCHANGED <<closing, Hand>>

\* The cross, or a first Escape, whose default is prevented.
onCancel ==
  /\ dialog
  /\ Set(None) /\ outcome' = "none"
  /\ UNCHANGED <<closing, Hand>>

\* A second Escape: the browser closes the dialog itself.
Escape ==
  /\ dialog
  /\ dialog' = FALSE /\ closing' = TRUE /\ outcome' = "none"
  /\ UNCHANGED <<openAt, shown, pending, scroll, view, zoomed, Hand>>

\* The close event of a dialog that was closed, in a task of its own.
onClose ==
  /\ closing /\ closing' = FALSE
  /\ Set(None) /\ outcome' = "none"
  /\ UNCHANGED Hand

\* requestAnimationFrame, or the timeout after the transition.
Fire ==
  /\ \/ pending = "frame" /\ shown' = TRUE /\ UNCHANGED <<dialog, closing>>
     \/ /\ pending = "timer"
        /\ dialog' = FALSE /\ closing' = (dialog \/ closing) /\ UNCHANGED shown
  /\ pending' = "none" /\ outcome' = "none"
  /\ UNCHANGED <<openAt, scroll, view, zoomed, Hand>>

-----------------------------------------------------------------------------
(* The stage.                                                            *)

\* Mutant: zoomed out, the photo stays where it was panned to.
zoomBy_Kept(zoom) ==
  IF zoom = view.zoom THEN UNCHANGED view
  ELSE \E off \in BOOLEAN : view' = [zoom |-> zoom, off |-> IF zoom = 1 THEN view.off ELSE off, late |-> FALSE]

\* Whatever is under the pointer stays there; fully zoomed out is centred.
zoomBy(zoom) ==
  IF zoom = view.zoom THEN UNCHANGED view
  ELSE IF zoom = 1 THEN view' = RESET
  ELSE \E off \in BOOLEAN : view' = [zoom |-> zoom, off |-> off, late |-> FALSE]

\* The wheel is listened to while a photo is open.
onWheel ==
  /\ dialog /\ openAt # None
  /\ \E zoom \in 1..MaxZoom : zoomBy(zoom)
  /\ outcome' = "none"
  /\ UNCHANGED <<openAt, zoomed, Stage, Hand>>

onPointerDown(f) ==
  /\ dialog /\ f \notin down
  /\ down' = down \cup {f} /\ pointers' = pointers \cup {f}
  /\ dragged' = FALSE /\ panned' = None /\ outcome' = "none"
  /\ zoomed' = (view.zoom > 1)
  /\ UNCHANGED <<openAt, Stage, view>>

\* One pointer pans what is zoomed; a move of two pixels or less is no drag.
Pan(f, fast) ==
  IF ~zoomed THEN UNCHANGED <<view, dragged, panned>>
  ELSE /\ \E off \in BOOLEAN : view' = [view EXCEPT !.off = off, !.late = @ \/ view.zoom = 1]
       /\ dragged' = (dragged \/ fast)
       /\ panned' = IF fast THEN f ELSE panned

\* Two that the Map holds are a pinch.
onPointerMove(f) ==
  /\ dialog /\ f \in down \cap pointers
  /\ IF Cardinality(pointers) >= 2
       THEN \E zoom \in 1..MaxZoom :
              /\ zoomBy(zoom) /\ UNCHANGED <<dragged, panned>>
              /\ outcome' = "none"
       ELSE \E fast \in BOOLEAN : Pan(f, fast) /\ outcome' = "none"
  /\ UNCHANGED <<openAt, zoomed, Stage, down, pointers>>

\* Mutant: the drag is over when the pointer goes up, before its click.
endPointer_Undragged(f) == pointers' = pointers \ {f} /\ dragged' = FALSE

endPointer(f) == pointers' = pointers \ {f} /\ UNCHANGED dragged

\* A pointer goes up, on the stage or where the stage no longer is.
Lift(f) ==
  /\ f \in down /\ down' = down \ {f}
  /\ IF dialog THEN endPointer(f) ELSE UNCHANGED <<pointers, dragged>>
  /\ zoomed' = (view.zoom > 1) /\ outcome' = "lifted"
  /\ UNCHANGED <<openAt, Stage, view, panned>>

\* The click that ends a press: on the photo it does nothing, beside it it closes.
onClick ==
  /\ dialog /\ outcome = "lifted" /\ down = {}
  /\ \/ Set(None) /\ ~dragged /\ outcome' = IF panned # None THEN "torn" ELSE "none"
     \/ UNCHANGED <<openAt, dialog, shown, pending, scroll, view, zoomed>> /\ outcome' = "none"
  /\ UNCHANGED <<closing, Hand>>

toggleZoom == IF zoomed THEN 1 ELSE 2

\* A second click, on the photo: in, or all the way out.
onDoubleClick ==
  /\ dialog /\ openAt # None /\ outcome = "none" /\ down = {}
  /\ zoomed = (view.zoom > 1)
  /\ zoomBy(toggleZoom) /\ zoomed' = (view'.zoom > 1)
  /\ outcome' = "none"
  /\ UNCHANGED <<openAt, Stage, Hand>>

\* React renders what wheel turns and moves have changed.
Render ==
  /\ zoomed # (view.zoom > 1) /\ zoomed' = (view.zoom > 1)
  /\ UNCHANGED <<openAt, Stage, view, Hand, outcome>>

\* The page is left and its effects are cleaned up, or it is shown again.
Leave ==
  /\ openAt' = None /\ dialog' = FALSE /\ shown' = FALSE /\ pending' = "none"
  /\ closing' = FALSE /\ scroll' = TRUE /\ view' = RESET /\ zoomed' = FALSE
  /\ down' = {} /\ pointers' = {} /\ dragged' = FALSE /\ panned' = None /\ outcome' = "none"

-----------------------------------------------------------------------------
Next ==
  \/ \E i \in 0..Count - 1 : View(i)
  \/ \E d \in {-1, 1} : step(d)
  \/ onCancel \/ Escape \/ onClose \/ Fire
  \/ onWheel \/ onClick \/ onDoubleClick \/ Render \/ Leave
  \/ \E f \in Fingers : onPointerDown(f) \/ onPointerMove(f) \/ Lift(f)

Spec == Init /\ [][Next]_vars

-----------------------------------------------------------------------------
\* The page is never left inert behind an empty dialog, nor a photo open on a dialog
\* that is closed for good: whoever closes it, the reader or the browser, a timer or
\* an event is due that ends it (recent-prints-grid.tsx:149-163, 289-295).
NeverStuck ==
  /\ openAt = None /\ dialog => pending = "timer"
  /\ openAt # None /\ ~dialog => closing

\* A photo that is open fades in, and the page behind scrolls when none is.
NeverBlank ==
  /\ openAt # None /\ ~shown => pending = "frame"
  /\ openAt = None => scroll /\ ~shown

\* The click that ends a fast pan never closes the viewer (recent-prints-grid.tsx:124-126).
PanKeepsOpen == outcome # "torn"

\* Fully zoomed out is centred, unless a move came between the turn of the wheel that
\* zoomed it out and the render of it (recent-prints-grid.tsx:193-194, 269-275).
CentredOut == view.zoom = 1 /\ view.off => view.late

ViewerTrue == NeverStuck /\ NeverBlank /\ PanKeepsOpen /\ CentredOut
=============================================================================
