-------------------------- MODULE ContentLifeCycle --------------------------
(***************************************************************************)
(* What a content view controller of the tabs and the tab view controller  *)
(* owe each other.  UIKit tells the content that it will appear, that it   *)
(* has appeared and that it will disappear, in this order and each once,   *)
(* even when the content is taken out and put back in one go.  The content *)
(* becomes an observer in one of the first two and is none from the third  *)
(* to the next, so no notification reaches a content that is away.         *)
(*                                                                         *)
(* LKJTabViewController drives its contents in this way, and               *)
(* LKJConnectionViewController is a content that expects no other.         *)
(***************************************************************************)
CONSTANT RegistersIn   \* "viewWillAppear" or "viewDidAppear"

VARIABLES phase,      \* "hidden", "appearing" or "visible"
          observing   \* the content is an observer

vars == <<phase, observing>>

Init == phase = "hidden" /\ ~observing

ViewWillAppear ==
  /\ phase = "hidden"
  /\ phase' = "appearing"
  /\ observing' = (RegistersIn = "viewWillAppear")

ViewDidAppear ==
  /\ phase = "appearing"
  /\ phase' = "visible"
  /\ observing' = TRUE

(* So does a process that dies. *)
ViewWillDisappear ==
  /\ phase # "hidden"
  /\ phase' = "hidden"
  /\ observing' = FALSE

(* viewWillDisappear: and viewWillAppear:, with nothing in between. *)
TakenOutAndPutBack ==
  /\ phase # "hidden"
  /\ phase' = "appearing"
  /\ observing' = (RegistersIn = "viewWillAppear")

Next ==
  \/ ViewWillAppear
  \/ ViewDidAppear
  \/ ViewWillDisappear
  \/ TakenOutAndPutBack

Spec == Init /\ [][Next]_vars
=============================================================================
