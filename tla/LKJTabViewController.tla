------------------------ MODULE LKJTabViewController ------------------------
(***************************************************************************)
(* The tabs: LKJTabViewController.m and its LKJTabView.  One of three      *)
(* content view controllers is shown at a time, its view a subview of      *)
(* contentView, and the button of the tab view that brought it there is    *)
(* highlighted.  A button, the launch and a row of the Connect tab all     *)
(* come to the same block.                                                 *)
(*                                                                         *)
(* Everything here runs on the main thread.  UIKit tells the content when  *)
(* it comes and goes while its view is added and removed, and that it has  *)
(* appeared later on.  The content registers as an observer on the way in  *)
(* and no longer observes on the way out.                                  *)
(***************************************************************************)
EXTENDS AutolayoutHelper

Control == 0
Connect == 1
History == 2

Tab == {Control, Connect, History}

ASSUME TabAssumption == View = Tab /\ Key = {"v"}

VARIABLES
  currentContent,       \* currentContentViewController, or Nil
  childViewControllers,
  contentView,          \* its subviews and its constraints
  selectedButton,
  highlighted,          \* the buttons drawn in selectedColor
  inWindow,             \* the tab view controller is on screen (external)
  appearance,           \* of each content, as UIKit sees it (external)
  registrations         \* of each content with the notification center

tabVars == <<currentContent, childViewControllers, contentView, selectedButton,
             highlighted, inWindow, appearance, registrations>>

TabInit ==
  /\ currentContent = Nil
  /\ childViewControllers = {}
  /\ contentView = [view |-> {}, constraints |-> {}]
  /\ selectedButton = Nil
  /\ highlighted = {}
  /\ inWindow = FALSE
  /\ appearance = [t \in Tab |-> "hidden"]
  /\ registrations = [t \in Tab |-> 0]

(* The process dies and is started again. *)
TabRelaunch ==
  /\ currentContent' = Nil
  /\ childViewControllers' = {}
  /\ contentView' = [view |-> {}, constraints |-> {}]
  /\ selectedButton' = Nil
  /\ highlighted' = {}
  /\ inWindow' = FALSE
  /\ appearance' = [t \in Tab |-> "hidden"]
  /\ registrations' = [t \in Tab |-> 0]
-----------------------------------------------------------------------------
(* The contents' answers to viewWillAppear:, viewDidAppear: and            *)
(* viewWillDisappear:, as far as they go to the notification center.       *)
ViewWillAppear(t, r) == IF t = Connect THEN [r EXCEPT ![t] = @ + 1] ELSE r

ViewDidAppear(t, r) == IF t = Control THEN [r EXCEPT ![t] = @ + 1] ELSE r

NeverUnregisterMutant(t, r) == r

ViewWillDisappear(t, r) == [r EXCEPT ![t] = 0]
-----------------------------------------------------------------------------
StaysInViewMutant(content) == contentView

(* removeFromSuperview, if there is a content. *)
RemoveContent(content) ==
  IF content = Nil THEN contentView ELSE RemoveFromSuperview(contentView, {content})

AfterLeaving ==
  IF currentContent # Nil /\ appearance[currentContent] # "hidden"
  THEN ViewWillDisappear(currentContent, registrations)
  ELSE registrations

(* The block viewDidLoad gives the tab view. *)
ActionBlock(index) ==
  LET filled == FillWithSubView(RemoveContent(currentContent), index)
  IN /\ currentContent' = index
     /\ childViewControllers' = (childViewControllers \ {currentContent}) \cup {index}
     /\ contentView' = [view |-> filled.view, constraints |-> filled.constraints]
     /\ appearance' = [t \in Tab |-> IF t = index /\ inWindow THEN "appearing" ELSE "hidden"]
     /\ registrations' = IF inWindow THEN ViewWillAppear(index, AfterLeaving) ELSE AfterLeaving

KeepHighlightMutant(button) == highlighted

(* setSelected: of the button selected before. *)
Deselect(button) == highlighted \ {button}

ButtonClicked(sender) ==
  /\ highlighted' = Deselect(selectedButton) \cup {sender}
  /\ selectedButton' = sender
  /\ ActionBlock(sender)

(***************************************************************************)
(* The end of viewDidLoad.  The answer of existsBluetoothDevice is the     *)
(* controller's and is left open.                                          *)
(***************************************************************************)
ViewDidLoad(existsBluetoothDevice) ==
  /\ currentContent = Nil
  /\ ButtonClicked(IF existsBluetoothDevice THEN Control ELSE Connect)
  /\ UNCHANGED inWindow

(* The tab view controller comes on screen and its content with it. *)
EntersWindow ==
  /\ currentContent # Nil
  /\ ~inWindow
  /\ inWindow' = TRUE
  /\ appearance' = [appearance EXCEPT ![currentContent] = "appearing"]
  /\ registrations' = ViewWillAppear(currentContent, registrations)
  /\ UNCHANGED <<currentContent, childViewControllers, contentView, selectedButton, highlighted>>

(* viewDidAppear: of the content. *)
ContentAppears ==
  /\ inWindow
  /\ appearance[currentContent] = "appearing"
  /\ appearance' = [appearance EXCEPT ![currentContent] = "visible"]
  /\ registrations' = ViewDidAppear(currentContent, registrations)
  /\ UNCHANGED <<currentContent, childViewControllers, contentView, selectedButton,
                 highlighted, inWindow>>

(* The user may tap any button, that of the content on screen included. *)
TapButton(t) ==
  /\ inWindow
  /\ ButtonClicked(t)
  /\ UNCHANGED inWindow

(***************************************************************************)
(* A row of the Connect tab has been selected: it asks its delegate for    *)
(* the Control tab, and the delegate listens to the content on screen.     *)
(***************************************************************************)
RowSelected ==
  /\ inWindow
  /\ Connect \in contentView.view
  /\ currentContent = Connect
  /\ ButtonClicked(Control)
  /\ UNCHANGED inWindow

TabSwitches ==
  \/ \E existsBluetoothDevice \in BOOLEAN : ViewDidLoad(existsBluetoothDevice)
  \/ \E t \in Tab : TapButton(t)
  \/ RowSelected

(* All that happens to the tabs; who asks for it is up to the whole app. *)
TabNext == TabRelaunch \/ TabSwitches \/ EntersWindow \/ ContentAppears
-----------------------------------------------------------------------------
(***************************************************************************)
(* contentView is filled by the current content and by nothing else,       *)
(* through any sequence of switches, one to the same tab included: the     *)
(* view and the constraints of a content that left are gone, and those of  *)
(* the one that came are there once.                                       *)
(***************************************************************************)
ContentFillsView ==
  currentContent # Nil =>
    /\ childViewControllers = {currentContent}
    /\ contentView.view = {currentContent}
    /\ \A c \in contentView.constraints : c.views = {currentContent}
    /\ \A axis \in {"H", "V"} :
         Cardinality({c \in contentView.constraints : c.text.axis = axis}) = 1

(* However it came there, the content on screen has the one lit button.    *)
HighlightShowsContent ==
  currentContent # Nil => highlighted = {currentContent} /\ selectedButton = currentContent

(***************************************************************************)
(* Through any sequence of switches, one to the same tab included, the     *)
(* Connect and the Control content come, appear and go in the order of     *)
(* their life cycle.  Each is an observer exactly when that says so, and   *)
(* registered once: registered twice it would be told of each device       *)
(* twice.                                                                  *)
(***************************************************************************)
ConnectContent == INSTANCE ContentLifeCycle WITH
  RegistersIn <- "viewWillAppear",
  phase <- appearance[Connect],
  observing <- registrations[Connect] = 1

ControlContent == INSTANCE ContentLifeCycle WITH
  RegistersIn <- "viewDidAppear",
  phase <- appearance[Control],
  observing <- registrations[Control] = 1

ContentsKeepLifeCycle == ConnectContent!Spec /\ ControlContent!Spec

(***************************************************************************)
(* Why: the inductive invariant of the tabs.  Only the current content is  *)
(* in the view, and UIKit has told it of each coming and going exactly     *)
(* once, so what it registered when it came it took back when it left.     *)
(***************************************************************************)
ContentIsOnlyChild ==
  /\ selectedButton = currentContent
  /\ childViewControllers = {currentContent} \ {Nil}
  /\ highlighted = {currentContent} \ {Nil}
  /\ contentView.view = {currentContent} \ {Nil}
  /\ currentContent = Nil => contentView.constraints = {} /\ ~inWindow

OnlyContentAppears ==
  /\ \A t \in Tab \ {currentContent} : appearance[t] = "hidden"
  /\ currentContent # Nil => (inWindow <=> appearance[currentContent] # "hidden")

RegistersWhileShown ==
  /\ registrations[Control] = IF appearance[Control] = "visible" THEN 1 ELSE 0
  /\ registrations[Connect] = IF appearance[Connect] # "hidden" THEN 1 ELSE 0
  /\ registrations[History] = 0

TabInv ==
  /\ currentContent \in Tab \cup {Nil}
  /\ appearance \in [Tab -> {"hidden", "appearing", "visible"}]
  /\ registrations \in [Tab -> Nat]
  /\ ContentIsOnlyChild
  /\ OnlyContentAppears
  /\ RegistersWhileShown
  /\ ContentFillsView
=============================================================================
