--------------------------- MODULE DeviceRegistry ---------------------------
(***************************************************************************)
(* What LKJBluetoothController promises about the devices it has seen,     *)
(* whatever the threads do: a device is found at most once per launch; it  *)
(* is found as one of "My Devices" exactly when the phone has stored it    *)
(* before, and otherwise as one the user may claim; claiming it stores it  *)
(* and moves it, in one step; a relaunch forgets everything but what was   *)
(* stored.  LKJBluetoothController implements this specification.          *)
(***************************************************************************)
CONSTANT Peripheral

VARIABLES listed,  \* devices offered under "Connect Device"
          mine,    \* devices under "My Devices"
          stored   \* devices the phone remembers across launches

vars == <<listed, mine, stored>>

Init == listed = {} /\ mine = {} /\ stored = {}

FindMine(p) ==
  /\ p \in stored
  /\ p \notin mine
  /\ mine' = mine \cup {p}
  /\ UNCHANGED <<listed, stored>>

FindNew(p) ==
  /\ p \notin stored
  /\ p \notin listed
  /\ listed' = listed \cup {p}
  /\ UNCHANGED <<mine, stored>>

Claim(p) ==
  /\ p \in listed
  /\ listed' = listed \ {p}
  /\ mine' = mine \cup {p}
  /\ stored' = stored \cup {p}

Relaunch ==
  /\ listed' = {}
  /\ mine' = {}
  /\ UNCHANGED stored

Next ==
  \/ \E p \in Peripheral : FindMine(p) \/ FindNew(p) \/ Claim(p)
  \/ Relaunch

Spec == Init /\ [][Next]_vars
=============================================================================
