---------------------- MODULE MCLKJBluetoothController ----------------------
(* Small instances of LKJBluetoothController for TLC. *)
EXTENDS LKJBluetoothController

(* Peripherals are interchangeable; only for the runs without liveness. *)
Symmetry == Permutations(Peripheral)
=============================================================================
