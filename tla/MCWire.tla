------------------------------- MODULE MCWire -------------------------------
(***************************************************************************)
(* Instances of Wire for TLC: a command without a payload, one that is     *)
(* persisted with small and large bytes, and one that is looked at in part.*)
(***************************************************************************)
EXTENDS Wire

Logout == [id |-> 3, data |-> << >>]
SetInfo == [id |-> 5, data |-> << 10, 255 >>]
StateEvent == [id |-> 24, data |-> << 16, 0, 7 >>]

SomeCmds == {Logout, SetInfo, StateEvent}
=============================================================================
