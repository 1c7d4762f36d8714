----------------------------- MODULE MCUxbusTcp -----------------------------
(***************************************************************************)
(* A request of the private protocol and one of standard Modbus TCP, and   *)
(* so few transaction numbers that they are used again.                    *)
(***************************************************************************)
EXTENDS UxbusTcp

TwoKinds == {[prot |-> 2, unit |-> 11], [prot |-> 0, unit |-> 1]}
=============================================================================
