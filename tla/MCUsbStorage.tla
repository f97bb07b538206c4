----------------------------- MODULE MCUsbStorage -----------------------------
(* Addresses are told apart by what is plugged in there, nothing else.     *)
EXTENDS UsbStorage, TLC

AddressSymmetry == Permutations(Addrs)
=============================================================================
