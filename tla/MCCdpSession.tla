----------------------------- MODULE MCCdpSession -----------------------------
(* Small instances of CdpSession for TLC. *)
EXTENDS CdpSession, TLC

(* The calls are interchangeable: sound for the                            *)
(* runs that check no liveness.                                            *)
CallSymmetry == Permutations(Commands)
===============================================================================
