--------------------------- MODULE MCCertificates ---------------------------
(***************************************************************************)
(* Instances of Certificates for TLC: as many keys as can be in use at     *)
(* once, and one more.                                                     *)
(***************************************************************************)
EXTENDS Certificates, TLC

SomeKeys == 1 .. 7
=============================================================================
