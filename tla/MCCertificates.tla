--------------------------- MODULE MCCertificates ---------------------------
(***************************************************************************)
(* Small instances of Certificates: l1 is sold in a cart, l2 singly.       *)
(***************************************************************************)
EXTENDS Certificates

CONSTANTS l1, l2

=============================================================================
