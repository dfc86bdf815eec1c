----------------------------- MODULE MCDelivery -----------------------------
(* An instance of Delivery for TLC.                                        *)
EXTENDS Delivery

CONSTANTS c1, c2

TwoClients == {c1, c2}
=============================================================================
