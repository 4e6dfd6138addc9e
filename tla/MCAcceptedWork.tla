--------------------------- MODULE MCAcceptedWork ---------------------------
(* Two criteria, one of them with a floor, and two tiers of judges.        *)
EXTENDS AcceptedWork

MCFloor == <<0, 1>>

=============================================================================
