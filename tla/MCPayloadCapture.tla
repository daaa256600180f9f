-------------------------- MODULE MCPayloadCapture --------------------------
(* Two requests of one organization, one admin, documents that turn the   *)
(* gateway's switch off (the boot configuration) and on.                   *)
EXTENDS PayloadCapture, TLC

CONSTANTS boot, on, r1, r2, a1

MCDocs == {boot, on}
MCCapturing == {on}
MCPlaces == <<"payload_capture", "auto_router">>
MCRequests == {r1, r2}
MCAdmins == {a1}
Symmetry == Permutations(MCRequests)
=============================================================================
