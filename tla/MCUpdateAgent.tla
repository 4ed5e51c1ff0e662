--------------------------- MODULE MCUpdateAgent ----------------------------
(***************************************************************************)
(* Instances of UpdateAgent for TLC: the requests clients may send.        *)
(***************************************************************************)
EXTENDS UpdateAgent, TLC

CONSTANTS v0, v1, v2   \* OS images

\* A full image with a SHA256, due at once, with auto-rollback.
Full(image) == [at |-> 0, window |-> 0, auto |-> TRUE, image |-> image, sha |-> TRUE,
                delta |-> FALSE, base |-> v0, fallback |-> FALSE]

\* A window that closes, a delta against the factory image that falls back.
Windowed == [Full(v1) EXCEPT !.at = 1, !.window = 1]
Delta == [Full(v2) EXCEPT !.delta = TRUE, !.fallback = TRUE]

OneRequest == {Full(v1)}
TwoRequests == {Full(v1), Full(v2)}
DeltaRequest == {Delta}
LiveRequests == {[Full(v1) EXCEPT !.at = 1], [Full(v2) EXCEPT !.auto = FALSE]}
ScheduleRequests == {Windowed, Delta}
=============================================================================
