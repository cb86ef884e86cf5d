---------------------------- MODULE MCRoundTrip ----------------------------
(* Two callers of one connection, for TLC: a's requests carry the deadline, *)
(* b's do not (as those of PairVerify and of SubscribeToEvents).            *)
EXTENDS RoundTrip

CONSTANTS a, b

AllCallers   == {a, b}
TimedCallers == {a}

\* The behaviours in which no request is on its way while the background
\* goroutine is starting, so that none reads the connection beside the loop.
NoEarlyRequest == loop = "spawned" => \A c \in Callers : pc[c] = "idle"
=============================================================================
