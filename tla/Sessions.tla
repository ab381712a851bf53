------------------------------ MODULE Sessions ------------------------------
(***************************************************************************)
(* The two programs that keep a session with the backend, the firmware and *)
(* the container, and what both of them promise.                           *)
(***************************************************************************)
EXTENDS NodeSession, DockerNode

\* Both nodes keep the promises of a session: the firmware's and the
\* container's each implement Session.
SessionsKept == NodeKeepsSession /\ DockerKeepsSession

\* What each node knows of its session agrees: keys, queues and flags of the
\* firmware, sockets, timers and health of the container.
SessionsConsistent == WsConsistent /\ OneSocket
=============================================================================
