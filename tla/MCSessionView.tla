---------------------------- MODULE MCSessionView ----------------------------
(* The dashboard on a small instance. *)
EXTENDS SessionView

MCTasks == {"a"}
MCPosts == {1, 2}
=============================================================================
