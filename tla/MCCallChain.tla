---------------------------- MODULE MCCallChain -----------------------------
(***************************************************************************)
(* An application on a, a service on b, a bridge g; a request and one that  *)
(* its handler makes, over every combination of nodes and hops.             *)
(***************************************************************************)
EXTENDS CallChain, TLC

CONSTANTS a, b, g, c1, c2

MCParent == c1 :> None @@ c2 :> c1

MCUsable ==
    [x \in Chains |->
        CASE x = <<b, "handler">> -> {"report", "guard"}
          [] x = <<a, "handler">> -> {"count"}
          [] x = <<a, "request">> -> {"report"}
          [] OTHER -> {}]
=============================================================================
