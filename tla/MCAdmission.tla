------------------------------ MODULE MCAdmission ------------------------------
(* A small instance of Admission for TLC. *)
EXTENDS Admission, TLC

\* "/", "/a" with no node, "/b" and "/bb"
MCPool == (<<1>> :> <<"x", "y">>) @@ (<<1, 2>> :> <<>>)
          @@ (<<1, 3>> :> <<"z">>) @@ (<<1, 3, 3>> :> <<"u", "v", "w">>)
MCRoutes == DOMAIN MCPool
MCPaths == {<<2>>, <<1>>, <<1, 2, 3>>, <<1, 3>>, <<1, 3, 3, 2>>}
================================================================================
