----------------------------- MODULE MCRuntime ------------------------------
(***************************************************************************)
(* Small instances of Runtime.                                             *)
(***************************************************************************)
EXTENDS Runtime, TLC

CONSTANTS user, closer, other

(* A caller that uses the generator, one that ends it by Close or by Stop, *)
(* and a second one that stops it.                                         *)
MCThreads == {Loop, user, closer, other}

MCMayCall ==
    Loop :> {"loop"}
    @@ user :> {"acquire", "refresh", "next", "ready"}
    @@ closer :> {"close", "stop"}
    @@ other :> {"stop"}

MCMayEnd ==
    Loop :> {}
    @@ user :> {"Canceled"}
    @@ closer :> {"DeadlineExceeded"}
    @@ other :> {}

(* One caller, and one that ends it in both ways.                          *)
FewThreads == {Loop, user, closer}

FewMayCall ==
    Loop :> {"loop"} @@ user :> {"acquire", "next"} @@ closer :> {"close", "stop"}

FewMayEnd ==
    Loop :> {} @@ user :> {"Canceled"} @@ closer :> {}
=============================================================================
