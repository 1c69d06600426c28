---------------------------- MODULE MCTelemetry -----------------------------
(***************************************************************************)
(* A small instance of Telemetry.                                          *)
(***************************************************************************)
EXTENDS Telemetry

CONSTANT polled

MCManagers == {polled}

(* A timeout of the store is in two classes, a broken connection in one.   *)
MCFailErrors == {{"LeaseStore", "DeadlineExceeded"}, {"LeaseStore", "Broken"}}
MCReadyErrors == {{"LeaseLost"}}
MCCloseErrors == {{"LeaseStore", "DeadlineExceeded"}}
=============================================================================
