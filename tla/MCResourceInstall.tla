-------------------------- MODULE MCResourceInstall --------------------------
(* Small instances of ResourceInstall for TLC. *)
EXTENDS ResourceInstall, TLC

CONSTANTS app, suite, lib

(* suite needs app and lib, app needs lib: a chain and a shared dependency. *)
ChainAndDiamond == app :> {lib} @@ suite :> {app, lib} @@ lib :> {}

(* The same, in a registry that by mistake makes suite need itself. *)
SelfCycle == app :> {lib} @@ suite :> {suite, app, lib} @@ lib :> {}
=============================================================================
