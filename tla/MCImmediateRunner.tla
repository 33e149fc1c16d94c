-------------------------- MODULE MCImmediateRunner --------------------------
(***************************************************************************)
(* Callers of a TaskRunner without a connection, and a task of each        *)
(* kind: an email that is sent or may fail, one that no handler takes, and *)
(* one that does not serialise.                                            *)
(***************************************************************************)
EXTENDS ImmediateRunner

CONSTANTS a, b, c, email, flaky, foreign, broken
=============================================================================
