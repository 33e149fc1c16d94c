---------------------------- MODULE MCMigrations ----------------------------
(* Two migrations, the first of which creates a table; up to three processes. *)
EXTENDS Migrations

CONSTANTS a, b, c, op

List == <<1, 2>>
=============================================================================
