---------------------------- MODULE MCMigrations ----------------------------
(* Three starts on one new database: two that race and one that comes later. *)
EXTENDS Migrations

CONSTANTS s1, s2, s3

MCStarters == {s1, s2, s3}
MCDialects == {"sqlite", "postgresql"}
=============================================================================
