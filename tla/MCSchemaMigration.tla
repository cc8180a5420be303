------------------------- MODULE MCSchemaMigration -------------------------
(* Instances of SchemaMigration for TLC.                                    *)
EXTENDS SchemaMigration

AllReleases == 0..Latest
=============================================================================
