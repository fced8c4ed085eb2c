----------------------------- MODULE MCAppConfig -----------------------------
(***************************************************************************)
(* AppConfigManager for TLC; the clusters share the lists of one release.  *)
(***************************************************************************)
EXTENDS AppConfigManager

=============================================================================
