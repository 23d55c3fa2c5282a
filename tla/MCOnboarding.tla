---------------------------- MODULE MCOnboarding ----------------------------
(***************************************************************************)
(* Two identities and two requests in progress in one browser: two first   *)
(* logins of one identity can race, and the session can be written by two  *)
(* requests that read the user at different times.                         *)
(***************************************************************************)
EXTENDS Onboarding

=============================================================================
