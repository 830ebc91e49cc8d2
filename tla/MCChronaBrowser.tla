---------------------------- MODULE MCChronaBrowser ----------------------------
(***************************************************************************)
(* Values of the constants of ChronaBrowser.  Instants are those of        *)
(* demo.rs, with one before and one after; "q" and "n" are queries, also   *)
(* keys of the normal mode, and "x" is rejected.                           *)
(***************************************************************************)
EXTENDS ChronaBrowser

MCText == {"", "person", "org", "project",
           "WORKS_AT", "REPORTS_TO", "WORKS_WITH", "WORKS_ON",
           "hr", "slack", "github", "linkedin",
           "alice", "bob", "carol", "dan", "eve", "frank",
           "acme", "beta_labs", "pluto", "quasar"}

MCTime == -1 .. 10
MCFirst == -1
MCAccepted == {<<"q">>, <<"n">>}

=============================================================================
