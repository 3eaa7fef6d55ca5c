------------------------------- MODULE MCCron -------------------------------
(***************************************************************************)
(* Small instances of Cron: recurring jobs and dates, one-shots and not,   *)
(* disabled ones, and a schedule expression that does not parse.           *)
(***************************************************************************)
EXTENDS Cron

Job(kind, at, once, enabled) ==
  [kind |-> kind, at |-> at, delete_after_run |-> once, enabled |-> enabled]

SomeSettings ==
  {Job("every", 0, FALSE, TRUE), Job("every", 0, TRUE, TRUE),
   Job("every", 0, FALSE, FALSE),
   Job("at", 1, TRUE, TRUE), Job("at", 1, FALSE, TRUE),
   Job("invalid", 0, FALSE, TRUE)}
=============================================================================
