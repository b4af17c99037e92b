---------------------------- MODULE MCCronService ----------------------------
(* Two jobs, one of them a one-shot, and one manual run at a time, as the     *)
(* cron lane has it.                                                          *)
EXTENDS CronService

CONSTANTS j1, j2

MCSchedules == {[j \in Job |-> IF j = j1 THEN "cron" ELSE "at"],
                [j \in Job |-> IF j = j1 THEN "every" ELSE "at"]}

\* What a replaced service may leave of a job: a recurring one that
\* executes, a one-shot that is due.
MCForeign ==
    {[kind |-> kind, stored |-> "stored", enabled |-> TRUE, when |-> 2, next |-> 2,
      mark |-> kind # "at", last |-> 0, status |-> "none", errors |-> 0] : kind \in Kind}

=============================================================================
