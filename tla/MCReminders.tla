----------------------------- MODULE MCReminders -----------------------------
(* One cron instant, in the window of the day and before the deposit is due, and    *)
(* three ids, for two workers and a replacement.                                    *)
EXTENDS Reminders

Ticks    == 1..1
Numbers  == 1..3
First    == {1}
Second   == {2}
=============================================================================
