----------------------------- MODULE MCReminders -----------------------------
(* One reminder: reminders share nothing but the queue, whose jobs do not    *)
(* depend on each other.                                                      *)
EXTENDS Reminders, TLC

CONSTANT r1
OneReminder == {r1}
=============================================================================
