------------------------- MODULE MCAgendaScheduler -------------------------
(* Instances of AgendaScheduler for TLC.                                   *)
EXTENDS AgendaScheduler, TLC

CONSTANTS once, every, cron

MCSchedule ==
    [t \in Tasks |->
        CASE t = once -> [kind |-> "once", at |-> 1]
          [] t = every -> [kind |-> "interval", every |-> 2]
          [] t = cron -> [kind |-> "cron", minutes |-> 0..3]]
=============================================================================
