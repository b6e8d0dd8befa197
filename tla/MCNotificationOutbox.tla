------------------------ MODULE MCNotificationOutbox ------------------------
(* Two calls of the day's summary job for two people and the summary an    *)
(* operator sends to one of them; the overdue job of a task, or one        *)
(* notice, and two runs of the retry job; and the two closures of a task   *)
(* that was rejected in between.                                           *)
EXTENDS NotificationOutbox

Do(event, about, round) == [event |-> event, about |-> about, round |-> round]
Summary == <<Do("job", "daily_summary", 1),
             Do("daily_summary", "bob", 1), Do("daily_summary", "ann", 1)>>
Overdue == <<Do("job", "overdue_refresh", 1), Do("job", "escalation_scan", 1),
             Do("overdue_assignee", "task", 1), Do("overdue_creator", "task", 1)>>

MCWork == [t \in Threads |->
    CASE t \in {"job1", "job2"} -> Summary
      [] t = "targeted" -> <<Do("daily_summary", "ann", 1)>>
      [] t = "overdue" -> Overdue
      [] t = "assigned" -> <<Do("task_assigned", "task", 1)>>
      [] t = "closed1" -> <<Do("verify_requested", "task", 1)>>
      [] t = "closed2" -> <<Do("verify_requested", "task", 2)>>]
=============================================================================
