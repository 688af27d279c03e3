----------------------------- MODULE MCUsageWindows -----------------------------
(* Two ticks an hour, a rolling day of three hours, a day of six ticks: the *)
(* code's lifetimes, an hour more than the rolling day and twice the day.   *)
EXTENDS UsageWindows, TLC

MCWindows  == {"none", "daily", "rolling"}
MCCalendar == "none"    :> [t \in Ticks |-> 0] @@
              "daily"   :> [t \in Ticks |-> t \div 6] @@
              "rolling" :> [t \in Ticks |-> t \div 2]
MCSpan == "none" :> 1 @@ "daily" :> 1 @@ "rolling" :> 3
MCTTL  == "none" :> 0 @@ "daily" :> 12 @@ "rolling" :> 8
MCLimits ==
    {[metric |-> "percentage", value |-> 50, capacity |-> 4, window |-> "rolling"],
     [metric |-> "request_count", value |-> 2, capacity |-> 0, window |-> "daily"]}
MCSymmetry == Permutations(Requests)
================================================================================
