----------------------------- MODULE MCSmartass -----------------------------
(* Three frequencies in MHz; callers that never overlap, callers that do,  *)
(* and files that are not created.                                         *)
EXTENDS Smartass

MCPolicies == {<<300, 1000>>, <<300, 600>>}
MCDefaults == [up_min_freq |-> 1200, sleep_max_freq |-> 250, sleep_wakeup_freq |-> 1200,
               awake_min_freq |-> 600, ramp_up_step |-> 250, max_ramp_down |-> 0,
               max_cpu_load |-> 80, min_cpu_load |-> 20]
MCInputs == [sleep_max_freq |-> {600}, min_cpu_load |-> {20, 100}]
MCModes == {"calm", "overlapping", "failing"}
MCLiberties == [calm |-> {}, overlapping |-> {"overlap"}, failing |-> {"sysfs", "asleep"}]
=============================================================================
