----------------------------- MODULE Overclock ------------------------------
(***************************************************************************)
(* modules/overclock/overclock.c, which rewrites the operating points of   *)
(* the CPU while it runs, with cpufreq_stats.c, which counts the time      *)
(* spent at each frequency by index into a table of its own, and           *)
(* cpufreq_powersave.c as a governor.                                      *)
(*                                                                         *)
(* A write to /proc/overclock/mpu_opps goes through a buffer all writers   *)
(* share, then changes four tables one after the other, without a lock:    *)
(* transitions of the CPU and other writers come in between.               *)
(***************************************************************************)
EXTENDS CpufreqTable, Sequences

CONSTANTS
  N,           \* MAX_VDD1_OPP: the operating points are 1 .. N, and point i
               \* is entry N - i of the frequency table
  Rates,       \* the kernel's operating points, a sequence of rates in Hz
  Entries,     \* how many the kernel's frequency table holds
  Writers,     \* processes that write to mpu_opps
  OppInputs,   \* the <<index, rate>> they write; with fewer numbers nothing
               \* happens, as with a bad index
  NULL,        \* no statistics, no transition
  MaxTicks     \* bound on the jiffies counted

\* What the statistics are, once there are any.
Statistics ==
  [freq_table : [0 .. Entries -> Int], time : [0 .. Entries -> Int], since : Int, last_index : Int]

\* The kernel's points ascend.
ASSUME OverclockAssumption ==
  /\ N \in Nat \ {0} /\ Rates \in [1 .. N -> Nat] /\ Entries \in {N - 1, N} \ {0}
  /\ \A i, j \in 1 .. N : i < j => Rates[i] \div 1000 < Rates[j] \div 1000
  /\ OppInputs \subseteq Nat \X Nat
  /\ {Rates[i] \div 1000 : i \in 1 .. N} \subseteq Table
  /\ {i[2] \div 1000 : i \in OppInputs} \subseteq Table \cup {0}
  /\ MaxTicks \in Nat
  /\ NULL \notin Statistics \cup Int

VARIABLES
  loaded,            \* the overclock module is
  opps, freq_table,  \* rates; frequencies of 0 .. N, the end marked by End
  cur, pmin, pmax,   \* the policy
  info,              \* policy->cpuinfo: its <<min, max>>
  governor,
  stat, elapsed,     \* the statistics, or NULL; the jiffies since they began
  trans,             \* the index a transition has looked up, or NULL
  buf, pc, arg,      \* the buffer; where each writer is; what it scanned
  unsure,            \* points moved by two writes at once, to different rates
  quiet, settled     \* no write since the transition under way began, or
                     \* since the last one that ended did

tables == <<opps, freq_table>>
policy == <<cur, pmin, pmax, info>>
ghosts == <<unsure, quiet, settled>>
overclockVars == <<loaded, tables, policy, governor, stat, elapsed, trans, buf, pc, arg, ghosts>>

End == -2  \* CPUFREQ_TABLE_END
kHz(rate) == rate \div 1000

-----------------------------------------------------------------------------
(* The kernel's frequency table has the points from the fastest down, but  *)
(* perhaps not the slowest.                                                *)
KernelTable == [k \in 0 .. N |-> IF k < Entries THEN kHz(Rates[N - k]) ELSE End]

FirstEnd(t) == CHOOSE k \in DOMAIN t : t[k] = End /\ \A i \in DOMAIN t : i < k => t[i] # End
Frequencies(t) == {t[k] : k \in 0 .. FirstEnd(t) - 1}

OverclockInit ==
  /\ loaded = FALSE
  /\ opps = Rates /\ freq_table = KernelTable
  /\ pmin = Lowest(Frequencies(KernelTable)) /\ pmax = Highest(Frequencies(KernelTable))
  /\ info = <<pmin, pmax>>
  /\ cur \in Frequencies(KernelTable) /\ governor = "other"
  /\ stat = NULL /\ elapsed = 0 /\ trans = NULL
  /\ buf = <<0, 0>> /\ pc = [w \in Writers |-> "out"] /\ arg = [w \in Writers |-> <<0, 0>>]
  /\ unsure = {} /\ quiet = TRUE /\ settled = FALSE

-----------------------------------------------------------------------------
(* The statistics *)

\* freq_table_get_index
GetIndex(st, f) ==
  LET found == {i \in DOMAIN st.freq_table : st.freq_table[i] = f}
  IN  IF found = {} THEN -1 ELSE Lowest(found)

\* cpufreq_stats_create_table: each frequency once, and a place to spare.
NewEntries(t) == {k \in 0 .. FirstEnd(t) - 1 : \A i \in 0 .. k - 1 : t[i] # t[k]}
Place(t, k) == Cardinality({i \in NewEntries(t) : i < k})
CreatedTable(t) ==
  [i \in 0 .. FirstEnd(t) |-> IF \E k \in NewEntries(t) : Place(t, k) = i
                             THEN t[CHOOSE k \in NewEntries(t) : Place(t, k) = i] ELSE 0]

\* The policy notifier, the first time; the module is loaded before
\* overclock, which calls it.
CreateStats ==
  /\ stat = NULL /\ ~loaded
  /\ LET table == CreatedTable(freq_table)
         st == [freq_table |-> table, time |-> [i \in DOMAIN table |-> 0], since |-> 0,
                last_index |-> 0]
     IN  stat' = [st EXCEPT !.last_index = GetIndex(st, cur)]
  /\ elapsed' = 0 /\ settled' = TRUE
  /\ UNCHANGED <<loaded, tables, policy, governor, trans, buf, pc, arg, unsure, quiet>>

\* cpufreq_stats_update
NotUpdated(st) == [st EXCEPT !.since = 0]
Updated(st) ==
  [freq_table |-> st.freq_table, time |-> [st.time EXCEPT ![st.last_index] = @ + st.since],
   since |-> 0, last_index |-> st.last_index]

Jiffy ==
  /\ stat # NULL /\ elapsed < MaxTicks
  /\ elapsed' = elapsed + 1 /\ stat' = [stat EXCEPT !.since = @ + 1]
  /\ UNCHANGED <<loaded, tables, policy, governor, trans, buf, pc, arg, ghosts>>

ShowTimeInState ==
  /\ stat # NULL /\ stat' = Updated(stat)
  /\ UNCHANGED <<loaded, tables, policy, governor, elapsed, trans, buf, pc, arg, ghosts>>

-----------------------------------------------------------------------------
(* Transitions of the CPU, one at a time, and the governors that want them *)

\* cpufreq_stat_notifier_trans looks the new frequency up and counts the time
\* of the old one...
Transition(f) ==
  /\ trans = NULL /\ f # cur
  /\ cur' = f
  /\ IF stat = NULL
     THEN UNCHANGED <<stat, trans, quiet>>
     ELSE /\ trans' = GetIndex(stat, f)
          /\ stat' = Updated(stat)
          /\ quiet' = (\A w \in Writers : pc[w] \notin {"table", "policy", "stats"})

\* ... and moves to it, if the table has it.
NewIndexKept(new) == stat.last_index
NewIndex(new) == IF -1 \in {stat.last_index, new} THEN stat.last_index ELSE new

TransitionEnds ==
  /\ trans # NULL /\ trans' = NULL
  /\ stat' = [stat EXCEPT !.last_index = NewIndex(trans)]
  /\ settled' = quiet
  /\ UNCHANGED <<loaded, tables, policy, governor, elapsed, buf, pc, arg, unsure, quiet>>

Allowed(lo, hi) == {f \in Frequencies(freq_table) : lo <= f /\ f <= hi}
Wanted(lo, hi) ==
  Pick(IF Allowed(lo, hi) # {} THEN Allowed(lo, hi) ELSE Frequencies(freq_table), lo, "L")

\* Another governor sets what it likes.
OtherGovernor ==
  /\ governor = "other" /\ \E f \in Allowed(pmin, pmax) : Transition(f)
  /\ UNCHANGED <<loaded, tables, pmin, pmax, info, governor, elapsed, buf, pc, arg, unsure, settled>>

\* cpufreq_governor_powersave: START and LIMITS.
Powersave ==
  IF Wanted(pmin', pmax') # cur THEN Transition(Wanted(pmin', pmax'))
  ELSE UNCHANGED <<cur, stat, trans, quiet>>

SetGovernor ==
  /\ trans = NULL /\ UNCHANGED <<pmin, pmax>>
  /\ \/ governor' = "powersave" /\ Powersave
     \/ governor' = "other" /\ UNCHANGED <<cur, stat, trans, quiet>>
  /\ UNCHANGED <<loaded, tables, info, elapsed, buf, pc, arg, unsure, settled>>

SetPolicy ==
  /\ trans = NULL /\ governor = "powersave"
  /\ \E lo, hi \in Frequencies(freq_table) :
       info[1] <= lo /\ lo <= hi /\ hi <= info[2] /\ pmin' = lo /\ pmax' = hi
  /\ Powersave
  /\ UNCHANGED <<loaded, tables, info, governor, elapsed, buf, pc, arg, unsure, settled>>

-----------------------------------------------------------------------------
(* overclock.c *)

\* overclock_init: the frequency table gets N entries, the missing one a copy
\* of the one before.
Filled(t) ==
  LET ended == [t EXCEPT ![N] = End]
  IN  [k \in 0 .. N |-> IF k < FirstEnd(ended) \/ k = N THEN ended[k]
                        ELSE ended[FirstEnd(ended) - 1]]

Load ==
  /\ ~loaded /\ stat # NULL /\ loaded' = TRUE
  /\ freq_table' = Filled(freq_table)
  /\ UNCHANGED <<opps, policy, governor, stat, elapsed, trans, buf, pc, arg, ghosts>>

\* The proc files are gone once nobody uses them; the tables stay.
Unload ==
  /\ loaded /\ \A w \in Writers : pc[w] = "out"
  /\ loaded' = FALSE
  /\ UNCHANGED <<tables, policy, governor, stat, elapsed, trans, buf, pc, arg, ghosts>>

Goto(w, l) == pc' = [pc EXCEPT ![w] = l]

WriteCopies(w) ==
  /\ loaded /\ pc[w] = "out" /\ Goto(w, "scan")
  /\ buf' \in OppInputs
  /\ UNCHANGED <<loaded, tables, policy, governor, stat, elapsed, trans, arg, ghosts>>

\* A bad index changes nothing.
ValidIndex(index) == index >= 1 /\ index <= N

Moving(w, i) == pc[w] \in {"table", "policy", "stats"} /\ arg[w][1] = i

WriteOpp(w) ==
  /\ pc[w] = "scan"
  /\ IF ValidIndex(buf[1])
     THEN /\ arg' = [arg EXCEPT ![w] = buf] /\ Goto(w, "table")
          /\ opps' = [opps EXCEPT ![buf[1]] = buf[2]]
          /\ unsure' = IF \E v \in Writers : Moving(v, buf[1]) /\ arg[v][2] # buf[2]
                       THEN unsure \cup {buf[1]} ELSE unsure \ {buf[1]}
          /\ quiet' = FALSE /\ settled' = FALSE
     ELSE Goto(w, "out") /\ UNCHANGED <<arg, opps, ghosts>>
  /\ UNCHANGED <<loaded, freq_table, policy, governor, stat, elapsed, trans, buf>>

EntryByIndex(w) == arg[w][1] - 1
Entry(w) == N - arg[w][1]

WriteTable(w) ==
  /\ pc[w] = "table" /\ Goto(w, "policy")
  /\ freq_table' = [freq_table EXCEPT ![Entry(w)] = kHz(arg[w][2])]
  /\ UNCHANGED <<loaded, opps, policy, governor, stat, elapsed, trans, buf, arg, ghosts>>

\* The limits follow the fastest and the slowest point, without an event.
WritePolicy(w) ==
  /\ pc[w] = "policy" /\ Goto(w, "stats")
  /\ LET f == kHz(arg[w][2])
     IN  CASE arg[w][1] = N -> pmax' = f /\ info' = <<info[1], f>> /\ UNCHANGED pmin
           [] arg[w][1] = 1 /\ N # 1 -> pmin' = f /\ info' = <<f, info[2]>> /\ UNCHANGED pmax
           [] OTHER -> UNCHANGED <<pmin, pmax, info>>
  /\ UNCHANGED <<loaded, tables, cur, governor, stat, elapsed, trans, buf, arg, ghosts>>

\* cpufreq_stats_freq_update
WriteStats(w) ==
  /\ pc[w] = "stats" /\ Goto(w, "out")
  /\ stat' = [stat EXCEPT !.freq_table[Entry(w)] = kHz(arg[w][2])]
  /\ arg' = [arg EXCEPT ![w] = <<0, 0>>]
  /\ quiet' = FALSE
  /\ UNCHANGED <<loaded, tables, policy, governor, elapsed, trans, buf, unsure, settled>>

Write(w) == WriteCopies(w) \/ WriteOpp(w) \/ WriteTable(w) \/ WritePolicy(w) \/ WriteStats(w)

-----------------------------------------------------------------------------
OverclockNext ==
  \/ CreateStats \/ Jiffy \/ ShowTimeInState
  \/ TransitionEnds \/ OtherGovernor \/ SetGovernor \/ SetPolicy
  \/ Load \/ Unload \/ \E w \in Writers : Write(w)

OverclockSpec == OverclockInit /\ [][OverclockNext]_overclockVars

-----------------------------------------------------------------------------
(* Whatever writes overlap, a point that none is moving has the same       *)
(* frequency in the frequency table, in the statistics and, for the outer  *)
(* points, at that end of the policy.  Not if two writes at once moved it  *)
(* to different rates, until another moves it; and not the point that the  *)
(* kernel's table may lack, whose entry is a copy of the next until then.  *)
Told == {i \in 1 .. N : N - i < Entries \/ opps[i] # Rates[i]}

TablesAgree ==
  stat # NULL => \A i \in Told \ unsure : (\A w \in Writers : ~Moving(w, i)) =>
    /\ freq_table[N - i] = kHz(opps[i]) /\ stat.freq_table[N - i] = kHz(opps[i])
    /\ i = N => info[2] = kHz(opps[i])
    /\ i = 1 /\ N # 1 => info[1] = kHz(opps[i])

(* From the end of the first transition after the last write on, time is   *)
(* counted for the frequency the CPU runs at, if it is that of a point     *)
(* for which the tables agree.                                             *)
AccountsRight ==
  settled /\ trans = NULL /\ (\E i \in Told \ unsure : cur = kHz(opps[i])) =>
    stat.freq_table[stat.last_index] = cur

(* Every jiffy is counted once, whatever is written or looked up.          *)
Total(time) ==
  LET upTo[k \in 0 .. Entries] == time[k] + IF k = 0 THEN 0 ELSE upTo[k - 1]
  IN  upTo[Entries]

TimeConserved == stat # NULL => elapsed = stat.since + Total(stat.time)
=============================================================================
