--------------------------------- MODULE Pid --------------------------------
(***************************************************************************)
(* The allocation of process ids: get_pid (process/proc.c), with the two   *)
(* static variables it keeps between calls, set_links and remove_links.    *)
(* The idle processes have the pids 0 .. LcpuCount - 1 and are not in      *)
(* proc_list.                                                              *)
(***************************************************************************)
EXTENDS Naturals, Sequences, SequencesExt

CONSTANTS
    LcpuCount,  \* lcpu_count
    MaxProcess, \* MAX_PROCESS
    MaxPid      \* MAX_PID

ASSUME PidAssumption ==
    /\ LcpuCount \in Nat \ {0} /\ MaxProcess \in Nat
    /\ MaxPid \in Nat /\ MaxPid > MaxProcess

VARIABLES
    proc_list,  \* the pids of the processes, the latest first
    last_pid,   \* the pid handed out last
    next_safe   \* no process has a pid between last_pid and this one

pidVars == <<proc_list, last_pid, next_safe>>

PidInit ==
    /\ proc_list = <<LcpuCount>>
    /\ last_pid = LcpuCount
    /\ next_safe = MaxPid

\* Mutant: next_safe ends up as the last larger pid seen, not the smallest.
TurnAnyLarger(s) ==
    LET pid == proc_list[s.i]
    IN  IF s.i > Len(proc_list) THEN s
        ELSE IF pid = s.last
        THEN IF s.last + 1 >= s.safe
             THEN [i |-> 1, last |-> IF s.last + 1 >= MaxPid THEN 1 ELSE s.last + 1, safe |-> MaxPid]
             ELSE [i |-> s.i + 1, last |-> s.last + 1, safe |-> s.safe]
        ELSE [i |-> s.i + 1, last |-> s.last, safe |-> IF pid > s.last THEN pid ELSE s.safe]

\* One turn of the loop of get_pid, which is at the s.i-th process of the list
\* with s.last in last_pid and s.safe in next_safe.
Turn(s) ==
    LET pid == proc_list[s.i]
    IN  IF s.i > Len(proc_list) THEN s
        ELSE IF pid = s.last
        THEN IF s.last + 1 >= s.safe
             THEN [i |-> 1, last |-> IF s.last + 1 >= MaxPid THEN 1 ELSE s.last + 1, safe |-> MaxPid]
             ELSE [i |-> s.i + 1, last |-> s.last + 1, safe |-> s.safe]
        ELSE [i |-> s.i + 1, last |-> s.last,
              safe |-> IF pid > s.last /\ s.safe > pid THEN pid ELSE s.safe]

\* Bound: the loop has ended after this many turns.
Turns == MaxPid * MaxProcess

\* What the loop makes of a first last_pid.
Scan(last) ==
    LET s[n \in 0 .. Turns] ==
            IF n = 0 THEN [i |-> 1, last |-> last, safe |-> MaxPid] ELSE Turn(s[n - 1])
    IN  s[Turns]

\* Mutant: next_safe is not looked at.
get_pid_unchecked ==
    IF last_pid + 1 >= MaxPid THEN Scan(LcpuCount)
    ELSE [last |-> last_pid + 1, safe |-> next_safe]

\* get_pid: the next pid if it is known to be free, a scan otherwise
get_pid ==
    IF last_pid + 1 >= MaxPid THEN Scan(LcpuCount)
    ELSE IF last_pid + 1 >= next_safe THEN Scan(last_pid + 1)
    ELSE [last |-> last_pid + 1, safe |-> next_safe]

\* do_fork, where it numbers and links the child
do_fork_pid ==
    /\ Len(proc_list) + LcpuCount < MaxProcess
    /\ last_pid' = get_pid.last
    /\ next_safe' = get_pid.safe
    /\ proc_list' = <<get_pid.last>> \o proc_list

\* do_wait, where it unlinks a zombie; initproc never is one
do_wait_pid ==
    /\ \E i \in 1..Len(proc_list) - 1 : proc_list' = RemoveAt(proc_list, i)
    /\ UNCHANGED <<last_pid, next_safe>>

PidNext == do_fork_pid \/ do_wait_pid

PidSpec == PidInit /\ [][PidNext]_pidVars

-----------------------------------------------------------------------------
\* get_pid allocates "a unique pid": no process gets the pid of another one in
\* proc_list, also after the numbers have wrapped around.  The idle processes
\* are not in the list, and with LcpuCount > 1 a scan that restarts at 1 does
\* hand out their pids.
UniquePid == IsInjective(proc_list)

\* What lets get_pid skip the scan: between the two static variables there
\* is no pid in use, whatever has exited and been numbered since they were
\* computed.
WindowIsFree ==
    \A i \in 1..Len(proc_list) : ~(last_pid < proc_list[i] /\ proc_list[i] < next_safe)
=============================================================================
