------------------------------ MODULE LogFile ------------------------------
(***************************************************************************)
(* The synchronous Logger (src/log/log.cpp, log.h): init with             *)
(* buffer_queue_size 0, as every program of the repository but the async  *)
(* test calls it; the LOG_* macros, that is write_log and flush; the      *)
(* rotation of l_fp by day and by l_split_lines; ~Logger's fclose.        *)
(*                                                                         *)
(* A stream is STDOUT, NULL or a log file [day, part]: part 0 is           *)
(* dir/YYYY_MM_DD_name and part k is YYYY_MM_DD_name.k.  The Logger is a  *)
(* function-local static, so the members init does not set are zero.      *)
(* Each section under l_mutex is one step; write_log reads the clock      *)
(* before its first lock.  fopen may fail and return NULL; fclose or      *)
(* fputs of NULL crashes the process.  Formatting is left out: it only    *)
(* fills l_buf under l_mutex.                                              *)
(***************************************************************************)
EXTENDS Naturals, Sequences

CONSTANTS
    Producers,    \* threads calling the LOG_* macros
    SplitLines,   \* init's split_lines
    MaxLines,     \* bound: LOG_* calls in all
    MaxDay        \* bound: days the clock advances through

ASSUME SplitLines >= 1

NULLFP == [kind |-> "NULL", day |-> 0, part |-> 0]
STDOUT == [kind |-> "stdout", day |-> 0, part |-> 0]
LogFileName(d, k) == [kind |-> "file", day |-> d, part |-> k]

\* init's file_name: NULL, a path with a '/', or a bare name
Args == {"NULL", "dir/name", "name"}
HasSlash(a) == a = "dir/name"

VARIABLES
    l_inited, l_is_stdout, l_fp, l_today, l_count, l_split_lines,
    day,        \* the day get_current_sys_time reads
    ppc,        \* each producer: "idle", "rotate", "write"
    tm,         \* the day a producer read before its first lock
    mpc,        \* the main thread: "init", "run", "done"
    lines,      \* LOG_* calls made
    out,        \* history: the stream each fputs wrote to, in order
    crashed

vars == <<l_inited, l_is_stdout, l_fp, l_today, l_count, l_split_lines, day,
          ppc, tm, mpc, lines, out, crashed>>

Init ==
    /\ l_inited = FALSE /\ l_is_stdout = FALSE /\ l_fp = NULLFP
    /\ l_today = 0 /\ l_count = 0 /\ l_split_lines = 0
    /\ day = 1
    /\ ppc = [p \in Producers |-> "idle"] /\ tm = [p \in Producers |-> 0]
    /\ mpc = "init" /\ lines = 0 /\ out = <<>> /\ crashed = FALSE

(* init(file_name, 0): NULL selects stdout; then the level, split_lines   *)
(* and l_today are set.  stdout: inited, l_fp = stdout.  A name without a *)
(* '/' returns false; else fopen(dir/YYYY_MM_DD_name, "a"), and inited    *)
(* only if it opened.                                                      *)
InitLogger(a) ==
    /\ mpc = "init" /\ ~crashed
    /\ l_is_stdout' = (l_is_stdout \/ a = "NULL")
    /\ l_split_lines' = SplitLines /\ l_today' = day
    /\ \/ a = "NULL" /\ l_inited' = TRUE /\ l_fp' = STDOUT
       \/ a # "NULL" /\ ~HasSlash(a) /\ UNCHANGED <<l_inited, l_fp>>
       \/ /\ HasSlash(a)
          /\ \E ok \in BOOLEAN :
                /\ l_fp' = IF ok THEN LogFileName(day, 0) ELSE NULLFP
                /\ l_inited' = ok
    /\ mpc' = "run"
    /\ UNCHANGED <<l_count, day, ppc, tm, lines, out, crashed>>

(* A LOG_* macro (it only warns when the logger is not inited) calls      *)
(* write_log, which reads the clock before taking l_mutex.                 *)
WriteLog(p) ==
    /\ ppc[p] = "idle" /\ mpc = "run" /\ ~crashed
    /\ lines < MaxLines /\ lines' = lines + 1
    /\ tm' = [tm EXCEPT ![p] = day] /\ ppc' = [ppc EXCEPT ![p] = "rotate"]
    /\ UNCHANGED <<l_inited, l_is_stdout, l_fp, l_today, l_count, l_split_lines,
                   day, mpc, out, crashed>>

(* write_log's first section: l_count++; on a new day or when l_count is  *)
(* a multiple of l_split_lines, fflush and fclose l_fp and fopen the next *)
(* file: YYYY_MM_DD_name of the read day with l_today set and l_count    *)
(* reset, or name.(l_count / l_split_lines).  This happens whatever l_fp  *)
(* is, stdout included.                                                    *)
Rotate(p) ==
    LET c == l_count + 1
        newDay == l_today # tm[p]
    IN
    /\ ppc[p] = "rotate" /\ ~crashed
    /\ \/ /\ ~newDay /\ c % l_split_lines # 0
          /\ l_count' = c /\ ppc' = [ppc EXCEPT ![p] = "write"]
          /\ UNCHANGED <<l_fp, l_today, crashed>>
       \/ /\ newDay \/ c % l_split_lines = 0
          /\ l_fp = NULLFP /\ crashed' = TRUE
          /\ UNCHANGED <<l_fp, l_today, l_count, ppc>>
       \/ /\ newDay \/ c % l_split_lines = 0
          /\ l_fp # NULLFP
          /\ \E ok \in BOOLEAN :
                l_fp' = IF ~ok THEN NULLFP
                        ELSE LogFileName(tm[p], IF newDay THEN 0 ELSE c \div l_split_lines)
          /\ l_today' = tm[p]
          /\ l_count' = IF newDay THEN 0 ELSE c
          /\ ppc' = [ppc EXCEPT ![p] = "write"]
          /\ UNCHANGED crashed
    /\ UNCHANGED <<l_inited, l_is_stdout, l_split_lines, day, tm, mpc, lines, out>>

(* The format section, then, not async, fputs(log_str, l_fp) under        *)
(* l_mutex, and the macro's flush().                                       *)
WriteLine(p) ==
    /\ ppc[p] = "write" /\ ~crashed
    /\ IF l_fp = NULLFP
       THEN crashed' = TRUE /\ UNCHANGED <<out, ppc>>
       ELSE /\ out' = Append(out, l_fp) /\ ppc' = [ppc EXCEPT ![p] = "idle"]
            /\ UNCHANGED crashed
    /\ UNCHANGED <<l_inited, l_is_stdout, l_fp, l_today, l_count, l_split_lines,
                   day, tm, mpc, lines>>

\* The calendar moves on.
DayPasses ==
    /\ day < MaxDay /\ day' = day + 1
    /\ UNCHANGED <<l_inited, l_is_stdout, l_fp, l_today, l_count, l_split_lines,
                   ppc, tm, mpc, lines, out, crashed>>

(* ~Logger at exit, after the producers were joined: no writer thread in  *)
(* sync mode; fclose(l_fp) if it is not NULL, delete l_buf.               *)
DestroyLogger ==
    /\ mpc = "run" /\ ~crashed
    /\ \A p \in Producers : ppc[p] = "idle"
    /\ mpc' = "done"
    /\ UNCHANGED <<l_inited, l_is_stdout, l_fp, l_today, l_count, l_split_lines,
                   day, ppc, tm, lines, out, crashed>>

Next ==
    \/ \E a \in Args : InitLogger(a)
    \/ \E p \in Producers : WriteLog(p) \/ Rotate(p) \/ WriteLine(p)
    \/ DayPasses \/ DestroyLogger

Spec == Init /\ [][Next]_vars

--------------------------------------------------------------------------
(* Properties.                                                             *)

(* init(NULL) means "log to stdout" (log.cpp's comment at its check of    *)
(* file_name): once it was called, every line write_log puts out goes to  *)
(* stdout, however many lines are logged and whatever the date.           *)
StdoutKept ==
    l_is_stdout => \A i \in 1..Len(out) : out[i] = STDOUT
=============================================================================
