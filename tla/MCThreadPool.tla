---------------------------- MODULE MCThreadPool ----------------------------
(* Model-checking instance of ThreadPool: two workers and three tasks, so *)
(* that a task can be queued while both workers are busy or blocked.      *)
EXTENDS ThreadPool

CONSTANTS w1, w2

MCWorkers == {w1, w2}
MCMaxTasks == 3
=============================================================================
