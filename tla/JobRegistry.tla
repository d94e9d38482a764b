----------------------------- MODULE JobRegistry -----------------------------
(***************************************************************************)
(* The progress bars: progress.ProgressRegistry, one per process, keyed by *)
(* job id.  An upload's or an export's id is random, drawn by the page; a  *)
(* connection's is glv-connect-<diagram id>, and diagram ids count from d1 *)
(* in every session.  Workers write stages, bars poll, writes prune.       *)
(***************************************************************************)
EXTENDS Naturals, FiniteSets

CONSTANTS
    Workers,    \* threads that report: each belongs to one visitor's page
    Connecting, \* those that connect a diagram
    JobOf,      \* the job id each reports under, "" for none
    Stages,     \* how many stages a worker reports before it ends
    JobTtl,     \* _JOB_TTL_SECONDS
    Limit,      \* 32: a registry with more prunes
    MaxTime     \* bound of the clock

ASSUME RegistryAssumption ==
    /\ IsFiniteSet(Workers) /\ Connecting \subseteq Workers
    /\ DOMAIN JobOf = Workers
    /\ {Stages, JobTtl, Limit, MaxTime} \subseteq Nat

VARIABLES
    time,       \* time.time()
    jobs,       \* _jobs: the entry of each id, a set of at most one per id
    worker,     \* how far each worker is: 0 .. Stages, "done" or "failed"
    bar         \* what each worker's page was shown last

registryVars == <<time, jobs, worker, bar>>

Ids == {JobOf[w] : w \in Workers} \ {""}
Blank == [by |-> "nobody", stage |-> 0, done |-> FALSE]
Entry(i) == {e \in jobs : e.id = i}

RegistryInit ==
    /\ time = 0 /\ jobs = {}
    /\ worker = [w \in Workers |-> 0]
    /\ bar = [w \in Workers |-> Blank]

\* set(): write, then drop what is too old, if there is too much.
Fresh(e) == ~(e.ts + JobTtl < time)

\* Mutant: too many: only the newest stays.
SetNewest(i, w, stage, done) ==
    LET new == [id |-> i, by |-> w, stage |-> stage, done |-> done, ts |-> time]
        all == (jobs \ Entry(i)) \cup {new}
    IN  jobs' = IF Cardinality(all) > Limit THEN {new} ELSE all

SetJob(i, w, stage, done) ==
    LET new == [id |-> i, by |-> w, stage |-> stage, done |-> done, ts |-> time]
        all == (jobs \ Entry(i)) \cup {new}
    IN  jobs' = IF Cardinality(all) > Limit THEN {e \in all : Fresh(e)} ELSE all

\* JobReporter.stage / fraction: nothing without an id.
Report(w) ==
    /\ worker[w] < Stages
    /\ worker' = [worker EXCEPT ![w] = @ + 1]
    /\ IF JobOf[w] = "" THEN UNCHANGED jobs
       ELSE SetJob(JobOf[w], w, worker[w] + 1, FALSE)
    /\ UNCHANGED <<time, bar>>

\* JobReporter.finish / fail: the last word of a worker, Stages + 1.
End(w) ==
    /\ worker[w] <= Stages
    /\ worker' = [worker EXCEPT ![w] = Stages + 1]
    /\ IF JobOf[w] = "" THEN UNCHANGED jobs
       ELSE SetJob(JobOf[w], w, Stages + 1, TRUE)
    /\ UNCHANGED <<time, bar>>

\* GET /progress?job=: the entry, or a blank one for an id nobody knows.
Poll(w) ==
    /\ JobOf[w] # ""
    /\ bar' = [bar EXCEPT ![w] =
                 IF Entry(JobOf[w]) = {} THEN Blank
                 ELSE LET e == CHOOSE e \in Entry(JobOf[w]) : TRUE
                      IN  [by |-> e.by, stage |-> e.stage, done |-> e.done]]
    /\ UNCHANGED <<time, jobs, worker>>

\* drop(): a disconnect, or a connection attempt that was abandoned.
Drop(w) ==
    /\ w \in Connecting /\ Entry(JobOf[w]) # {}
    /\ jobs' = jobs \ Entry(JobOf[w])
    /\ UNCHANGED <<time, worker, bar>>

TimePasses ==
    /\ time < MaxTime /\ time' = time + 1
    /\ UNCHANGED <<jobs, worker, bar>>

RegistryNext ==
    \/ \E w \in Workers : Report(w) \/ End(w) \/ Poll(w) \/ Drop(w)
    \/ TimePasses

RegistrySpec == RegistryInit /\ [][RegistryNext]_registryVars

----------------------------------------------------------------------------
(* Properties. *)

\* A worker whose id no other worker reports under.
Alone(w) == JobOf[w] # "" /\ \A v \in Workers : JobOf[v] = JobOf[w] => v = w

\* Every variable keeps to its values, and an id has one entry.
RegistryTypeOK ==
    /\ time \in Nat
    /\ worker \in [Workers -> 0 .. Stages + 1]
    /\ \A e \in jobs : /\ e.id \in Ids /\ e.by \in Workers /\ e.ts \in Nat
                       /\ e.stage \in 1 .. Stages + 1 /\ e.done \in BOOLEAN
    /\ \A e, f \in jobs : e.id = f.id => e = f

(***************************************************************************)
(* A bar that shows its job as done shows one that has ended, and none     *)
(* runs ahead of its work or shows another's, when the id is the worker's  *)
(* alone: what is pruned, dropped or reported late only ever leaves a      *)
(* blank bar or one that lags.                                             *)
(***************************************************************************)
BarsAreTrue ==
    \A w \in Workers : Alone(w) =>
        /\ bar[w].done => worker[w] = Stages + 1
        /\ bar[w].stage <= worker[w]
        /\ bar[w].by \in {w, "nobody"}

(***************************************************************************)
(* And none is lost to a crowd: a job that reported within the TTL is      *)
(* still there however many others came, unless a disconnect dropped it    *)
(* (progress.py:73-83).                                                    *)
(***************************************************************************)
ProgressIsTrue ==
    [][/\ BarsAreTrue'
       /\ \A e \in jobs : e.ts + JobTtl >= time
             => \/ \E f \in jobs' : f.id = e.id
                \/ \E w \in Connecting : e.id = JobOf[w] /\ Drop(w)]_registryVars
=============================================================================
