----------------------------- MODULE HostCalls -----------------------------
(***************************************************************************)
(* What the process asks of the host it runs on: memory, files and pipes.  *)
(* Any of these calls may fail, a bounded number of times.  What they gave *)
(* is held until it is freed or closed.                                    *)
(***************************************************************************)
EXTENDS TryCatch, Integers

CONSTANT MaxFailures    \* calls of the host that fail

ASSUME FailuresAssumption == MaxFailures \in Nat

VARIABLES
    held,               \* blocks of the heap, open files and pipes, by their owner
    failures            \* the calls of the host that have failed

Fails == failures < MaxFailures /\ failures' = failures + 1
Works == UNCHANGED failures

\* malloc, realloc, fopen or popen: the process goes on with what it asked for,
\* or an exception says that it did not get it.
Acquire(resource, exception, place) ==
    \/ Works /\ held' = held \cup {resource} /\ Goes(place)
    \/ Fails /\ Throw(exception) /\ UNCHANGED held

\* free, fclose and pclose
Release(resources) == held' = held \ resources
=============================================================================
