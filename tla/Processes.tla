----------------------------- MODULE Processes -----------------------------
(***************************************************************************)
(* External commands: execute() of util.c, which forks a shell and waits   *)
(* for it, against sigchld_handler of gateway.c, which reaps any child of  *)
(* the process in whatever thread the signal is delivered to.              *)
(***************************************************************************)
EXTENDS Integers, FiniteSets

CONSTANTS
    Callers,        \* the threads that run commands
    ExitCodes       \* the exit codes of a command

Killed == -1        \* the status of a child that a signal ended
Unknown == -2       \* no status: the child runs, or there is none

ASSUME ExitCodesAssumption == 0 \in ExitCodes /\ ExitCodes \subseteq Nat

VARIABLES
    child,          \* the child of each thread: none, running, zombie or reaped
    status,         \* how the child of each thread ended
    rc,             \* what execute() has returned last, to whichever thread
    sigchld         \* a SIGCHLD is pending; a second one is merged with it

processVars == <<child, status, rc, sigchld>>

ProcessInit ==
    /\ child = [t \in Callers |-> "none"]
    /\ status = [t \in Callers |-> Unknown]
    /\ rc = Unknown
    /\ sigchld = FALSE

\* execute up to waitpid.
Fork(t) ==
    /\ child[t] = "none"
    /\ child' = [child EXCEPT ![t] = "running"]
    /\ UNCHANGED <<status, rc, sigchld>>

\* The command ends; the kernel keeps its status until somebody waits.
ChildEnds(t) ==
    /\ child[t] = "running"
    /\ child' = [child EXCEPT ![t] = "zombie"]
    /\ \E s \in ExitCodes \cup {Killed} : status' = [status EXCEPT ![t] = s]
    /\ sigchld' = TRUE
    /\ UNCHANGED rc

\* waitpid(-1, &status, WNOHANG): one zombie, whoever forked it, or none.
sigchld_handler ==
    /\ sigchld
    /\ sigchld' = FALSE
    /\ \/ \E t \in Callers : child[t] = "zombie" /\ child' = [child EXCEPT ![t] = "reaped"]
       \/ (\A t \in Callers : child[t] # "zombie") /\ UNCHANGED child
    /\ UNCHANGED <<status, rc>>

\* What execute makes of waitpid: an exit code if it got the status and the
\* child exited, 1 if the child was killed or somebody else has reaped it.
\* Mutant: the return value of waitpid is not looked at, and the status
\* that it did not set is taken for an exit.
ResultUnchecked(t) == IF child[t] = "reaped" THEN 0 ELSE IF status[t] = Killed THEN 1 ELSE status[t]
Result(t) == IF child[t] = "reaped" \/ status[t] = Killed THEN 1 ELSE status[t]

WaitReturns(t) ==
    /\ child[t] \in {"zombie", "reaped"}
    /\ rc' = Result(t)
    /\ child' = [child EXCEPT ![t] = "none"]
    /\ status' = [status EXCEPT ![t] = Unknown]
    /\ UNCHANGED sigchld

\* execute() reports success only of a command that did succeed, whoever
\* reaped its process.
NoFalseSuccess ==
    [][\A t \in Callers : child[t] # "none" /\ child'[t] = "none" /\ rc' = 0
                          => status[t] = 0]_processVars
=============================================================================
