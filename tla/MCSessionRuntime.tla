-------------------------- MODULE MCSessionRuntime --------------------------
(***************************************************************************)
(* TLC instances of SessionRuntime.                                        *)
(***************************************************************************)
EXTENDS SessionRuntime, TLC

\* Requests, ids and transports are interchangeable (safety runs only).
Symmetry == Permutations(Callers) \cup Permutations(Commands)
            \cup Permutations(Ptys) \cup Permutations(Conns)

\* The session right after create() returned, connected or not: runs that are
\* not about create() itself start here.
ReadyInit ==
    /\ \/ /\ status = "ready"
          /\ \E n \in Conns : slot = n /\ alive = {n} /\ dialed = {n}
       \/ /\ status = "failed"
          /\ slot = None /\ alive = {} /\ dialed = {}
    /\ current = None
    /\ foreground = None /\ fgLock = None
    /\ background = {} /\ detached = {} /\ cancelled = {} /\ hungUp = {}
    /\ cmd = [c \in Commands |-> "unused"]
    /\ exit = [c \in Commands |-> "none"]
    /\ connOf = [w \in Work |-> None]
    /\ task = [w \in Work |-> "none"]
    /\ pc = [k \in Procs |-> "idle"]
    /\ call = [k \in Procs |-> NoCall]
    /\ activity = "recent"

ReadySpec == ReadyInit /\ [][Next]_vars
ReadyFairSpec == ReadySpec /\ Fairness

=============================================================================
