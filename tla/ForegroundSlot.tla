--------------------------- MODULE ForegroundSlot ---------------------------
(***************************************************************************)
(* What a session promises about its foreground: "A logical session        *)
(* permits only one foreground exec or PTY at a time."  At most one piece  *)
(* of work owns the foreground, ownership is never handed over without     *)
(* being given up first, and work that gave it up never gets it back.      *)
(***************************************************************************)
CONSTANTS Work, None

VARIABLES owner,  \* the exec or PTY that runs in the foreground, or None
          done    \* the work that has owned the foreground before

Init == owner = None /\ done = {}

Acquire(w) ==
    /\ owner = None /\ w \notin done
    /\ owner' = w
    /\ UNCHANGED done

Release ==
    /\ owner # None
    /\ owner' = None
    /\ done' = done \cup {owner}

Next == Release \/ \E w \in Work : Acquire(w)

Spec == Init /\ [][Next]_<<owner, done>>

=============================================================================
