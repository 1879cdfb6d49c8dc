----------------------------- MODULE AtomicFile -----------------------------
(***************************************************************************)
(* What the configuration file promises its readers: it is absent until    *)
(* somebody has saved it once, and from then on it holds, at every moment, *)
(* exactly one of the values that somebody asked to have saved.            *)
(***************************************************************************)
CONSTANTS Values, Absent

VARIABLES value, wanted   \* what a reader sees; what the active savers ask for

Init == value \in Values \cup {Absent} /\ wanted = {}

Replace == value' \in wanted /\ UNCHANGED wanted

Request == wanted' \in SUBSET Values /\ UNCHANGED value

\* The last saver's rename and the end of its request are one step.
ReplaceAndForget == value' \in wanted /\ wanted' \in SUBSET Values

Spec == Init /\ [][Replace \/ Request \/ ReplaceAndForget]_<<value, wanted>>

=============================================================================
