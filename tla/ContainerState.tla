--------------------------- MODULE ContainerState ---------------------------
(***************************************************************************)
(* What the panel reads from the status of a container.                    *)
(***************************************************************************)
EXTENDS Integers

\* A container someone stopped on purpose is in no trouble, whatever else its
\* status says.
isUnstable(st) ==
    /\ st.disposition # "intentional"
    /\ \/ st.state \in {"restarting", "dead"}
       \/ st.disposition \in {"unexpected", "oom"}
       \/ st.health = "unhealthy"
       \/ st.oom
       \/ st.restarts > 3

\* The one reason given for it.
instabilityReason(st) ==
    IF st.disposition = "oom" \/ st.oom THEN "oom"
    ELSE IF st.disposition = "unexpected" THEN "unexpected"
    ELSE IF st.state \in {"dead", "restarting"} THEN st.state
    ELSE IF st.health = "unhealthy" THEN "unhealthy"
    ELSE "restarts"

=============================================================================
