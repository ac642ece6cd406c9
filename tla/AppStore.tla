------------------------------- MODULE AppStore -------------------------------
(***************************************************************************)
(* What the loader promises of the applications on the board, whatever     *)
(* happens to its power: the selected application is never written over,   *)
(* nothing is selected that is not a whole application, and what runs      *)
(* after a reset is the selected application or the loader.                *)
(***************************************************************************)
CONSTANTS Places, Home, Apps, Empty

VARIABLES content, selected, running

vars == <<content, selected, running>>

Init ==
    /\ content \in [Places -> Apps \cup {Empty}]
    /\ selected \in {p \in Places : content[p] # Empty} \cup {Home}
    /\ running = selected

\* A place that is not selected is written: it ends up with a whole
\* application or with none.
Overwrite ==
    /\ running = Home
    /\ \E p \in Places \ {selected}, c \in Apps \cup {Empty} :
         content' = [content EXCEPT ![p] = c]
    /\ UNCHANGED <<selected, running>>

Select ==
    /\ running = Home
    /\ selected' \in {p \in Places : content[p] # Empty}
    /\ UNCHANGED <<content, running>>

\* A reset may drop the selection, and may spoil what was being written.
Restart ==
    /\ selected' \in {selected, Home}
    /\ running' = selected'
    /\ \/ UNCHANGED content
       \/ /\ running = Home
          /\ \E p \in Places \ {selected} : content' = [content EXCEPT ![p] = Empty]

Next == Overwrite \/ Select \/ Restart

Spec == Init /\ [][Next]_vars
=============================================================================
