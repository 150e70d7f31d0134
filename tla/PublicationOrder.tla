--------------------------- MODULE PublicationOrder ---------------------------
(***************************************************************************)
(* What the scheduler promises the jobs that publish to a workspace: they  *)
(* join a line when their run returns, the first of the line publishes     *)
(* while the others wait, and however its publication ends the next one is *)
(* first.  Nobody leaves the line otherwise, and the lines of two          *)
(* workspaces do not wait for each other.                                  *)
(***************************************************************************)
EXTENDS Sequences

CONSTANTS Places, Publishings

VARIABLES line,    \* the publications of a place that are not over
          begun    \* the ones that are under way

OrderInit == line = [x \in Places |-> << >>] /\ begun = {}

Join(x, p) ==
    /\ \A y \in Places : \A i \in DOMAIN line[y] : line[y][i] # p
    /\ p \notin begun
    /\ line' = [line EXCEPT ![x] = Append(@, p)]
    /\ begun' = begun

Begin(x) ==
    /\ line[x] # << >> /\ Head(line[x]) \notin begun
    /\ begun' = begun \cup {Head(line[x])}
    /\ line' = line

End(x) ==
    /\ line[x] # << >> /\ Head(line[x]) \in begun
    /\ begun' = begun \ {Head(line[x])}
    /\ line' = [line EXCEPT ![x] = Tail(@)]

OrderNext == \E x \in Places : \/ \E p \in Publishings : Join(x, p)
                               \/ Begin(x) \/ End(x)

OrderSpec == OrderInit /\ [][OrderNext]_<<line, begun>>

=============================================================================
