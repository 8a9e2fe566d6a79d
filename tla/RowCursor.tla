------------------------------ MODULE RowCursor ------------------------------
(***************************************************************************)
(* What the expert loader is promised by the row workspace, whichever way  *)
(* the rows are read: the missing experts of one group are handed over one *)
(* by one in source order, each as the complete row of the group's own     *)
(* layer, until all have been (done) or the group is given up (failed).    *)
(***************************************************************************)
EXTENDS Integers, Sequences

CONSTANTS
    Layers,  \* expert layers of the package
    Groups   \* the miss lists a demand may have

VARIABLES
    status,  \* of the current or last group
    layer,   \* its layer
    missing, \* its miss list, in source order
    given    \* the rows handed over so far, as <<layer, expert>>

cursor_vars == <<status, layer, missing, given>>

RowInit ==
    /\ status = "none"
    /\ layer \in Layers
    /\ missing = <<>>
    /\ given = <<>>

OpenGroup ==
    /\ status # "open"
    /\ status' = "open"
    /\ layer' \in Layers
    /\ missing' \in Groups
    /\ given' = <<>>

GiveRow ==
    /\ status = "open"
    /\ Len(given) < Len(missing)
    /\ given' = Append(given, <<layer, missing[Len(given) + 1]>>)
    /\ UNCHANGED <<status, layer, missing>>

CloseGroup ==
    /\ status = "open"
    /\ status' \in {"done", "failed"}
    /\ status' = "done" => Len(given) = Len(missing)
    /\ UNCHANGED <<layer, missing, given>>

RowNext == OpenGroup \/ GiveRow \/ CloseGroup

RowSpec == RowInit /\ [][RowNext]_cursor_vars

=============================================================================
