--------------------------- MODULE RequestService ---------------------------
(***************************************************************************)
(* What the server promises its clients: a request is answered at most     *)
(* once, streamed answers are produced one request at a time, what has     *)
(* been sent is never taken back, and nothing follows the end of an        *)
(* answer.                                                                 *)
(***************************************************************************)
EXTENDS Sequences, SequencesExt

CONSTANT Requests
VARIABLE reply        \* per request: its state and what was shown so far

Blank == [reasoning |-> <<>>, content |-> <<>>, calls |-> <<>>]

Extends(after, before) == \A field \in DOMAIN before : IsPrefix(before[field], after[field])

Init == reply = [r \in Requests |-> [state |-> "none", shown |-> Blank]]

Open(r) ==
    /\ reply[r].state = "none"
    /\ \A other \in Requests : reply[other].state # "open"
    /\ reply' = [reply EXCEPT ![r].state = "open"]

Continue(r) ==
    /\ reply[r].state = "open"
    /\ \E shown \in {reply'[r].shown} :
          /\ Extends(shown, reply[r].shown)
          /\ reply' = [reply EXCEPT ![r].shown = shown]

Close(r) ==
    /\ reply[r].state # "closed"
    /\ \E shown \in {reply'[r].shown} :
          /\ Extends(shown, reply[r].shown)
          /\ reply' = [reply EXCEPT ![r] = [state |-> "closed", shown |-> shown]]

(* The process ends: every answer still owed is closed where it stands.    *)
Shutdown ==
    reply' \in {[r \in Requests |->
                   IF r \in cut THEN [reply[r] EXCEPT !.state = "closed"] ELSE reply[r]] :
                cut \in SUBSET Requests}

Next == Shutdown \/ \E r \in Requests : Open(r) \/ Continue(r) \/ Close(r)

Spec == Init /\ [][Next]_reply
=============================================================================
