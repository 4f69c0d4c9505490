---------------------------- MODULE ReviewPages ----------------------------
(***************************************************************************)
(* ReviewStore with a history: for every browser tab, whether another      *)
(* export was on its way while the tab's last script run waited for its    *)
(* own.  With it, what a page offers can be stated for any number of tabs. *)
(***************************************************************************)
EXTENDS ReviewStore

VARIABLE disturbed

\* A thread that has read the rows and not yet closed the file, other than
\* the session itself and the handler that serves it.
OtherExport(s) ==
    \E t \in Threads \ {s, session[s].handler} : writer[t].pc \in {"read", "open"}

Waiting(s) == session[s].pc \in {"asking", "local"}

PagesInit == Init /\ disturbed = [s \in Sessions |-> FALSE]

PagesNext ==
    /\ Next
    /\ disturbed' = [s \in Sessions |->
          IF Waiting(s)' THEN (Waiting(s) /\ disturbed[s]) \/ OtherExport(s)'
                         ELSE disturbed[s]]

PagesSpec == PagesInit /\ [][PagesNext]_<<vars, disturbed>>

-----------------------------------------------------------------------------
\* "so the final export reflects the latest human-reviewed values"
\* (README.md:109): the CSV a page offers has every decision, of any tab, that
\* was recorded when the page's run began, unless another export was going on.
PageIsCurrent ==
    \A s \in Sessions : session[s].page.kind = "whole" =>
                          disturbed[s] \/ session[s].page.at >= session[s].asked

\* A page offers a file that somebody is still writing, or never finished,
\* only if another tab or an abandoned request was at it meanwhile.
PageIsWhole ==
    \A s \in Sessions : disturbed[s] \/ session[s].page.kind \in {"absent", "whole"}
=============================================================================
