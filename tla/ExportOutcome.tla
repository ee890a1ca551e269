----------------------------- MODULE ExportOutcome -----------------------------
(***************************************************************************)
(* What a bridge and a gateway promise together of an export, with neither *)
(* processes nor calls, leases, rows or restarts: a request goes out to    *)
(* the peer at most once, and what is reported of it is true.  A request   *)
(* that is reported sent has gone out; one reported unsent (denied,        *)
(* refused, expired) has not and never will; whatever cannot be known is   *)
(* reported as doubtful until it is known or an operator gives it up.      *)
(***************************************************************************)
EXTENDS Naturals

CONSTANT Requests

VARIABLES report,   \* what is reported of a request
          out       \* how often it went out to the peer

vars == <<report, out>>

Init == report = [r \in Requests |-> "none"] /\ out = [r \in Requests |-> 0]

Undecided == {"open", "doubtful"}

\* An export is queued, or denied at once.
Enter(r) ==
    /\ report[r] = "none"
    /\ report' \in {[report EXCEPT ![r] = "open"], [report EXCEPT ![r] = "unsent"]}
    /\ UNCHANGED out

\* The request goes out, known to the reporter or not.
Leave(r) ==
    /\ out[r] = 0 /\ report[r] \notin {"none", "unsent"}
    /\ out' = [out EXCEPT ![r] = 1]
    /\ UNCHANGED report

\* Its fate is learned, or that it is still open.
Learn(r) ==
    /\ report[r] \in Undecided
    /\ \/ out[r] = 1 /\ report' = [report EXCEPT ![r] = "sent"]
       \/ out[r] = 0 /\ report' = [report EXCEPT ![r] = "unsent"]
       \/ report' = [report EXCEPT ![r] = "open"]
    /\ UNCHANGED out

\* Some open requests are in doubt from now on, and one in doubt is given up.
Doubt ==
    /\ \E D \in SUBSET {r \in Requests : report[r] = "open"} :
          LET doubted == [r \in Requests |-> IF r \in D THEN "doubtful" ELSE report[r]]
          IN  \/ report' = doubted
              \/ \E r \in Requests : /\ doubted[r] = "doubtful"
                                     /\ report' = [doubted EXCEPT ![r] = "abandoned"]
    /\ UNCHANGED out

Next == Doubt \/ \E r \in Requests : Enter(r) \/ Leave(r) \/ Learn(r)

Spec == Init /\ [][Next]_vars

=============================================================================
