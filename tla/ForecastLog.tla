---------------------------- MODULE ForecastLog ----------------------------
(* What the recorder of prospective forecasts promises to the code that hands  *)
(* it a forecast: a receipt, later perhaps a completion, and a table in which  *)
(* a forecast appears at most once and stays.  The collector relies on this    *)
(* and on nothing else; ProspectiveRecorder implements it.                     *)
CONSTANTS Record    \* the forecasts, one identifier each

VARIABLES receipt,     \* what scheduleModelAProspective returned
          completion,  \* what the promise in the receipt resolved to
          table        \* the forecasts in model_a_prospective_forecasts

logVars == <<receipt, completion, table>>

Refusals == {"rejected", "ineligible", "error"}
Receipts == {"none", "asked", "accepted", "pending"} \cup Refusals
Completions == {"none", "open", "lost", "stored", "unconfirmed"}

LogInit ==
    /\ receipt = [r \in Record |-> "none"]
    /\ completion = [r \in Record |-> "none"]
    /\ table = {}

\* The call is made; whether it is heard of again depends on the process.
Offer(r) ==
    /\ receipt[r] = "none"
    /\ \/ receipt' = [receipt EXCEPT ![r] = "asked"] /\ UNCHANGED completion
       \/ \E s \in Refusals : /\ receipt' = [receipt EXCEPT ![r] = s]
                              /\ UNCHANGED completion
       \/ /\ receipt' = [receipt EXCEPT ![r] = "pending"]
          /\ completion' = [completion EXCEPT ![r] = "open"]
    /\ UNCHANGED table

\* The call returns.
Reply(r) ==
    /\ receipt[r] = "asked"
    /\ \/ receipt' = [receipt EXCEPT ![r] = "error"] /\ UNCHANGED completion
       \/ /\ receipt' = [receipt EXCEPT ![r] = "accepted"]
          /\ completion' = [completion EXCEPT ![r] = "open"]
    /\ UNCHANGED table

\* A forecast reaches the table, perhaps long after its caller is gone, and even
\* when the caller was told of an error.
Store(r) ==
    /\ receipt[r] \in {"asked", "accepted", "pending", "error"}
    /\ table' = table \cup {r}
    /\ UNCHANGED <<receipt, completion>>

\* "stored" is said of a forecast the table holds, "unconfirmed" of any.
Resolve(r) ==
    /\ completion[r] = "open"
    /\ \/ r \in table /\ completion' = [completion EXCEPT ![r] = "stored"]
       \/ completion' = [completion EXCEPT ![r] = "unconfirmed"]
    /\ UNCHANGED <<receipt, table>>

\* A process ends, and with it the promises it has given out, those of S.
Forget(S) ==
    /\ completion' = [r \in Record |-> IF r \in S /\ completion[r] = "open" THEN "lost"
                                      ELSE completion[r]]
    /\ UNCHANGED <<receipt, table>>

LogNext ==
    \/ \E r \in Record : Offer(r) \/ Reply(r) \/ Store(r) \/ Resolve(r)
    \/ \E S \in SUBSET Record : Forget(S)

LogSpec == LogInit /\ [][LogNext]_logVars
=============================================================================
