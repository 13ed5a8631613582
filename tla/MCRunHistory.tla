---------------------------- MODULE MCRunHistory ----------------------------
EXTENDS MCRunCommands, RunMessages

CONSTANTS new, old, approve, reject, object, charge

Nothing == [targets |-> {}, listsNames |-> FALSE, names |-> {}, contracts |-> {}]

Approve == [name |-> approve, contract |-> object]
Reject == [name |-> reject, contract |-> NoContract]

\* A run of this release on a standalone server; one of an older engine that
\* lists names and contracts, says less of what may be done, and shows no
\* results.
NewAndOld ==
    [r \in {new, old} |->
        IF r = new
          THEN [bounded |-> FALSE, service |-> TRUE, permitted |-> Messages,
                action |-> [m \in Messages |-> "yes"], can |-> [m \in Messages |-> "no"],
                declared |-> [m \in Messages |-> [Nothing EXCEPT !.targets = {Approve, Reject}]]]
          ELSE [bounded |-> FALSE, service |-> FALSE, permitted |-> Messages,
                action |-> [m \in Messages |-> "unsaid"],
                can |-> [m \in Messages |-> IF m = "update" THEN "yes" ELSE "unsaid"],
                declared |-> [m \in Messages |->
                    [Nothing EXCEPT !.listsNames = TRUE, !.names = {approve, reject},
                                    !.contracts = {Approve}]]]]

\* Three studies side by side, of dialogs that are left behind: two dialogs on
\* the runs of one workflow; one, and the operator moving on to another
\* workflow's run; and messages and activity results.
VARIABLE study

OneWorkflow == route.instance = A /\ status[b1] = "running"
OneDialog == counts.confirmations <= 1

HistoryInit ==
    /\ Init /\ MessagesInit
    /\ study \in {"dialogs", "moves", "messages"}
    /\ study # "messages" => address = new
    /\ study # "moves" => OneWorkflow
    /\ study = "messages" => ~service /\ ~route.complete /\ \A r \in FirstRuns : status[r] = "running"

HistoryNext ==
    /\ UNCHANGED study
    /\ \/ study = "dialogs" /\ Next /\ OneWorkflow' /\ UNCHANGED messagesVars
       \/ study = "moves" /\ Next /\ OneDialog' /\ UNCHANGED messagesVars
       \/ study = "messages" /\ MessagesNext /\ UNCHANGED vars

HistorySpec ==
    /\ HistoryInit /\ [][HistoryNext]_<<vars, messagesVars, study>>
    /\ Fairness /\ MessagesFairness
=============================================================================
