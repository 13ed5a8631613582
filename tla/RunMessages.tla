----------------------------- MODULE RunMessages -----------------------------
(***************************************************************************)
(* Signals, queries and updates of the run detail screen, and the results  *)
(* of its activities: prompts with a target and its arguments, dialogs     *)
(* that come up when an answer does, and the one popup they all share      *)
(* (flow.vue from declaredSignalTargets to commandRequestBody and          *)
(* inspectActivityResult, activity-result.mjs, operator-permissions.mjs).  *)
(*                                                                         *)
(* SweetAlert2 has one popup: a new one replaces it, which dismisses the   *)
(* old dialog unless that waits for its preConfirm.  Such a dialog is      *)
(* confirmed by its answer later on, unless the popup shows a message by   *)
(* then; a failure writes its message into whatever popup is open.         *)
(* RunCommands has the commands that need no prompt.                       *)
(***************************************************************************)
EXTENDS Naturals, FiniteSets

CONSTANTS
    ShownRuns,      \* runs the screen may show
    Activities,     \* their completed activities, by id
    Names,          \* names of signals, queries and updates
    Contracts,      \* argument templates
    NoContract,
    DetailOf,       \* what the detail of a run says of its messages
    MaxPrompts,     \* bound: prompts opened
    MaxInspections, \* bound: results asked for
    MaxLeaves       \* bound: changes of the run in the address

Messages == {"signal", "query", "update"}

Targets == [name : Names, contract : Contracts \cup {NoContract}]

\* The parts of a detail that decide over messages.  An answer without a list
\* of names is one of an older engine.
Declarations == [targets : SUBSET Targets, listsNames : BOOLEAN, names : SUBSET Names,
                 contracts : SUBSET [name : Names, contract : Contracts]]
Details == [bounded : BOOLEAN, service : BOOLEAN, permitted : SUBSET Messages,
            action : [Messages -> {"yes", "no", "unsaid"}],
            can : [Messages -> {"yes", "no", "unsaid"}],
            declared : [Messages -> Declarations]]

ASSUME RunMessagesAssumption ==
    /\ NoContract \notin Contracts
    /\ DetailOf \in [ShownRuns -> Details]
    /\ {MaxPrompts, MaxInspections, MaxLeaves} \subseteq Nat

VARIABLES
    address,     \* the run the address names
    shown,       \* this.flow: the run of the newest detail
    ready,       \* the detail is on display
    popup,       \* the open popup
    sent,        \* messages posted and not answered
    announcing,  \* accepted messages whose reading of the run is under way
    inspection,  \* activityResultLoadingId and what holds it
    used         \* prompts, results and changes of the address so far

messagesVars == <<address, shown, ready, popup, sent, announcing, inspection, used>>

NoPopup == [kind |-> "none", message |-> FALSE]
NoInspection == [step |-> "none"]

MessagesInit ==
    /\ address \in ShownRuns
    /\ shown = address
    /\ ready = FALSE
    /\ popup = NoPopup
    /\ sent = {}
    /\ announcing = FALSE
    /\ inspection = NoInspection
    /\ used = [prompts |-> 0, inspections |-> 0, leaves |-> 0]
-----------------------------------------------------------------------------
(***************************************************************************)
(* What may be sent.                                                       *)
(***************************************************************************)

\* normalizeCommandTargets.  A list of names that is empty hides the contracts.
NormalizeCommandTargets(d) ==
    LET named == {n \in d.names : \A c \in d.contracts : c.name # n}
    IN  IF d.listsNames /\ d.names = {}
          THEN {}
          ELSE d.contracts \cup {[name |-> n, contract |-> NoContract] :
                                    n \in IF d.listsNames THEN named ELSE {}}

\* declaredSignalTargets, declaredQueryTargets, declaredUpdateTargets.
DeclaredTargets(r, m) ==
    LET d == DetailOf[r].declared[m]
    IN  IF d.targets # {} THEN d.targets ELSE NormalizeCommandTargets(d)

\* canAction: the operator's permission, then a complete detail, then the
\* first of the detail's two answers that is there; a query needs none.
CanAction(r, m) ==
    LET d == DetailOf[r]
        said == IF d.action[m] # "unsaid" THEN d.action[m] ELSE d.can[m]
    IN  /\ m \in d.permitted /\ ~d.bounded
        /\ said = "yes" \/ (said = "unsaid" /\ m = "query")

CanIssue(m) == ready /\ CanAction(shown, m) /\ DeclaredTargets(shown, m) # {}

\* defaultContractArguments, of the run that is shown now: the template of
\* the target's contract, or an empty list.
DefaultArguments(m, n) ==
    LET own == {t \in DeclaredTargets(shown, m) : t.name = n /\ t.contract # NoContract}
    IN  IF own = {} THEN NoContract ELSE (CHOOSE t \in own : TRUE).contract
-----------------------------------------------------------------------------
(***************************************************************************)
(* The popup.                                                              *)
(***************************************************************************)
BugReplacedForGood(next) == popup' = next /\ UNCHANGED inspection

\* What waited for the popup goes on once it is closed or replaced: the
\* activity result it showed is done with.
Pops(next) ==
    /\ popup' = next
    /\ inspection' = IF popup.kind = "activity" THEN NoInspection ELSE inspection

ClosePopup ==
    /\ popup # NoPopup
    /\ Pops(NoPopup)
    /\ UNCHANGED <<address, shown, ready, sent, announcing, used>>

OpenPrompt(m) ==
    /\ popup = NoPopup
    /\ CanIssue(m)
    /\ used.prompts < MaxPrompts
    /\ used' = [used EXCEPT !.prompts = @ + 1]
    /\ \E t \in DeclaredTargets(shown, m) :
          popup' = [kind |-> "prompt", id |-> used.prompts + 1, sends |-> m,
                    options |-> {u.name : u \in DeclaredTargets(shown, m)}, target |-> t.name,
                    arguments |-> DefaultArguments(m, t.name), waits |-> FALSE,
                    message |-> FALSE]
    /\ UNCHANGED <<address, shown, ready, sent, announcing, inspection>>

Prompting == popup.kind = "prompt" /\ ~popup.waits

\* Another target brings its own arguments.
ChooseTarget(n) ==
    /\ Prompting
    /\ n \in popup.options \ {popup.target}
    /\ popup' = [popup EXCEPT !.target = n, !.arguments = DefaultArguments(popup.sends, n)]
    /\ UNCHANGED <<address, shown, ready, sent, announcing, inspection, used>>

\* preConfirm with text that is no JSON: the prompt says so.
RefuseArguments ==
    /\ Prompting /\ ~popup.message
    /\ popup' = [popup EXCEPT !.message = TRUE]
    /\ UNCHANGED <<address, shown, ready, sent, announcing, inspection, used>>

\* preConfirm posts to the run that is shown now, and the prompt waits.
ConfirmPrompt ==
    /\ Prompting
    /\ popup' = [popup EXCEPT !.waits = TRUE, !.message = FALSE]
    /\ sent' = sent \cup {[prompt |-> popup.id, sends |-> popup.sends, name |-> popup.target,
                           arguments |-> popup.arguments, run |-> shown]}
    /\ UNCHANGED <<address, shown, ready, announcing, inspection, used>>

PromptOf(p) == popup.kind = "prompt" /\ popup.id = p.prompt

\* A message in the popup makes a failure of every answer.
MessageAccepted(p) ==
    /\ sent' = sent \ {p}
    /\ IF popup.message
         THEN /\ popup' = IF PromptOf(p) THEN [popup EXCEPT !.waits = FALSE] ELSE popup
              /\ UNCHANGED <<ready, announcing, inspection>>
         ELSE IF p.sends = "query"
           THEN /\ Pops([kind |-> "query", run |-> p.run, message |-> FALSE])
                /\ UNCHANGED <<ready, announcing>>
           ELSE /\ IF PromptOf(p) THEN Pops(NoPopup) ELSE UNCHANGED <<popup, inspection>>
                /\ ready' = FALSE /\ announcing' = TRUE
    /\ UNCHANGED <<address, shown, used>>

\* The message goes into the popup there is, and nowhere when there is none.
MessageFails(p) ==
    /\ sent' = sent \ {p}
    /\ popup' = IF popup = NoPopup THEN popup
                ELSE IF PromptOf(p) THEN [popup EXCEPT !.waits = FALSE, !.message = TRUE]
                ELSE [popup EXCEPT !.message = TRUE]
    /\ UNCHANGED <<address, shown, ready, announcing, inspection, used>>
-----------------------------------------------------------------------------
(***************************************************************************)
(* Activity results.                                                       *)
(***************************************************************************)

\* activityResultSelection: completed activities of a standalone server's run.
Inspectable(r) == DetailOf[r].service

\* inspectActivityResult: one at a time.
InspectActivityResult(a) ==
    /\ popup = NoPopup /\ ready
    /\ Inspectable(shown)
    /\ inspection = NoInspection
    /\ used.inspections < MaxInspections
    /\ used' = [used EXCEPT !.inspections = @ + 1]
    /\ inspection' = [step |-> "reading", run |-> shown, activity |-> a]
    /\ UNCHANGED <<address, shown, ready, popup, sent, announcing>>

BugNotLookedAtAgain == TRUE

\* The path of the request is still that of the activity in the detail shown.
StillSelected == Inspectable(shown) /\ shown = inspection.run

\* The answer, a mismatch or a failure: a dialog that says which, or nothing
\* when another run is shown by now.
ResultAnswered ==
    /\ inspection.step = "reading"
    /\ IF StillSelected
         THEN /\ popup' = [kind |-> "activity", run |-> inspection.run, message |-> FALSE]
              /\ inspection' = [inspection EXCEPT !.step = "told"]
         ELSE inspection' = NoInspection /\ UNCHANGED popup
    /\ UNCHANGED <<address, shown, ready, sent, announcing, used>>
-----------------------------------------------------------------------------
(***************************************************************************)
(* Reading runs.  Behind a popup the browser's Back is left.               *)
(***************************************************************************)
Leave(r) ==
    /\ r # address
    /\ used.leaves < MaxLeaves
    /\ used' = [used EXCEPT !.leaves = @ + 1]
    /\ address' = r /\ ready' = FALSE
    /\ UNCHANGED <<shown, popup, sent, announcing, inspection>>

\* The detail arrives, and after it the dialog that a message was accepted.
RunRead ==
    /\ ~ready
    /\ shown' = address /\ ready' = TRUE /\ announcing' = FALSE
    /\ IF announcing THEN Pops([kind |-> "accepted", message |-> FALSE])
                     ELSE UNCHANGED <<popup, inspection>>
    /\ UNCHANGED <<address, sent, used>>

MessagesNext ==
    \/ \E m \in Messages : OpenPrompt(m)
    \/ \E n \in Names : ChooseTarget(n)
    \/ RefuseArguments \/ ConfirmPrompt \/ ClosePopup
    \/ \E p \in sent : MessageAccepted(p) \/ MessageFails(p)
    \/ \E a \in Activities : InspectActivityResult(a)
    \/ ResultAnswered
    \/ \E r \in ShownRuns : Leave(r)
    \/ RunRead

MessagesSafeSpec == MessagesInit /\ [][MessagesNext]_messagesVars

\* The browser gives up a result after 30 seconds.
MessagesFairness == WF_messagesVars(ResultAnswered)

MessagesSpec == MessagesSafeSpec /\ MessagesFairness
-----------------------------------------------------------------------------
\* A dialog with an activity's result comes up over the run the activity is
\* of, however long the answer took and whatever was opened meanwhile.
ResultOfShownRun ==
    [][popup'.kind = "activity" /\ popup' # popup /\ popup.kind # "activity"
          => popup'.run = shown']_messagesVars

\* The button of an activity's result is never disabled for good: the dialog
\* with the result comes up, or the button is free, also when the run changes,
\* the answer fails or another dialog takes the popup.
InspectionSettles == inspection # NoInspection ~> inspection = NoInspection \/ popup.kind = "activity"
=============================================================================
