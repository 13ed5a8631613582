---------------------------- MODULE RunCommands -----------------------------
(***************************************************************************)
(* Commands of the run detail screen: the confirmation dialog, the request *)
(* a confirmation posts, what the engine does with it, what an answer, a   *)
(* refusal or silence makes the dialog say, and what an accepted command   *)
(* reads next (issueCommand to commandEndpoint of flow.vue, with           *)
(* request-budget.mjs, the redrive controllers and the API's error         *)
(* rendering).                                                             *)
(*                                                                         *)
(* Reading a run is RunDetail's business.  Superseded answers change       *)
(* nothing there (RunDetail!ImplementsLatestRead), so this module keeps    *)
(* only what the newest read asked for.                                    *)
(***************************************************************************)
EXTENDS Integers, FiniteSets

CONSTANTS
    Runs,               \* runs, the ones a redrive may start included
    NoRun,
    Instances,
    InstanceOf,         \* the instance of a run
    FirstRuns,          \* runs that exist from the start
    CanFail,            \* reads and commands may fail or go unanswered
    LeavesDialog,       \* a dialog may be left behind: by Back and Forward, or by
                        \* Escape while it waits
    MaxConfirmations,   \* bound: dialogs opened
    MaxPosts,           \* bound: requests posted
    MaxReads            \* bound: reads issued

ASSUME RunCommandsAssumption ==
    /\ NoRun \notin Runs
    /\ InstanceOf \in [Runs -> Instances]
    /\ FirstRuns \subseteq Runs
    /\ CanFail \in BOOLEAN
    /\ LeavesDialog \in BOOLEAN
    /\ MaxConfirmations \in Nat
    /\ MaxPosts \in Nat
    /\ MaxReads \in Nat

VARIABLES
    service,       \* service mode: a standalone server runs the commands
    route,         \* $route: an instance, one of its runs, bounded or complete
    asked,         \* the address of the newest read
    screen,        \* "loading", "ready" or "error"
    flow,          \* the run detail on display, with the actions it allows
    dialog,        \* the confirmation dialog
    posts,         \* requests the server or the browser is not done with
    counts,        \* dialogs, requests and reads so far
    acknowledged,  \* requests whose acceptance the screen handled
    status,        \* engine: "unborn", "running", "failed" or "closed"
    redriven,      \* engine: per run, the request that redrove it and its successor
    effects        \* engine: what requests changed

view == <<route, asked, screen, flow>>
engine == <<service, status, redriven, effects>>
vars == <<view, dialog, posts, counts, acknowledged, engine>>

\* cancel stands for every command that is not redrive and is no query.
Commands == {"redrive", "cancel"}

Routes == [instance : Instances, run : Runs, complete : BOOLEAN]

NoFlow == [run |-> NoRun, can |-> {}, complete |-> TRUE]

NoDialog == [confirmation |-> 0]

\* An answer of the API: its HTTP status, its error code where the browser
\* looks at it, whether it names a missing capability, and the successor.
Reply(code, error) == [status |-> code, error |-> error, capability |-> FALSE, run |-> NoRun]
Accepted(r) == [Reply(200, "none") EXCEPT !.run = r]
Forbidden == Reply(403, "none")
Unsupported == [Reply(501, "none") EXCEPT !.capability = TRUE]
Misconfigured == Reply(500, "configuration")
Silence == Reply(0, "none")

\* renderException: a gateway failure, and a refusal by the engine, which a
\* standalone server reports as an exception of the SDK.
Unreachable == Reply(502, IF service THEN "transport" ELSE "none")
Refused == Reply(409, IF service THEN "transport" ELSE "none")

Unprocessed == Reply(1, "none")

NeverRedriven == [by |-> 0, run |-> NoRun]

Exists(r) == status[r] # "unborn"
-----------------------------------------------------------------------------
Init ==
    /\ service \in BOOLEAN
    /\ route \in {rt \in Routes : rt.run \in FirstRuns /\ rt.instance = InstanceOf[rt.run]}
    /\ asked = route
    /\ screen = "loading"
    /\ flow = NoFlow
    /\ dialog = NoDialog
    /\ posts = {}
    /\ counts = [confirmations |-> 0, posts |-> 0, reads |-> 1]
    /\ acknowledged = {}
    /\ status \in [Runs -> {"unborn", "running", "failed"}]
    /\ \A r \in Runs : status[r] = "unborn" <=> r \notin FirstRuns
    /\ redriven = [r \in Runs |-> NeverRedriven]
    /\ effects = {}
-----------------------------------------------------------------------------
(***************************************************************************)
(* Reading the run.                                                        *)
(***************************************************************************)

\* canAction: a bounded view allows nothing.
Allowed(r, complete) ==
    {c \in Commands :
        /\ complete
        /\ c = "cancel" => status[r] = "running"
        /\ c = "redrive" => status[r] = "failed" /\ redriven[r] = NeverRedriven}

\* fetchFlow: the screen waits for what rt addresses.
Load(rt) ==
    /\ counts.reads < MaxReads
    /\ asked' = rt
    /\ screen' = "loading"
    /\ counts' = [counts EXCEPT !.reads = @ + 1]

\* The app is inert behind a dialog; the browser's Back and Forward are not.
Navigate(rt) ==
    /\ dialog = NoDialog \/ LeavesDialog
    /\ Exists(rt.run) /\ rt.instance = InstanceOf[rt.run]
    /\ rt # route
    /\ route' = rt
    /\ Load(rt)
    /\ UNCHANGED <<flow, dialog, posts, acknowledged, engine>>

\* Inspect full details, Open complete details: the run in flow, else the route's.
LoadCompleteDetails ==
    /\ dialog = NoDialog
    /\ \/ screen = "ready" /\ ~flow.complete
       \/ screen = "error"
    /\ Load(IF flow.run # NoRun
              THEN [instance |-> InstanceOf[flow.run], run |-> flow.run, complete |-> TRUE]
              ELSE [route EXCEPT !.complete = TRUE])
    /\ UNCHANGED <<route, flow, dialog, posts, acknowledged, engine>>

FlowAnswered ==
    /\ screen = "loading"
    /\ IF Exists(asked.run) /\ asked.instance = InstanceOf[asked.run]
         THEN /\ flow' = [run |-> asked.run, complete |-> asked.complete,
                          can |-> Allowed(asked.run, asked.complete)]
              /\ screen' = "ready"
         ELSE /\ screen' = "error"
              /\ UNCHANGED flow
    /\ UNCHANGED <<route, asked, dialog, posts, counts, acknowledged, engine>>

FlowFailed ==
    /\ CanFail
    /\ screen = "loading"
    /\ screen' = "error"
    /\ UNCHANGED <<route, asked, flow, dialog, posts, counts, acknowledged, engine>>
-----------------------------------------------------------------------------
(***************************************************************************)
(* The dialog.                                                             *)
(***************************************************************************)

\* issueCommand: an action button opens a dialog.  run is the run on display
\* then; request is the id newRequestId makes, once per dialog.
OpenDialog(c) ==
    /\ dialog = NoDialog
    /\ screen = "ready"
    /\ c \in flow.can
    /\ counts.confirmations < MaxConfirmations
    /\ counts' = [counts EXCEPT !.confirmations = @ + 1]
    /\ dialog' = [confirmation |-> counts.confirmations + 1, command |-> c,
                  run |-> flow.run, request |-> counts.confirmations + 1,
                  posting |-> FALSE, verdict |-> "none", cause |-> Unprocessed, post |-> 0]
    /\ UNCHANGED <<view, posts, acknowledged, engine>>

\* A request goes on without its dialog.
DismissDialog ==
    /\ dialog # NoDialog
    /\ dialog.posting => LeavesDialog
    /\ dialog' = NoDialog
    /\ UNCHANGED <<view, posts, counts, acknowledged, engine>>

BugEndpointOfRoute == route.run

BugEndpointOfInstance ==
    IF redriven[flow.run] = NeverRedriven THEN flow.run ELSE redriven[flow.run].run

\* commandEndpoint: the run on display when the request is posted.
CommandEndpoint == flow.run

\* request_id: newRequestId's, the same for every attempt of a dialog.
RequestId == dialog.request

\* preConfirm: the first confirmation, or one more after a failure.
Confirm ==
    /\ dialog # NoDialog
    /\ ~dialog.posting
    /\ counts.posts < MaxPosts
    /\ counts' = [counts EXCEPT !.posts = @ + 1]
    /\ posts' = posts \cup
          {[id |-> counts.posts + 1, confirmation |-> dialog.confirmation,
            command |-> dialog.command, confirmed |-> dialog.run, run |-> CommandEndpoint,
            request |-> RequestId, waiting |-> TRUE, answer |-> Unprocessed]}
    /\ dialog' = [dialog EXCEPT !.posting = TRUE, !.verdict = "none",
                                !.post = counts.posts + 1]
    /\ UNCHANGED <<view, acknowledged, engine>>

BugSilenceIsRejected(a) ==
    /\ a.error # "configuration"
    /\ ~(a.status = 501 /\ a.capability)
    /\ (a.status >= 500 \/ a.error = "transport")

\* ambiguousCommandError: may the command have run all the same?
Ambiguous(a) ==
    /\ a.error # "configuration"
    /\ ~(a.status = 501 /\ a.capability)
    /\ (a = Silence \/ a.status >= 500 \/ a.error = "transport")

\* The dialog still waits for p.
DialogOf(p) == dialog # NoDialog /\ dialog.post = p.id

BugStillPosting(p, a) ==
    dialog' = IF dialog = NoDialog THEN dialog
              ELSE [dialog EXCEPT !.cause = a,
                                  !.verdict = IF Ambiguous(a) THEN "unknown" ELSE "rejected"]

\* A failed request leaves the dialog open with what is known of it.  The text
\* goes into the dialog there is, the request's own or another, and nowhere
\* without one.
ShowFailure(p, a) ==
    dialog' = IF dialog = NoDialog THEN dialog
              ELSE [dialog EXCEPT !.posting = @ /\ ~DialogOf(p), !.cause = a,
                                  !.verdict = IF Ambiguous(a) THEN "unknown" ELSE "rejected"]

BugNoReload(p) ==
    /\ dialog' = IF DialogOf(p) THEN NoDialog ELSE dialog
    /\ acknowledged' = acknowledged \cup {p}
    /\ UNCHANGED <<view, counts>>

BugStayWhereMoved(p) ==
    /\ dialog' = IF DialogOf(p) THEN NoDialog ELSE dialog
    /\ acknowledged' = acknowledged \cup {p}
    /\ LET opened == IF p.command = "redrive" /\ flow.run = p.run
                       THEN [instance |-> InstanceOf[p.run], run |-> p.answer.run,
                             complete |-> FALSE]
                       ELSE route
       IN  route' = opened /\ Load(opened)
    /\ UNCHANGED flow

\* handleCommandSuccess: a redrive opens its successor, under the instance on
\* display; every other command reads the route again.
HandleSuccess(p) ==
    /\ dialog' = IF DialogOf(p) THEN NoDialog ELSE dialog
    /\ acknowledged' = acknowledged \cup {p}
    /\ IF p.command = "redrive" /\ p.answer.run # NoRun
         THEN LET successor == [instance |-> InstanceOf[flow.run], run |-> p.answer.run,
                                complete |-> FALSE]
              IN  /\ route' = successor
                  /\ IF successor = route THEN UNCHANGED <<asked, screen, counts>>
                                          ELSE Load(successor)
         ELSE /\ Load(route)
              /\ UNCHANGED route
    /\ UNCHANGED flow

\* The answer to a request the browser waits for.  Text in the open dialog
\* makes a failure of every answer.
AnswerArrives(p) ==
    /\ p.waiting
    /\ p.answer # Unprocessed
    /\ posts' = posts \ {p}
    /\ \/ /\ p.answer.status = 200
          /\ dialog # NoDialog => dialog.verdict = "none"
          /\ HandleSuccess(p)
       \/ /\ p.answer.status = 200
          /\ dialog # NoDialog /\ dialog.verdict # "none"
          /\ dialog' = [dialog EXCEPT !.posting = @ /\ ~DialogOf(p)]
          /\ UNCHANGED <<view, counts, acknowledged>>
       \/ /\ p.answer.status # 200
          /\ ShowFailure(p, p.answer)
          /\ UNCHANGED <<view, counts, acknowledged>>
    /\ UNCHANGED engine

\* No answer within the browser's budget, or the connection broke.  The
\* server may still get to the request.
NoAnswer(p) ==
    /\ CanFail
    /\ p.waiting
    /\ posts' = (posts \ {p}) \cup
                  (IF p.answer = Unprocessed THEN {[p EXCEPT !.waiting = FALSE]} ELSE {})
    /\ ShowFailure(p, Silence)
    /\ UNCHANGED <<view, counts, acknowledged, engine>>
-----------------------------------------------------------------------------
(***************************************************************************)
(* The server and its engine.                                              *)
(***************************************************************************)
Answered(p, a) ==
    posts' = (posts \ {p}) \cup (IF p.waiting THEN {[p EXCEPT !.answer = a]} ELSE {})

\* The engine's answer, unless it is lost on the way to Waterline.
Replies(a) == {a} \cup (IF CanFail THEN {Unreachable} ELSE {})

Effect(p) == [post |-> p.id, confirmation |-> p.confirmation, command |-> p.command,
              confirmed |-> p.confirmed, run |-> p.run]

\* A failed run is redriven once: the same request gets the same successor,
\* another one gets it or is told that the run was redriven already.
Redrive(p) ==
    /\ p.command = "redrive"
    /\ \/ /\ status[p.run] = "failed" /\ redriven[p.run] = NeverRedriven
          /\ \E s \in Runs, a \in {Accepted(r) : r \in Runs} \cup {Unreachable} :
                /\ ~Exists(s) /\ InstanceOf[s] = InstanceOf[p.run]
                /\ a \in Replies(Accepted(s))
                /\ Answered(p, a)
                /\ status' = [status EXCEPT ![s] = "running"]
                /\ redriven' = [redriven EXCEPT ![p.run] = [by |-> p.request, run |-> s]]
          /\ effects' = effects \cup {Effect(p)}
          /\ UNCHANGED service
       \/ /\ redriven[p.run] # NeverRedriven
          /\ \E a \in Replies(Accepted(redriven[p.run].run))
                        \cup (IF redriven[p.run].by = p.request THEN {} ELSE {Refused}) :
                Answered(p, a)
          /\ UNCHANGED engine
       \/ /\ status[p.run] # "failed"
          /\ \E a \in Replies(Refused) : Answered(p, a)
          /\ UNCHANGED engine

Cancel(p) ==
    /\ p.command = "cancel"
    /\ IF status[p.run] = "running"
         THEN /\ \E a \in Replies(Accepted(NoRun)) : Answered(p, a)
              /\ status' = [status EXCEPT ![p.run] = "closed"]
              /\ effects' = effects \cup {Effect(p)}
              /\ UNCHANGED <<service, redriven>>
         ELSE /\ \E a \in Replies(Refused) : Answered(p, a)
              /\ UNCHANGED engine

\* A gate, a missing capability or a bad time limit stops a request before
\* the engine sees it, and so may a failure.
StoppedBefore(p) ==
    /\ \E a \in {Forbidden, Unsupported, Misconfigured}
                  \cup (IF CanFail THEN {Unreachable} ELSE {}) : Answered(p, a)
    /\ UNCHANGED engine

ServerProcesses(p) ==
    /\ p.answer = Unprocessed
    /\ Redrive(p) \/ Cancel(p) \/ StoppedBefore(p)
    /\ UNCHANGED <<view, dialog, counts, acknowledged>>

RunFails(r) ==
    /\ status[r] = "running"
    /\ status' = [status EXCEPT ![r] = "failed"]
    /\ UNCHANGED <<view, dialog, posts, counts, acknowledged, service, redriven,
                   effects>>

\* Another operator, or the command line, redrives a failed run.
RedrivenElsewhere(r, s) ==
    /\ status[r] = "failed" /\ redriven[r] = NeverRedriven
    /\ ~Exists(s) /\ InstanceOf[s] = InstanceOf[r]
    /\ status' = [status EXCEPT ![s] = "running"]
    /\ redriven' = [redriven EXCEPT ![r] = [by |-> -1, run |-> s]]
    /\ UNCHANGED <<view, dialog, posts, counts, acknowledged, service, effects>>
-----------------------------------------------------------------------------
Operator ==
    \/ \E rt \in Routes : Navigate(rt)
    \/ LoadCompleteDetails
    \/ \E c \in Commands : OpenDialog(c)
    \/ DismissDialog
    \/ Confirm

Next ==
    \/ Operator
    \/ FlowAnswered
    \/ FlowFailed
    \/ \E p \in posts : AnswerArrives(p) \/ NoAnswer(p) \/ ServerProcesses(p)
    \/ \E r \in Runs : RunFails(r)
    \/ \E r, s \in Runs : RedrivenElsewhere(r, s)

SafeSpec == Init /\ [][Next]_vars

\* The browser gives up on a request after its budget: one that is waited for
\* is answered or given up.
Fairness ==
    \A n \in 1..MaxPosts :
        WF_vars(\E p \in posts : p.id = n /\ (NoAnswer(p) \/ AnswerArrives(p)))

Spec == SafeSpec /\ Fairness
-----------------------------------------------------------------------------
AnswerType ==
    [status : {0, 1, 200, 403, 409, 500, 501, 502},
     error : {"none", "transport", "configuration"},
     capability : BOOLEAN, run : Runs \cup {NoRun}]

DialogType ==
    [confirmation : 1..MaxConfirmations, command : Commands, run : Runs, request : Nat,
     posting : BOOLEAN, verdict : {"none", "unknown", "rejected"}, cause : AnswerType,
     post : 0..MaxPosts]

PostType ==
    [id : 1..MaxPosts, confirmation : 1..MaxConfirmations, command : Commands,
     confirmed : Runs, run : Runs, request : Nat, waiting : BOOLEAN, answer : AnswerType]

EffectType ==
    [post : 1..MaxPosts, confirmation : 1..MaxConfirmations, command : Commands,
     confirmed : Runs, run : Runs]

\* The variables have the values the run detail screen's commands give them.
TypeOK ==
    /\ service \in BOOLEAN
    /\ route \in Routes
    /\ asked \in Routes
    /\ screen \in {"loading", "ready", "error"}
    /\ flow \in [run : Runs \cup {NoRun}, can : SUBSET Commands, complete : BOOLEAN]
    /\ dialog \in DialogType \cup {NoDialog}
    /\ posts \subseteq PostType
    /\ acknowledged \subseteq PostType
    /\ counts \in [confirmations : 0..MaxConfirmations, posts : 0..MaxPosts,
                   reads : Nat]
    /\ status \in [Runs -> {"unborn", "running", "failed", "closed"}]
    /\ redriven \in [Runs -> [by : Int, run : Runs \cup {NoRun}]]
    /\ effects \subseteq EffectType

Asking == dialog # NoDialog

\* A dialog that says the command was rejected is right: the request it speaks
\* of changed nothing (ambiguousCommandError over what renderException and the
\* redrive controllers answer).
RejectedMeansNotDone ==
    Asking /\ dialog.verdict = "rejected" => \A e \in effects : e.post # dialog.post

\* Once a confirmation's redrive took effect, trying again from the same dialog
\* is never refused, also when the first answer was lost, came late, or the
\* engine ran the first request after the second.
RetryFindsSuccessor ==
    Asking /\ dialog.command = "redrive" /\ dialog.cause = Refused =>
        \A e \in effects : e.confirmation # dialog.confirmation

\* One confirmation starts at most one successor.
OneSuccessorPerConfirmation ==
    \A e, f \in effects :
        e.command = "redrive" /\ f.command = "redrive" /\ e.confirmation = f.confirmation
            => e = f

\* Commands act on the run whose dialog the operator confirmed, whatever the
\* address bar names (commandEndpoint reads this.flow when it posts).
CommandReachesConfirmedRun == \A e \in effects : e.run = e.confirmed

\* Whatever becomes of its answers, a confirmation stays what was confirmed:
\* its requests act on one run and never contradict what they have done.
ConfirmationIsKept == CommandReachesConfirmedRun /\ RetryFindsSuccessor

OpensSuccessorOf(p) ==
    /\ route'.run = redriven[p.run].run
    /\ InstanceOf[flow.run] = InstanceOf[p.run] => route'.instance = InstanceOf[p.run]

\* An accepted redrive opens the successor of the run it was posted for, whatever
\* run the screen shows by then, also when the dialog was left behind; and it
\* opens it under its own workflow as long as the screen has not gone on to
\* another workflow's run (handleCommandSuccess reads this.flow after the await).
RedriveOpensSuccessor ==
    [][\A p \in acknowledged' \ acknowledged :
          p.command = "redrive" => OpensSuccessorOf(p)]_vars

\* The detail on display never offers a command that it was told is done: what
\* was read before the command is replaced once the command is accepted.
AcceptedNotOfferedAgain ==
    screen = "ready" =>
        \A p \in acknowledged : p.run = flow.run => p.command \notin flow.can

\* A confirmation ends: the dialog stops waiting, whatever the server does.
ConfirmationSettles == Asking /\ dialog.posting ~> ~(Asking /\ dialog.posting)
=============================================================================
