-------------------------- MODULE RunCommandsProofs -------------------------
(***************************************************************************)
(* Theorems about RunCommands, for every set of runs and every number of   *)
(* dialogs, requests and reads.                                            *)
(*                                                                         *)
(* IInv holds however the operator moves about.  Kept holds besides where  *)
(* no dialog is left behind: while a dialog is open, what is behind it     *)
(* stays what it was when the operator pressed the button.                 *)
(***************************************************************************)
EXTENDS RunCommands, RunMessages, TLAPS

\* Dialogs and requests are numbered, and a request has the number of its
\* dialog for its id.
Numbered ==
    /\ \A p \in posts :
          /\ p.id <= counts.posts
          /\ p.confirmation <= counts.confirmations /\ p.request = p.confirmation
    /\ \A p, q \in posts : p.id = q.id => p = q
    /\ Asking =>
          /\ dialog.confirmation <= counts.confirmations
          /\ dialog.request = dialog.confirmation
          /\ dialog.post <= counts.posts
    /\ \A e \in effects : e.post <= counts.posts /\ e.confirmation <= counts.confirmations

\* A successor is a run that exists.
SuccessorsExist ==
    \A r \in Runs : redriven[r] # NeverRedriven =>
        redriven[r].run \in Runs /\ Exists(redriven[r].run)

\* What an accepted command did, and what nothing undoes.
Done(p) ==
    /\ p.command = "cancel" => status[p.run] = "closed"
    /\ p.command = "redrive" =>
          redriven[p.run] # NeverRedriven /\ redriven[p.run].run = p.answer.run

AcceptedIsDone ==
    /\ \A p \in posts : p.answer.status = 200 => Done(p)
    /\ \A p \in acknowledged : Done(p)

\* The run of the address exists.  A detail that offers to redrive was read
\* before the run had a successor, so the address is not the successor's.
ScreenOK ==
    /\ Exists(route.run)
    /\ Asking \/ posts # {} \/ flow.can # {} => flow.run \in Runs
    /\ screen = "ready" /\ "redrive" \in flow.can /\ redriven[flow.run] # NeverRedriven =>
          redriven[flow.run].run # route.run

IInv ==
    /\ TypeOK
    /\ Numbered
    /\ SuccessorsExist
    /\ AcceptedIsDone
    /\ ScreenOK
    /\ AcceptedNotOfferedAgain

-----------------------------------------------------------------------------
\* A dialog is about the run behind it.
DialogOfFlow ==
    /\ Asking => screen = "ready" /\ dialog.run = flow.run
    /\ Asking /\ dialog.command = "redrive" => status[dialog.run] = "failed"
    /\ "redrive" \in flow.can => status[flow.run] = "failed"

\* The browser waits for one request at most, the open dialog's.
WaitsForDialog ==
    \A p \in posts : p.waiting =>
        /\ Asking /\ dialog.posting
        /\ dialog.post = p.id /\ dialog.confirmation = p.confirmation

\* One confirmation is one command on one run.
SameConfirmed(x, y) ==
    x.confirmation = y.confirmation => x.command = y.command /\ x.run = y.run

OneRunPerConfirmation ==
    /\ Asking =>
          /\ \A p \in posts : SameConfirmed(p, dialog)
          /\ \A e \in effects : SameConfirmed(e, dialog)
    /\ \A p, q \in posts : SameConfirmed(p, q)
    /\ \A p \in posts, e \in effects : SameConfirmed(p, e)

\* Requests are for the run that was confirmed, and a redrive's was failed.
PostsAsConfirmed ==
    \A p \in posts :
        /\ p.run = p.confirmed
        /\ p.command = "redrive" => status[p.run] = "failed"

\* The engine knows the request that redrove a run.
EffectsRecorded ==
    \A e \in effects : e.command = "redrive" =>
        redriven[e.run] # NeverRedriven /\ redriven[e.run].by = e.confirmation

\* A redrive is only refused when another request redrove the run.
RedrivenByAnother(x) ==
    redriven[x.run] # NeverRedriven /\ redriven[x.run].by # x.confirmation

RefusalsAreOthers ==
    /\ \A p \in posts : p.command = "redrive" /\ p.answer = Refused => RedrivenByAnother(p)
    /\ Asking /\ dialog.command = "redrive" /\ dialog.cause = Refused => RedrivenByAnother(dialog)

\* A request that was not processed, or was turned down in so many words,
\* changed nothing; one the dialog calls rejected never will.
Without(n) == \A e \in effects : e.post # n

NothingDone ==
    /\ \A p \in posts :
          p.answer = Unprocessed \/ (p.answer.status # 200 /\ ~Ambiguous(p.answer)) => Without(p.id)
    /\ Asking /\ dialog.verdict = "rejected" =>
          Without(dialog.post) /\ \A p \in posts : p.id # dialog.post

Kept ==
    /\ ~LeavesDialog
    /\ DialogOfFlow
    /\ WaitsForDialog
    /\ OneRunPerConfirmation
    /\ PostsAsConfirmed
    /\ EffectsRecorded
    /\ RefusalsAreOthers
    /\ NothingDone
    /\ OneSuccessorPerConfirmation
    /\ CommandReachesConfirmedRun
-----------------------------------------------------------------------------
(* Answers, requests and what the engine never takes back. *)

LEMMA AnswersTyped ==
    /\ \A r \in Runs : Accepted(r) \in AnswerType /\ Accepted(r).status = 200 /\ Accepted(r).run = r
    /\ Accepted(NoRun) \in AnswerType /\ Accepted(NoRun).status = 200
    /\ Forbidden \in AnswerType /\ Forbidden.status = 403
    /\ Unsupported \in AnswerType /\ Unsupported.status = 501
    /\ Misconfigured \in AnswerType /\ Misconfigured.status = 500
    /\ Silence \in AnswerType /\ Silence.status = 0
    /\ Unprocessed \in AnswerType /\ Unprocessed.status = 1
    /\ Unreachable \in AnswerType /\ Unreachable.status = 502
    /\ Refused \in AnswerType /\ Refused.status = 409
<1>1. \A r \in Runs \cup {NoRun} :
          Accepted(r) \in AnswerType /\ Accepted(r).status = 200 /\ Accepted(r).run = r
  BY DEF AnswerType, Accepted, Reply
<1>2. /\ Forbidden \in AnswerType /\ Forbidden.status = 403
      /\ Misconfigured \in AnswerType /\ Misconfigured.status = 500
  BY DEF AnswerType, Reply, Forbidden, Misconfigured
<1>3. Unsupported \in AnswerType /\ Unsupported.status = 501
  BY DEF AnswerType, Reply, Unsupported
<1>4. /\ Silence \in AnswerType /\ Silence.status = 0
      /\ Unprocessed \in AnswerType /\ Unprocessed.status = 1
  BY DEF AnswerType, Reply, Silence, Unprocessed
<1>5. Unreachable \in AnswerType /\ Unreachable.status = 502
  BY DEF AnswerType, Reply, Unreachable
<1>6. Refused \in AnswerType /\ Refused.status = 409
  BY DEF AnswerType, Reply, Refused
<1> QED
  BY <1>1, <1>2, <1>3, <1>4, <1>5, <1>6

\* Runs do not vanish, closed and failed runs stay what they are, and a run
\* keeps its successor.
EngineGrows ==
    \A r \in Runs :
        /\ Exists(r) => Exists(r)'
        /\ status[r] = "failed" => status'[r] = "failed"
        /\ status[r] = "closed" => status'[r] = "closed"
        /\ redriven[r] # NeverRedriven => redriven'[r] = redriven[r]

LEMMA StatusGrows ==
    ASSUME TypeOK, NEW r \in Runs, NEW to \in {"running", "failed", "closed"},
           status[r] \in {"unborn", "running"},
           status' = [status EXCEPT ![r] = to]
    PROVE  /\ status' \in [Runs -> {"unborn", "running", "failed", "closed"}]
           /\ \A s \in Runs :
                 /\ Exists(s) => Exists(s)'
                 /\ status[s] \in {"failed", "closed"} => status'[s] = status[s]
           /\ Exists(r)'
  BY DEF TypeOK, Exists

LEMMA RedrivenGrows ==
    ASSUME TypeOK, SuccessorsExist, NEW r \in Runs, NEW s \in Runs, NEW by \in Int,
           status[r] = "failed", redriven[r] = NeverRedriven, ~Exists(s),
           status' = [status EXCEPT ![s] = "running"],
           redriven' = [redriven EXCEPT ![r] = [by |-> by, run |-> s]]
    PROVE  /\ EngineGrows
           /\ SuccessorsExist'
           /\ status' \in [Runs -> {"unborn", "running", "failed", "closed"}]
           /\ redriven' \in [Runs -> [by : Int, run : Runs \cup {NoRun}]]
           /\ redriven'[r] = [by |-> by, run |-> s]
           /\ redriven'[r] # NeverRedriven
           /\ \A t \in Runs \ {r} : redriven'[t] = redriven[t]
<1>1. status[s] = "unborn"
  BY DEF Exists
<1>2. /\ status' \in [Runs -> {"unborn", "running", "failed", "closed"}]
      /\ \A t \in Runs :
            /\ Exists(t) => Exists(t)'
            /\ status[t] \in {"failed", "closed"} => status'[t] = status[t]
      /\ Exists(s)'
  BY <1>1, StatusGrows
<1>3. [by |-> by, run |-> s] # NeverRedriven
  BY RunCommandsAssumption DEF NeverRedriven
<1>4. /\ redriven' \in [Runs -> [by : Int, run : Runs \cup {NoRun}]]
      /\ redriven'[r] = [by |-> by, run |-> s]
      /\ \A t \in Runs \ {r} : redriven'[t] = redriven[t]
  BY DEF TypeOK
<1>5. EngineGrows
  BY <1>2, <1>4 DEF EngineGrows
<1>6. SuccessorsExist'
  <2> SUFFICES ASSUME NEW t \in Runs, redriven'[t] # NeverRedriven
               PROVE  redriven'[t].run \in Runs /\ Exists(redriven[t].run)'
    BY DEF SuccessorsExist, NeverRedriven
  <2>1. CASE t = r
    BY <1>2, <1>4, <2>1 DEF Exists
  <2>2. CASE t # r
    BY <1>2, <1>4, <2>2 DEF SuccessorsExist, Exists
  <2> QED
    BY <2>1, <2>2
<1> QED
  BY <1>2, <1>3, <1>4, <1>5, <1>6

\* What was done stays done.
LEMMA DoneStays ==
    ASSUME EngineGrows, NEW p \in PostType, Done(p)
    PROVE  Done(p)'
  BY DEF EngineGrows, Done, PostType, NeverRedriven

LEMMA AcceptedStaysDone ==
    ASSUME TypeOK, EngineGrows, AcceptedIsDone,
           \A p \in posts' : p \in posts \/ (p \in PostType /\ (p.answer.status = 200 => Done(p)')),
           acknowledged' = acknowledged
    PROVE  AcceptedIsDone'
<1>1. \A p \in posts \cup acknowledged : Done(p) => Done(p)'
  BY DoneStays DEF TypeOK
<1> QED
  BY <1>1 DEF AcceptedIsDone
-----------------------------------------------------------------------------
(* What the steps have in common. *)

LEMMA EngineKept ==
    ASSUME UNCHANGED engine
    PROVE  EngineGrows /\ (SuccessorsExist => SuccessorsExist')
  BY DEF engine, EngineGrows, SuccessorsExist, Exists

\* A step that leaves the screen as it is, and starts no successor under the
\* address of the screen.
LEMMA ScreenKept ==
    ASSUME IInv, EngineGrows, UNCHANGED <<view, acknowledged>>,
           Asking' \/ posts' # {} => flow.run \in Runs,
           \A r \in Runs : redriven'[r] = redriven[r] \/ redriven'[r].run # route.run
    PROVE  ScreenOK' /\ AcceptedNotOfferedAgain'
<1>1. /\ route' = route /\ screen' = screen /\ flow' = flow /\ acknowledged' = acknowledged
      /\ route.run \in Runs
  BY DEF view, IInv, TypeOK, Routes
<1>2. Exists(route.run)'
  BY <1>1 DEF IInv, ScreenOK, EngineGrows, Exists
<1>3. Asking' \/ posts' # {} \/ flow'.can # {} => flow'.run \in Runs
  BY <1>1 DEF IInv, ScreenOK
<1>4. screen' = "ready" /\ "redrive" \in flow'.can /\ redriven'[flow'.run] # NeverRedriven =>
          redriven'[flow'.run].run # route'.run
  BY <1>1 DEF IInv, ScreenOK
<1>5. NeverRedriven' = NeverRedriven
  BY DEF NeverRedriven
<1>6. ScreenOK'
  BY <1>2, <1>3, <1>4, <1>5 DEF ScreenOK
<1>7. AcceptedNotOfferedAgain'
  BY <1>1 DEF IInv, AcceptedNotOfferedAgain
<1> QED
  BY <1>6, <1>7

\* A step that waits for an answer to another read.
LEMMA LoadKeepsIInv ==
    ASSUME IInv, NEW rt \in Routes, Load(rt),
           route' \in Routes, Exists(route'.run),
           dialog' \in {dialog, NoDialog}, posts' \subseteq posts,
           acknowledged' \subseteq PostType, \A p \in acknowledged' : Done(p),
           UNCHANGED <<flow, engine>>
    PROVE  IInv'
<1>1. /\ TypeOK /\ Numbered /\ SuccessorsExist /\ AcceptedIsDone /\ ScreenOK
      /\ screen' = "loading" /\ asked' = rt
      /\ counts'.confirmations = counts.confirmations /\ counts'.posts = counts.posts
      /\ counts' \in [confirmations : 0..MaxConfirmations, posts : 0..MaxPosts, reads : Nat]
  BY DEF IInv, Load, TypeOK
<1>2. TypeOK'
  BY <1>1 DEF TypeOK, engine
<1>3. Numbered'
  BY <1>1 DEF Numbered, Asking, engine, NoDialog
<1>4. SuccessorsExist'
  BY <1>1, EngineKept
<1>5. AcceptedIsDone'
  BY <1>1 DEF AcceptedIsDone, Done, engine, NeverRedriven
<1>6. ScreenOK'
  BY <1>1 DEF ScreenOK, Asking, Exists, engine
<1>7. AcceptedNotOfferedAgain'
  BY <1>1 DEF AcceptedNotOfferedAgain
<1> QED
  BY <1>2, <1>3, <1>4, <1>5, <1>6, <1>7 DEF IInv
-----------------------------------------------------------------------------
(* The operator and the reads. *)

LEMMA NavigateKeepsIInv ==
    ASSUME IInv, NEW rt \in Routes, Navigate(rt)
    PROVE  IInv'
<1>1. acknowledged' \subseteq PostType /\ \A p \in acknowledged' : Done(p)
  BY DEF Navigate, IInv, TypeOK, AcceptedIsDone
<1> QED
  BY <1>1, LoadKeepsIInv DEF Navigate

LEMMA LoadCompleteDetailsKeepsIInv ==
    ASSUME IInv, LoadCompleteDetails
    PROVE  IInv'
<1> DEFINE rt == IF flow.run # NoRun
                   THEN [instance |-> InstanceOf[flow.run], run |-> flow.run, complete |-> TRUE]
                   ELSE [route EXCEPT !.complete = TRUE]
<1>1. acknowledged' \subseteq PostType /\ \A p \in acknowledged' : Done(p)
  BY DEF LoadCompleteDetails, IInv, TypeOK, AcceptedIsDone
<1>2. rt \in Routes
  BY RunCommandsAssumption DEF IInv, TypeOK, Routes
<1>3. Load(rt) /\ UNCHANGED <<route, flow, dialog, posts, engine>>
  BY DEF LoadCompleteDetails
<1>4. route' \in Routes /\ Exists(route'.run)
  BY <1>3 DEF IInv, TypeOK, ScreenOK
<1> HIDE DEF rt
<1> QED
  BY <1>1, <1>2, <1>3, <1>4, LoadKeepsIInv

LEMMA FlowAnsweredKeepsIInv ==
    ASSUME IInv, FlowAnswered
    PROVE  IInv'
<1>1. /\ TypeOK /\ Numbered /\ SuccessorsExist /\ AcceptedIsDone /\ ScreenOK
      /\ UNCHANGED <<route, asked, dialog, posts, counts, acknowledged, engine>>
      /\ screen = "loading" /\ asked.run \in Runs
  BY DEF IInv, FlowAnswered, TypeOK, Routes
<1>2. flow' = flow \/ flow' = [run |-> asked.run, complete |-> asked.complete,
                               can |-> Allowed(asked.run, asked.complete)]
  BY DEF FlowAnswered
<1>3. flow' \in [run : Runs \cup {NoRun}, can : SUBSET Commands, complete : BOOLEAN]
      /\ screen' \in {"ready", "error"}
  BY <1>1, <1>2 DEF TypeOK, Routes, FlowAnswered, Allowed
<1>4. TypeOK'
  BY <1>1, <1>3 DEF TypeOK, engine
<1>5. Numbered' /\ SuccessorsExist' /\ AcceptedIsDone'
  BY <1>1 DEF Numbered, Asking, engine, SuccessorsExist, Exists, AcceptedIsDone, Done, NeverRedriven
<1>6. screen' = "ready" =>
          flow' = [run |-> asked.run, complete |-> asked.complete,
                   can |-> Allowed(asked.run, asked.complete)]
  BY DEF FlowAnswered
<1>7. ScreenOK'
  BY <1>1, <1>2, <1>6 DEF ScreenOK, Asking, engine, Exists, Allowed, NeverRedriven
<1>8. AcceptedNotOfferedAgain'
  <2> SUFFICES ASSUME screen' = "ready", NEW p \in acknowledged, p.run = flow'.run
               PROVE  p.command \notin flow'.can
    BY <1>1 DEF AcceptedNotOfferedAgain
  <2>1. Done(p) /\ p.command \in Commands /\ p.run = asked.run
    BY <1>1, <1>6 DEF AcceptedIsDone, TypeOK, PostType
  <2>2. flow'.can = Allowed(asked.run, asked.complete)
    BY <1>6
  <2> QED
    BY <2>1, <2>2 DEF Allowed, Done, Commands
<1> QED
  BY <1>4, <1>5, <1>7, <1>8 DEF IInv

LEMMA FlowFailedKeepsIInv ==
    ASSUME IInv, FlowFailed
    PROVE  IInv'
<1>1. /\ TypeOK /\ Numbered /\ SuccessorsExist /\ AcceptedIsDone /\ ScreenOK
      /\ UNCHANGED <<route, asked, flow, dialog, posts, counts, acknowledged, engine>>
      /\ screen' = "error"
  BY DEF IInv, FlowFailed
<1>2. TypeOK'
  BY <1>1 DEF TypeOK, engine
<1>3. Numbered' /\ SuccessorsExist' /\ AcceptedIsDone'
  BY <1>1 DEF Numbered, Asking, engine, SuccessorsExist, Exists, AcceptedIsDone, Done, NeverRedriven
<1>4. ScreenOK' /\ AcceptedNotOfferedAgain'
  BY <1>1 DEF ScreenOK, Asking, engine, Exists, AcceptedNotOfferedAgain
<1> QED
  BY <1>2, <1>3, <1>4 DEF IInv
-----------------------------------------------------------------------------
(* The dialog. *)

\* A step that leaves the screen and the engine as they are.
LEMMA DialogStepKeepsIInv ==
    ASSUME IInv, UNCHANGED <<view, acknowledged, engine>>,
           dialog' \in DialogType \cup {NoDialog},
           Asking' \/ posts' # {} => flow.run \in Runs,
           posts' \subseteq PostType,
           \A p \in posts' : p.answer.status = 200 => Done(p),
           counts' \in [confirmations : 0..MaxConfirmations, posts : 0..MaxPosts, reads : Nat],
           Numbered'
    PROVE  IInv'
<1>1. EngineGrows /\ SuccessorsExist'
  BY EngineKept DEF IInv
<1>2. TypeOK'
  BY DEF IInv, TypeOK, view, engine
<1>3. AcceptedIsDone'
  BY DEF IInv, AcceptedIsDone, Done, engine, NeverRedriven
<1>4. \A r \in Runs : redriven'[r] = redriven[r]
  BY DEF engine
<1>5. ScreenOK' /\ AcceptedNotOfferedAgain'
  BY <1>1, <1>4, ScreenKept
<1> QED
  BY <1>1, <1>2, <1>3, <1>5 DEF IInv

LEMMA OpenDialogKeepsIInv ==
    ASSUME IInv, NEW c \in Commands, OpenDialog(c)
    PROVE  IInv'
<1>1. /\ TypeOK /\ Numbered /\ ScreenOK /\ AcceptedIsDone
      /\ counts.confirmations \in 0..MaxConfirmations /\ counts.confirmations < MaxConfirmations
      /\ counts.posts \in 0..MaxPosts /\ counts.reads \in Nat
  BY DEF IInv, TypeOK, OpenDialog
<1>2. /\ UNCHANGED <<view, posts, acknowledged, engine>>
      /\ counts'.confirmations = counts.confirmations + 1
      /\ counts'.posts = counts.posts /\ counts'.reads = counts.reads
      /\ counts' \in [confirmations : 0..MaxConfirmations, posts : 0..MaxPosts, reads : Nat]
  BY <1>1, RunCommandsAssumption DEF OpenDialog, TypeOK
<1>3. flow.run \in Runs
  BY <1>1 DEF OpenDialog, ScreenOK
<1>4. dialog' = [confirmation |-> counts.confirmations + 1, command |-> c,
                 run |-> flow.run, request |-> counts.confirmations + 1,
                 posting |-> FALSE, verdict |-> "none", cause |-> Unprocessed, post |-> 0]
  BY DEF OpenDialog
<1>5. dialog' \in DialogType
  BY <1>1, <1>3, <1>4, AnswersTyped, RunCommandsAssumption DEF DialogType
<1>6. Numbered'
  BY <1>1, <1>2, <1>4 DEF Numbered, Asking, engine, TypeOK, PostType, EffectType
<1>7. \A p \in posts : p.answer.status = 200 => Done(p)
  BY <1>1 DEF AcceptedIsDone
<1> QED
  BY <1>1, <1>2, <1>3, <1>5, <1>6, <1>7, DialogStepKeepsIInv DEF TypeOK

LEMMA DismissDialogKeepsIInv ==
    ASSUME IInv, DismissDialog
    PROVE  IInv'
<1>1. /\ TypeOK /\ Numbered /\ ScreenOK /\ AcceptedIsDone
      /\ dialog' = NoDialog /\ ~Asking'
      /\ UNCHANGED <<view, posts, counts, acknowledged, engine>>
  BY DEF IInv, DismissDialog, Asking, NoDialog
<1>2. Numbered'
  BY <1>1 DEF Numbered, engine
<1>3. \A p \in posts : p.answer.status = 200 => Done(p)
  BY <1>1 DEF AcceptedIsDone
<1>4. Asking' \/ posts' # {} => flow.run \in Runs
  BY <1>1 DEF ScreenOK
<1> QED
  BY <1>1, <1>2, <1>3, <1>4, DialogStepKeepsIInv DEF TypeOK

LEMMA ConfirmKeepsIInv ==
    ASSUME IInv, Confirm
    PROVE  IInv'
<1> DEFINE new == [id |-> counts.posts + 1, confirmation |-> dialog.confirmation,
                   command |-> dialog.command, confirmed |-> dialog.run, run |-> CommandEndpoint,
                   request |-> RequestId, waiting |-> TRUE, answer |-> Unprocessed]
<1>1. /\ TypeOK /\ Numbered /\ ScreenOK /\ AcceptedIsDone
      /\ counts.posts \in 0..MaxPosts /\ counts.posts < MaxPosts
      /\ counts.confirmations \in 0..MaxConfirmations /\ counts.reads \in Nat
      /\ Asking /\ dialog \in DialogType /\ flow.run \in Runs
  BY DEF IInv, TypeOK, Confirm, Asking, ScreenOK
<1>2. /\ UNCHANGED <<view, acknowledged, engine>>
      /\ counts'.confirmations = counts.confirmations
      /\ counts'.posts = counts.posts + 1
      /\ counts' \in [confirmations : 0..MaxConfirmations, posts : 0..MaxPosts, reads : Nat]
  BY <1>1, RunCommandsAssumption DEF Confirm, TypeOK
<1>3. new \in PostType /\ posts' = posts \cup {new}
  BY <1>1, AnswersTyped, RunCommandsAssumption
     DEF Confirm, PostType, DialogType, CommandEndpoint, RequestId
<1>4. /\ dialog' \in DialogType
      /\ dialog'.confirmation = dialog.confirmation
      /\ dialog'.request = dialog.request
      /\ dialog'.post = counts.posts + 1
  <2>1. dialog' = [dialog EXCEPT !.posting = TRUE, !.verdict = "none", !.post = counts.posts + 1]
    BY DEF Confirm
  <2>2. counts.posts + 1 \in 0..MaxPosts
    BY <1>1, RunCommandsAssumption
  <2> QED
    BY <1>1, <2>1, <2>2 DEF DialogType
<1>5. /\ new.id = counts.posts + 1 /\ new.confirmation = dialog.confirmation
      /\ new.request = dialog.request /\ new.answer = Unprocessed
  BY DEF RequestId
<1> HIDE DEF new
<1>6. Numbered'
  <2>1. \A p \in posts' :
           /\ p.id <= counts'.posts
           /\ p.confirmation <= counts'.confirmations /\ p.request = p.confirmation
    BY <1>1, <1>2, <1>3, <1>5 DEF Numbered, TypeOK, PostType
  <2>2. \A p, q \in posts' : p.id = q.id => p = q
    BY <1>1, <1>3, <1>5 DEF Numbered, TypeOK, PostType
  <2>3. /\ dialog'.confirmation <= counts'.confirmations
        /\ dialog'.request = dialog'.confirmation
        /\ dialog'.post <= counts'.posts
    BY <1>1, <1>2, <1>4 DEF Numbered
  <2>4. \A e \in effects' : e.post <= counts'.posts /\ e.confirmation <= counts'.confirmations
    BY <1>1, <1>2 DEF Numbered, engine, TypeOK, EffectType
  <2> QED
    BY <2>1, <2>2, <2>3, <2>4 DEF Numbered
<1>7. \A p \in posts' : p.answer.status = 200 => Done(p)
  BY <1>1, <1>3, <1>5, AnswersTyped DEF AcceptedIsDone
<1> QED
  BY <1>1, <1>2, <1>3, <1>4, <1>6, <1>7, DialogStepKeepsIInv DEF TypeOK
-----------------------------------------------------------------------------
(* Answers. *)

\* The failure of a request, and its text in the dialog there is.
LEMMA FailureShown ==
    ASSUME TypeOK, NEW p \in posts, NEW a \in AnswerType, ShowFailure(p, a)
    PROVE  /\ dialog' \in DialogType \cup {NoDialog}
           /\ Asking' <=> Asking
           /\ Asking => /\ dialog'.confirmation = dialog.confirmation
                        /\ dialog'.command = dialog.command
                        /\ dialog'.run = dialog.run
                        /\ dialog'.request = dialog.request
                        /\ dialog'.post = dialog.post
                        /\ dialog'.posting = (dialog.posting /\ ~DialogOf(p))
                        /\ dialog'.cause = a
                        /\ dialog'.verdict = IF Ambiguous(a) THEN "unknown" ELSE "rejected"
<1>1. CASE dialog = NoDialog
  BY <1>1 DEF ShowFailure, Asking, NoDialog
<1>2. CASE dialog # NoDialog
  <2>1. dialog \in DialogType
    BY <1>2 DEF TypeOK
  <2>2. /\ dialog' \in DialogType
        /\ dialog'.confirmation = dialog.confirmation
        /\ dialog'.command = dialog.command
        /\ dialog'.run = dialog.run
        /\ dialog'.request = dialog.request
        /\ dialog'.post = dialog.post
        /\ dialog'.posting = (dialog.posting /\ ~DialogOf(p))
        /\ dialog'.cause = a
        /\ dialog'.verdict = IF Ambiguous(a) THEN "unknown" ELSE "rejected"
    BY <1>2, <2>1 DEF ShowFailure, DialogType, DialogOf
  <2>3. dialog' # NoDialog
    BY <2>2 DEF DialogType, NoDialog
  <2> QED
    BY <1>2, <2>2, <2>3 DEF Asking, NoDialog
<1> QED
  BY <1>1, <1>2

\* A request that the browser is done with leaves no trace in the numbering.
LEMMA SettledKeepsNumbered ==
    ASSUME TypeOK, Numbered, NEW p \in posts,
           \A q \in posts' : q \in posts \/ (q = [p EXCEPT !.waiting = FALSE] /\ p \notin posts'),
           dialog' = NoDialog \/
              (/\ Asking
               /\ dialog'.confirmation = dialog.confirmation
               /\ dialog'.request = dialog.request
               /\ dialog'.post = dialog.post),
           counts'.posts = counts.posts, counts'.confirmations = counts.confirmations,
           effects' = effects
    PROVE  Numbered'
<1>1. \A q \in posts' : q \in posts \/ (/\ q.id = p.id /\ q.confirmation = p.confirmation
                                        /\ q.request = p.request)
  BY DEF TypeOK, PostType
<1>2. \A q \in posts' :
         /\ q.id <= counts'.posts
         /\ q.confirmation <= counts'.confirmations /\ q.request = q.confirmation
  BY <1>1 DEF Numbered
<1>3. \A q, r \in posts' : q.id = r.id => q = r
  BY <1>1 DEF Numbered
<1>4. Asking' =>
         /\ dialog'.confirmation <= counts'.confirmations
         /\ dialog'.request = dialog'.confirmation
         /\ dialog'.post <= counts'.posts
  BY DEF Numbered, Asking, NoDialog
<1> QED
  BY <1>2, <1>3, <1>4 DEF Numbered

LEMMA NoAnswerKeepsIInv ==
    ASSUME IInv, NEW p \in posts, NoAnswer(p)
    PROVE  IInv'
<1>1. /\ TypeOK /\ Numbered /\ ScreenOK /\ AcceptedIsDone /\ p \in PostType
      /\ ShowFailure(p, Silence) /\ Silence \in AnswerType
      /\ UNCHANGED <<view, counts, acknowledged, engine>>
  BY AnswersTyped DEF IInv, TypeOK, NoAnswer
<1>2. /\ dialog' \in DialogType \cup {NoDialog}
      /\ Asking' <=> Asking
      /\ Asking => /\ dialog'.confirmation = dialog.confirmation
                   /\ dialog'.request = dialog.request
                   /\ dialog'.post = dialog.post
  BY <1>1, FailureShown
<1>3. [p EXCEPT !.waiting = FALSE] \in PostType
  BY <1>1 DEF PostType
<1>4. \A q \in posts' : q \in posts \/
          (q = [p EXCEPT !.waiting = FALSE] /\ q.answer = Unprocessed /\ p \notin posts')
  <2>1. posts' = (posts \ {p}) \cup
                   (IF p.answer = Unprocessed THEN {[p EXCEPT !.waiting = FALSE]} ELSE {})
    BY DEF NoAnswer
  <2>2. p.waiting = TRUE /\ [p EXCEPT !.waiting = FALSE] # p
    BY <1>1 DEF NoAnswer, PostType
  <2>3. [p EXCEPT !.waiting = FALSE].answer = p.answer
    BY <1>1 DEF PostType
  <2> QED
    BY <2>1, <2>2, <2>3
<1>5. Numbered'
  BY <1>1, <1>2, <1>4, SettledKeepsNumbered DEF Asking, NoDialog, engine
<1>6. \A q \in posts' : q.answer.status = 200 => Done(q)
  BY <1>1, <1>4, AnswersTyped DEF AcceptedIsDone
<1>7. posts' \subseteq PostType
  BY <1>1, <1>3, <1>4 DEF TypeOK
<1>8. Asking' \/ posts' # {} => flow.run \in Runs
  BY <1>1, <1>2 DEF ScreenOK
<1> QED
  BY <1>1, <1>2, <1>5, <1>6, <1>7, <1>8, DialogStepKeepsIInv DEF TypeOK

LEMMA SuccessKeepsIInv ==
    ASSUME IInv, NEW p \in posts, HandleSuccess(p), p.answer.status = 200,
           posts' = posts \ {p}, UNCHANGED engine
    PROVE  IInv'
<1>1. /\ TypeOK /\ Numbered /\ ScreenOK /\ AcceptedIsDone /\ SuccessorsExist
      /\ AcceptedNotOfferedAgain /\ p \in PostType /\ Done(p)
      /\ acknowledged' = acknowledged \cup {p} /\ flow' = flow
      /\ dialog' \in {dialog, NoDialog}
  BY DEF IInv, TypeOK, HandleSuccess, AcceptedIsDone
<1>2. acknowledged' \subseteq PostType /\ \A q \in acknowledged' : Done(q)
  BY <1>1 DEF TypeOK, AcceptedIsDone
<1>3. CASE p.command = "redrive" /\ p.answer.run # NoRun
  <2> DEFINE successor == [instance |-> InstanceOf[flow.run], run |-> p.answer.run,
                           complete |-> FALSE]
  <2>1. /\ p.run \in Runs
        /\ redriven[p.run] # NeverRedriven /\ redriven[p.run].run = p.answer.run
        /\ p.answer.run \in Runs /\ Exists(p.answer.run)
    BY <1>1, <1>3 DEF Done, SuccessorsExist, PostType
  <2>2. /\ route' = successor
        /\ (successor = route /\ UNCHANGED <<asked, screen, counts>>) \/ Load(successor)
    BY <1>3 DEF HandleSuccess
  <2>3. successor.run = p.answer.run
    OBVIOUS
  <2>4. CASE Load(successor)
    <3>1. successor \in Routes
      BY <1>1, <2>1, RunCommandsAssumption DEF Routes, ScreenOK
    <3> QED
      BY <1>1, <1>2, <2>1, <2>2, <2>3, <2>4, <3>1, LoadKeepsIInv
  <2>5. CASE successor = route /\ UNCHANGED <<asked, screen, counts>>
    <3>1. EngineGrows /\ SuccessorsExist'
      BY <1>1, EngineKept
    <3>2. TypeOK'
      <4>1. route' = route
        BY <2>2, <2>5
      <4>2. posts' \subseteq PostType /\ dialog' \in DialogType \cup {NoDialog}
        BY <1>1 DEF TypeOK
      <4> HIDE DEF successor
      <4> QED
        BY <1>1, <1>2, <2>5, <4>1, <4>2 DEF TypeOK, engine
    <3>3. Numbered'
      BY <1>1, <2>5 DEF Numbered, Asking, NoDialog, engine
    <3>4. AcceptedIsDone'
      BY <1>1, <1>2 DEF AcceptedIsDone, Done, engine, NeverRedriven
    <3>5. ScreenOK'
      BY <1>1, <2>2, <2>5 DEF ScreenOK, Asking, Exists, engine, NeverRedriven
    <3>6. AcceptedNotOfferedAgain'
      <4>1. screen = "ready" /\ p.run = flow.run => p.command \notin flow.can
        BY <1>1, <1>3, <2>1, <2>3, <2>5 DEF ScreenOK
      <4> QED
        BY <1>1, <2>5, <4>1 DEF AcceptedNotOfferedAgain
    <3> QED
      BY <3>1, <3>2, <3>3, <3>4, <3>5, <3>6 DEF IInv
  <2> QED
    BY <2>2, <2>4, <2>5
<1>4. CASE ~(p.command = "redrive" /\ p.answer.run # NoRun)
  <2>1. Load(route) /\ route' = route /\ route \in Routes /\ Exists(route.run)
    BY <1>1, <1>4 DEF HandleSuccess, ScreenOK, TypeOK
  <2> QED
    BY <1>1, <1>2, <2>1, LoadKeepsIInv
<1> QED
  BY <1>3, <1>4

LEMMA AnswerArrivesKeepsIInv ==
    ASSUME IInv, NEW p \in posts, AnswerArrives(p)
    PROVE  IInv'
<1>1. /\ TypeOK /\ Numbered /\ ScreenOK /\ AcceptedIsDone /\ p \in PostType
      /\ posts' = posts \ {p} /\ UNCHANGED engine
  BY DEF IInv, TypeOK, AnswerArrives
<1>2. /\ posts' \subseteq PostType
      /\ \A q \in posts' : q.answer.status = 200 => Done(q)
  BY <1>1 DEF TypeOK, AcceptedIsDone
<1>3. CASE p.answer.status = 200 /\ HandleSuccess(p)
  BY <1>1, <1>3, SuccessKeepsIInv
<1>4. CASE /\ dialog # NoDialog
           /\ dialog' = [dialog EXCEPT !.posting = @ /\ ~DialogOf(p)]
           /\ UNCHANGED <<view, counts, acknowledged>>
  <2>1. dialog \in DialogType
    BY <1>1, <1>4 DEF TypeOK
  <2>2. /\ dialog' \in DialogType
        /\ dialog'.confirmation = dialog.confirmation
        /\ dialog'.request = dialog.request
        /\ dialog'.post = dialog.post
    BY <1>4, <2>1 DEF DialogType, DialogOf
  <2>3. Numbered'
    BY <1>1, <1>4, <2>2, SettledKeepsNumbered DEF Asking, engine
  <2>4. Asking' \/ posts' # {} => flow.run \in Runs
    BY <1>1 DEF ScreenOK
  <2> QED
    BY <1>1, <1>2, <1>4, <2>2, <2>3, <2>4, DialogStepKeepsIInv DEF TypeOK
<1>5. CASE ShowFailure(p, p.answer) /\ UNCHANGED <<view, counts, acknowledged>>
  <2>1. p.answer \in AnswerType
    BY <1>1 DEF PostType
  <2>2. /\ dialog' \in DialogType \cup {NoDialog}
        /\ Asking' <=> Asking
        /\ Asking => /\ dialog'.confirmation = dialog.confirmation
                     /\ dialog'.request = dialog.request
                     /\ dialog'.post = dialog.post
    BY <1>1, <1>5, <2>1, FailureShown
  <2>3. Numbered'
    BY <1>1, <1>5, <2>2, SettledKeepsNumbered DEF Asking, NoDialog, engine
  <2>4. Asking' \/ posts' # {} => flow.run \in Runs
    BY <1>1, <2>2 DEF ScreenOK
  <2> QED
    BY <1>1, <1>2, <1>5, <2>2, <2>3, <2>4, DialogStepKeepsIInv DEF TypeOK
<1> QED
  BY <1>3, <1>4, <1>5 DEF AnswerArrives
-----------------------------------------------------------------------------
(* The server and its engine. *)

\* What an answer may leave of the requests.
LEMMA AnsweredPosts ==
    ASSUME TypeOK, NEW p \in posts, NEW a \in AnswerType, Answered(p, a)
    PROVE  /\ posts' \subseteq PostType
           /\ \A q \in posts' :
                 \/ q \in posts /\ q # p
                 \/ q = [p EXCEPT !.answer = a] /\ p.waiting
<1>1. p \in PostType
  BY DEF TypeOK
<1>2. [p EXCEPT !.answer = a] \in PostType
  BY <1>1 DEF PostType
<1> QED
  BY <1>2 DEF Answered, TypeOK

LEMMA EffectTyped ==
    ASSUME NEW p \in PostType
    PROVE  /\ Effect(p) \in EffectType
           /\ Effect(p).post = p.id /\ Effect(p).confirmation = p.confirmation
           /\ Effect(p).command = p.command /\ Effect(p).run = p.run
           /\ Effect(p).confirmed = p.confirmed
  BY DEF PostType, EffectType, Effect

\* A step in which the server answers a request, or drops the answer.
LEMMA ServerStepKeepsIInv ==
    ASSUME IInv, NEW p \in posts, NEW a \in AnswerType, Answered(p, a),
           UNCHANGED <<view, dialog, counts, acknowledged, service>>,
           EngineGrows, SuccessorsExist',
           status' \in [Runs -> {"unborn", "running", "failed", "closed"}],
           redriven' \in [Runs -> [by : Int, run : Runs \cup {NoRun}]],
           effects' \in {effects, effects \cup {Effect(p)}},
           a.status = 200 =>
              /\ p.command = "cancel" => status'[p.run] = "closed"
              /\ p.command = "redrive" =>
                    redriven'[p.run] # NeverRedriven /\ redriven'[p.run].run = a.run,
           \A r \in Runs : redriven'[r] = redriven[r] \/ redriven'[r].run # route.run
    PROVE  IInv'
<1>1. /\ TypeOK /\ Numbered /\ ScreenOK /\ AcceptedIsDone /\ p \in PostType
  BY DEF IInv, TypeOK
<1>2. /\ posts' \subseteq PostType
      /\ \A q \in posts' : q \in posts \/ q = [p EXCEPT !.answer = a]
      /\ p \in posts' => p \in posts
  BY <1>1, AnsweredPosts
<1>3. /\ [p EXCEPT !.answer = a].id = p.id
      /\ [p EXCEPT !.answer = a].confirmation = p.confirmation
      /\ [p EXCEPT !.answer = a].request = p.request
      /\ [p EXCEPT !.answer = a].command = p.command
      /\ [p EXCEPT !.answer = a].run = p.run
      /\ [p EXCEPT !.answer = a].answer = a
  BY <1>1 DEF PostType
<1>4. TypeOK'
  BY <1>1, <1>2, EffectTyped DEF TypeOK, view
<1>5. Numbered'
  <2>1. \A q \in posts' :
           /\ q.id <= counts'.posts
           /\ q.confirmation <= counts'.confirmations /\ q.request = q.confirmation
    BY <1>1, <1>2, <1>3 DEF Numbered
  <2>2. \A q, r \in posts' : q.id = r.id => q = r
    <3> DEFINE answered == [p EXCEPT !.answer = a]
    <3>1. \A q \in posts' : q # answered => q \in posts /\ q # p
      BY <1>1, AnsweredPosts
    <3>2. answered.id = p.id
      BY <1>3
    <3>3. \A q \in posts : q.id = p.id => q = p
      BY <1>1 DEF Numbered
    <3>4. \A q \in posts' : q.id = answered.id => q = answered
      BY <3>1, <3>2, <3>3
    <3> HIDE DEF answered
    <3> QED
      BY <1>1, <3>1, <3>4 DEF Numbered
  <2>3. \A e \in effects' : e.post <= counts'.posts /\ e.confirmation <= counts'.confirmations
    BY <1>1, EffectTyped DEF Numbered
  <2>4. Asking' =>
           /\ dialog'.confirmation <= counts'.confirmations
           /\ dialog'.request = dialog'.confirmation
           /\ dialog'.post <= counts'.posts
    BY <1>1 DEF Numbered, Asking, NoDialog
  <2> QED
    BY <2>1, <2>2, <2>3, <2>4 DEF Numbered
<1>6. AcceptedIsDone'
  <2>1. ASSUME NEW q \in posts', q.answer.status = 200, q \notin posts
        PROVE  Done(q)'
    <3>1. q = [p EXCEPT !.answer = a]
      BY <1>2, <2>1
    <3>2. q.command = p.command /\ q.run = p.run /\ q.answer = a
      BY <1>3, <3>1
    <3> QED
      BY <2>1, <3>2 DEF Done, NeverRedriven
  <2> QED
    BY <1>1, <1>2, <2>1, AcceptedStaysDone
<1>7. Asking' \/ posts' # {} => flow.run \in Runs
  BY <1>1 DEF ScreenOK
<1>8. ScreenOK' /\ AcceptedNotOfferedAgain'
  BY <1>7, ScreenKept
<1> QED
  BY <1>4, <1>5, <1>6, <1>8 DEF IInv

LEMMA RedriveKeepsIInv ==
    ASSUME IInv, NEW p \in posts, Redrive(p),
           UNCHANGED <<view, dialog, counts, acknowledged>>
    PROVE  IInv'
<1>1. /\ TypeOK /\ SuccessorsExist /\ ScreenOK /\ p \in PostType
      /\ p.run \in Runs /\ p.request \in Int /\ p.command = "redrive"
      /\ Exists(route.run)
  BY DEF IInv, TypeOK, Redrive, PostType, ScreenOK
<1>2. CASE /\ status[p.run] = "failed" /\ redriven[p.run] = NeverRedriven
           /\ \E s \in Runs, a \in {Accepted(r) : r \in Runs} \cup {Unreachable} :
                 /\ ~Exists(s) /\ InstanceOf[s] = InstanceOf[p.run]
                 /\ a \in Replies(Accepted(s))
                 /\ Answered(p, a)
                 /\ status' = [status EXCEPT ![s] = "running"]
                 /\ redriven' = [redriven EXCEPT ![p.run] = [by |-> p.request, run |-> s]]
           /\ effects' = effects \cup {Effect(p)}
           /\ UNCHANGED service
  <2>1. PICK s \in Runs, a \in {Accepted(r) : r \in Runs} \cup {Unreachable} :
           /\ ~Exists(s)
           /\ a \in Replies(Accepted(s))
           /\ Answered(p, a)
           /\ status' = [status EXCEPT ![s] = "running"]
           /\ redriven' = [redriven EXCEPT ![p.run] = [by |-> p.request, run |-> s]]
    BY <1>2
  <2>2. /\ EngineGrows
        /\ SuccessorsExist'
        /\ status' \in [Runs -> {"unborn", "running", "failed", "closed"}]
        /\ redriven' \in [Runs -> [by : Int, run : Runs \cup {NoRun}]]
        /\ redriven'[p.run] = [by |-> p.request, run |-> s]
        /\ redriven'[p.run] # NeverRedriven
        /\ \A t \in Runs \ {p.run} : redriven'[t] = redriven[t]
    BY <1>1, <1>2, <2>1, RedrivenGrows
  <2>3. a \in AnswerType /\ (a.status = 200 => a.run = s)
    BY <2>1, AnswersTyped DEF Replies
  <2>4. \A r \in Runs : redriven'[r] = redriven[r] \/ redriven'[r].run # route.run
    BY <1>1, <2>1, <2>2
  <2> QED
    BY <1>1, <1>2, <2>1, <2>2, <2>3, <2>4, ServerStepKeepsIInv
<1>3. ASSUME UNCHANGED engine,
             NEW a \in AnswerType, Answered(p, a),
             a.status = 200 => redriven[p.run] # NeverRedriven /\ redriven[p.run].run = a.run
      PROVE  IInv'
  <2>1. EngineGrows /\ SuccessorsExist'
    BY <1>1, <1>3, EngineKept
  <2>2. /\ service' = service /\ status' = status /\ redriven' = redriven /\ effects' = effects
        /\ status' \in [Runs -> {"unborn", "running", "failed", "closed"}]
        /\ redriven' \in [Runs -> [by : Int, run : Runs \cup {NoRun}]]
    BY <1>1, <1>3 DEF engine, TypeOK
  <2> QED
    BY <1>1, <1>3, <2>1, <2>2, ServerStepKeepsIInv
<1>4. CASE /\ redriven[p.run] # NeverRedriven
           /\ \E a \in Replies(Accepted(redriven[p.run].run))
                         \cup (IF redriven[p.run].by = p.request THEN {} ELSE {Refused}) :
                 Answered(p, a)
           /\ UNCHANGED engine
  <2>1. redriven[p.run].run \in Runs
    BY <1>1, <1>4 DEF SuccessorsExist
  <2>2. PICK a \in {Accepted(redriven[p.run].run), Unreachable, Refused} : Answered(p, a)
    BY <1>4 DEF Replies
  <2>3. a \in AnswerType /\ (a.status = 200 => a.run = redriven[p.run].run)
    BY <2>1, <2>2, AnswersTyped
  <2> QED
    BY <1>3, <1>4, <2>2, <2>3
<1>5. CASE /\ \E a \in Replies(Refused) : Answered(p, a)
           /\ UNCHANGED engine
  <2>1. PICK a \in {Refused, Unreachable} : Answered(p, a)
    BY <1>5 DEF Replies
  <2>2. a \in AnswerType /\ a.status # 200
    BY <2>1, AnswersTyped
  <2> QED
    BY <1>3, <1>5, <2>1, <2>2
<1> QED
  BY <1>2, <1>4, <1>5 DEF Redrive

LEMMA CancelKeepsIInv ==
    ASSUME IInv, NEW p \in posts, Cancel(p),
           UNCHANGED <<view, dialog, counts, acknowledged>>
    PROVE  IInv'
<1>1. /\ TypeOK /\ SuccessorsExist /\ p \in PostType
      /\ p.run \in Runs /\ p.command = "cancel"
  BY DEF IInv, TypeOK, Cancel, PostType
<1>2. CASE status[p.run] = "running"
  <2>1. /\ status' = [status EXCEPT ![p.run] = "closed"]
        /\ effects' = effects \cup {Effect(p)}
        /\ service' = service /\ redriven' = redriven
        /\ \E a \in Replies(Accepted(NoRun)) : Answered(p, a)
    BY <1>2 DEF Cancel
  <2>2. PICK a \in {Accepted(NoRun), Unreachable} : Answered(p, a)
    BY <2>1 DEF Replies
  <2>3. a \in AnswerType
    BY <2>2, AnswersTyped
  <2>4. /\ status' \in [Runs -> {"unborn", "running", "failed", "closed"}]
        /\ \A s \in Runs :
              /\ Exists(s) => Exists(s)'
              /\ status[s] \in {"failed", "closed"} => status'[s] = status[s]
    BY <1>1, <1>2, <2>1, StatusGrows
  <2>5. EngineGrows /\ SuccessorsExist'
    BY <1>1, <2>1, <2>4 DEF EngineGrows, SuccessorsExist, Exists, NeverRedriven
  <2>6. status'[p.run] = "closed" /\ redriven' \in [Runs -> [by : Int, run : Runs \cup {NoRun}]]
    BY <1>1, <2>1 DEF TypeOK
  <2> QED
    BY <1>1, <2>1, <2>2, <2>3, <2>4, <2>5, <2>6, ServerStepKeepsIInv
<1>3. CASE status[p.run] # "running"
  <2>1. UNCHANGED engine /\ \E a \in Replies(Refused) : Answered(p, a)
    BY <1>3 DEF Cancel
  <2>2. PICK a \in {Refused, Unreachable} : Answered(p, a)
    BY <2>1 DEF Replies
  <2>3. a \in AnswerType /\ a.status # 200
    BY <2>2, AnswersTyped
  <2>4. EngineGrows /\ SuccessorsExist'
    BY <1>1, <2>1, EngineKept
  <2>5. /\ service' = service /\ status' = status /\ redriven' = redriven /\ effects' = effects
        /\ status' \in [Runs -> {"unborn", "running", "failed", "closed"}]
        /\ redriven' \in [Runs -> [by : Int, run : Runs \cup {NoRun}]]
    BY <1>1, <2>1 DEF engine, TypeOK
  <2> QED
    BY <1>1, <2>2, <2>3, <2>4, <2>5, ServerStepKeepsIInv
<1> QED
  BY <1>2, <1>3

LEMMA StoppedBeforeKeepsIInv ==
    ASSUME IInv, NEW p \in posts, StoppedBefore(p),
           UNCHANGED <<view, dialog, counts, acknowledged>>
    PROVE  IInv'
<1>1. TypeOK /\ SuccessorsExist /\ UNCHANGED engine
  BY DEF IInv, StoppedBefore
<1>2. PICK a \in {Forbidden, Unsupported, Misconfigured, Unreachable} : Answered(p, a)
  BY DEF StoppedBefore
<1>3. a \in AnswerType /\ a.status # 200
  BY <1>2, AnswersTyped
<1>4. EngineGrows /\ SuccessorsExist'
  BY <1>1, EngineKept
<1>5. /\ service' = service /\ status' = status /\ redriven' = redriven /\ effects' = effects
      /\ status' \in [Runs -> {"unborn", "running", "failed", "closed"}]
      /\ redriven' \in [Runs -> [by : Int, run : Runs \cup {NoRun}]]
  BY <1>1 DEF engine, TypeOK
<1> QED
  BY <1>2, <1>3, <1>4, <1>5, ServerStepKeepsIInv

\* What the engine does by itself, or for others.
LEMMA EngineStepKeepsIInv ==
    ASSUME IInv, EngineGrows, SuccessorsExist',
           UNCHANGED <<view, dialog, posts, counts, acknowledged, service, effects>>,
           status' \in [Runs -> {"unborn", "running", "failed", "closed"}],
           redriven' \in [Runs -> [by : Int, run : Runs \cup {NoRun}]],
           \A r \in Runs : redriven'[r] = redriven[r] \/ redriven'[r].run # route.run
    PROVE  IInv'
<1>1. TypeOK /\ Numbered /\ AcceptedIsDone /\ ScreenOK
  BY DEF IInv
<1>2. TypeOK' /\ Numbered'
  BY <1>1 DEF TypeOK, Numbered, view, Asking, NoDialog
<1>3. AcceptedIsDone'
  <2>1. \A p \in posts' : p \in posts \/ (p \in PostType /\ (p.answer.status = 200 => Done(p)'))
    OBVIOUS
  <2> QED
    BY <1>1, <2>1, AcceptedStaysDone
<1>4. Asking' \/ posts' # {} => flow.run \in Runs
  BY <1>1 DEF ScreenOK, Asking, NoDialog
<1>5. ScreenOK' /\ AcceptedNotOfferedAgain'
  BY <1>4, ScreenKept
<1> QED
  BY <1>2, <1>3, <1>5 DEF IInv

LEMMA RunFailsKeepsIInv ==
    ASSUME IInv, NEW r \in Runs, RunFails(r)
    PROVE  IInv'
<1>1. /\ TypeOK /\ SuccessorsExist
      /\ status[r] = "running" /\ status' = [status EXCEPT ![r] = "failed"]
      /\ UNCHANGED <<view, dialog, posts, counts, acknowledged, service, redriven, effects>>
  BY DEF IInv, RunFails
<1>2. /\ status' \in [Runs -> {"unborn", "running", "failed", "closed"}]
      /\ \A s \in Runs :
            /\ Exists(s) => Exists(s)'
            /\ status[s] \in {"failed", "closed"} => status'[s] = status[s]
  BY <1>1, StatusGrows
<1>3. EngineGrows /\ SuccessorsExist'
  BY <1>1, <1>2 DEF EngineGrows, SuccessorsExist, Exists, NeverRedriven
<1> QED
  BY <1>1, <1>2, <1>3, EngineStepKeepsIInv DEF TypeOK

LEMMA RedrivenElsewhereKeepsIInv ==
    ASSUME IInv, NEW r \in Runs, NEW s \in Runs, RedrivenElsewhere(r, s)
    PROVE  IInv'
<1>1. /\ TypeOK /\ SuccessorsExist /\ ScreenOK
      /\ status[r] = "failed" /\ redriven[r] = NeverRedriven /\ ~Exists(s)
      /\ status' = [status EXCEPT ![s] = "running"]
      /\ redriven' = [redriven EXCEPT ![r] = [by |-> -1, run |-> s]]
      /\ UNCHANGED <<view, dialog, posts, counts, acknowledged, service, effects>>
  BY DEF IInv, RedrivenElsewhere
<1>2. /\ EngineGrows
      /\ SuccessorsExist'
      /\ status' \in [Runs -> {"unborn", "running", "failed", "closed"}]
      /\ redriven' \in [Runs -> [by : Int, run : Runs \cup {NoRun}]]
      /\ redriven'[r] = [by |-> -1, run |-> s]
      /\ \A t \in Runs \ {r} : redriven'[t] = redriven[t]
  <2>1. -1 \in Int
    OBVIOUS
  <2> QED
    BY <1>1, <2>1, RedrivenGrows
<1>3. \A t \in Runs : redriven'[t] = redriven[t] \/ redriven'[t].run # route.run
  BY <1>1, <1>2 DEF ScreenOK
<1> QED
  BY <1>1, <1>2, <1>3, EngineStepKeepsIInv

-----------------------------------------------------------------------------
(* The theorems that hold however the operator moves about. *)

LEMMA InitIInv == Init => IInv
<1> SUFFICES ASSUME Init
             PROVE  IInv
  OBVIOUS
<1>1. /\ flow.run \notin Runs /\ flow.can = {} /\ ~Asking /\ posts = {} /\ acknowledged = {}
      /\ effects = {} /\ screen = "loading"
      /\ \A r \in Runs : redriven[r] = NeverRedriven
  BY RunCommandsAssumption DEF Init, NoFlow, Asking
<1>2. route \in Routes /\ asked = route /\ Exists(route.run)
  BY RunCommandsAssumption DEF Init, Routes, Exists
<1>3. TypeOK
  <2>1. counts \in [confirmations : 0..MaxConfirmations, posts : 0..MaxPosts, reads : Nat]
    BY RunCommandsAssumption DEF Init
  <2>2. redriven \in [Runs -> [by : Int, run : Runs \cup {NoRun}]]
    BY DEF Init, NeverRedriven
  <2>3. status \in [Runs -> {"unborn", "running", "failed", "closed"}]
    BY DEF Init
  <2>4. flow \in [run : Runs \cup {NoRun}, can : SUBSET Commands, complete : BOOLEAN]
    BY DEF Init, NoFlow
  <2> QED
    BY <1>2, <2>1, <2>2, <2>3, <2>4 DEF Init, TypeOK
<1> QED
  BY <1>1, <1>2, <1>3
     DEF IInv, Numbered, SuccessorsExist, AcceptedIsDone, ScreenOK, AcceptedNotOfferedAgain

LEMMA StepKeepsIInv ==
    ASSUME IInv, [Next]_vars
    PROVE  IInv'
<1>1. CASE Operator
  BY <1>1, NavigateKeepsIInv, LoadCompleteDetailsKeepsIInv, OpenDialogKeepsIInv,
     DismissDialogKeepsIInv, ConfirmKeepsIInv DEF Operator
<1>2. CASE FlowAnswered \/ FlowFailed
  BY <1>2, FlowAnsweredKeepsIInv, FlowFailedKeepsIInv
<1>3. ASSUME NEW p \in posts, AnswerArrives(p) \/ NoAnswer(p) \/ ServerProcesses(p)
      PROVE  IInv'
  BY <1>3, AnswerArrivesKeepsIInv, NoAnswerKeepsIInv, RedriveKeepsIInv, CancelKeepsIInv,
     StoppedBeforeKeepsIInv DEF ServerProcesses
<1>4. CASE \E r \in Runs : RunFails(r)
  BY <1>4, RunFailsKeepsIInv
<1>5. CASE \E r, s \in Runs : RedrivenElsewhere(r, s)
  BY <1>5, RedrivenElsewhereKeepsIInv
<1>6. CASE UNCHANGED vars
  <2>1. UNCHANGED <<route, asked, screen, flow, dialog, posts, counts, acknowledged,
                    service, status, redriven, effects>>
    BY <1>6 DEF vars, view, engine
  <2>2. TypeOK'
    BY <2>1 DEF IInv, TypeOK
  <2> QED
    BY <2>1, <2>2 DEF IInv, Numbered, SuccessorsExist, AcceptedIsDone, ScreenOK, Done,
       AcceptedNotOfferedAgain, Asking, NoDialog, Exists, NeverRedriven
<1> QED
  BY <1>1, <1>2, <1>3, <1>4, <1>5, <1>6 DEF Next

\* IInv is an invariant, wherever the operator goes while a dialog is open.
THEOREM Invariance == SafeSpec => []IInv
<1>1. IInv /\ [Next]_vars => IInv'
  BY StepKeepsIInv
<1> QED
  BY InitIInv, <1>1, PTL DEF SafeSpec

\* The variables of the commands keep their types (flow.vue's data, the engine's
\* records).
THEOREM TypeCorrect == SafeSpec => []TypeOK
<1>1. IInv => TypeOK
  BY DEF IInv
<1> QED
  BY Invariance, <1>1, PTL

\* What the screen was told is done it does not offer again, whatever was
\* underway when the answer came (handleCommandSuccess reads the run again).
THEOREM AcceptedNotOffered == SafeSpec => []AcceptedNotOfferedAgain
<1>1. IInv => AcceptedNotOfferedAgain
  BY DEF IInv
<1> QED
  BY Invariance, <1>1, PTL
-----------------------------------------------------------------------------
(* Where no dialog is left behind. *)

\* A step behind no dialog.
LEMMA ReadStepKeepsKept ==
    ASSUME Kept, ~Asking, UNCHANGED <<dialog, posts, engine>>,
           "redrive" \in flow'.can => status[flow'.run] = "failed"
    PROVE  Kept'
<1>1. ~Asking' /\ UNCHANGED <<dialog, posts, service, status, redriven, effects>>
  BY DEF Asking, NoDialog, engine
<1>2. DialogOfFlow' /\ WaitsForDialog' /\ PostsAsConfirmed' /\ EffectsRecorded' /\ NothingDone'
  BY <1>1 DEF Kept, DialogOfFlow, WaitsForDialog, PostsAsConfirmed, EffectsRecorded,
              NothingDone, Without, NeverRedriven, Unprocessed, Ambiguous, Silence
<1>3. OneRunPerConfirmation' /\ OneSuccessorPerConfirmation' /\ CommandReachesConfirmedRun'
  BY <1>1 DEF Kept, OneRunPerConfirmation, SameConfirmed, OneSuccessorPerConfirmation,
              CommandReachesConfirmedRun
<1>4. RefusalsAreOthers'
  BY <1>1 DEF Kept, RefusalsAreOthers, RedrivenByAnother, NeverRedriven, Refused, Reply
<1> QED
  BY <1>2, <1>3, <1>4 DEF Kept

LEMMA ReadsKeepKept ==
    ASSUME IInv, Kept,
           \/ \E rt \in Routes : Navigate(rt)
           \/ LoadCompleteDetails
           \/ FlowAnswered
           \/ FlowFailed
    PROVE  Kept'
<1>1. ~Asking /\ UNCHANGED <<dialog, posts, engine>>
  BY DEF Kept, DialogOfFlow, Asking, Navigate, LoadCompleteDetails, FlowAnswered, FlowFailed
<1>2. "redrive" \in flow.can => status[flow.run] = "failed"
  BY DEF Kept, DialogOfFlow
<1>3. CASE FlowAnswered
  <2>1. flow' = flow \/ (flow'.can = Allowed(asked.run, asked.complete) /\ flow'.run = asked.run)
    BY <1>3 DEF FlowAnswered
  <2>2. "redrive" \in flow'.can => status[flow'.run] = "failed"
    BY <1>2, <2>1 DEF Allowed
  <2> QED
    BY <1>1, <2>2, ReadStepKeepsKept
<1>4. CASE flow' = flow
  BY <1>1, <1>2, <1>4, ReadStepKeepsKept
<1> QED
  BY <1>3, <1>4 DEF Navigate, LoadCompleteDetails, FlowFailed

\* A step of the dialog and the requests: what it does to each part of Kept.
LEMMA DialogStepKeepsKept ==
    ASSUME Kept, UNCHANGED <<flow, engine>>,
           Asking' => /\ Asking /\ screen' = screen
                      /\ dialog'.confirmation = dialog.confirmation
                      /\ dialog'.command = dialog.command
                      /\ dialog'.run = dialog.run,
           \A q \in posts' :
              /\ \/ \E p \in posts : /\ q.id = p.id /\ q.confirmation = p.confirmation
                                     /\ q.command = p.command /\ q.run = p.run
                                     /\ q.confirmed = p.confirmed /\ q.answer = p.answer
                 \/ /\ Asking
                    /\ q.confirmation = dialog.confirmation /\ q.command = dialog.command
                    /\ q.run = dialog.run /\ q.confirmed = dialog.run
                    /\ q.answer = Unprocessed /\ Without(q.id),
           WaitsForDialog',
           Asking' /\ dialog'.command = "redrive" /\ dialog'.cause = Refused =>
              RedrivenByAnother(dialog),
           Asking' /\ dialog'.verdict = "rejected" =>
              Without(dialog'.post) /\ \A q \in posts' : q.id # dialog'.post
    PROVE  Kept'
<1>1. /\ service' = service /\ status' = status /\ redriven' = redriven /\ effects' = effects
      /\ flow' = flow
  BY DEF engine
<1>2. DialogOfFlow'
  BY <1>1 DEF Kept, DialogOfFlow
<1>3. OneRunPerConfirmation'
  <2>1. Asking =>
          /\ \A q \in posts' : SameConfirmed(q, dialog)
          /\ \A e \in effects : SameConfirmed(e, dialog)
    BY DEF Kept, OneRunPerConfirmation, SameConfirmed
  <2>2. Asking' =>
          /\ \A q \in posts' : SameConfirmed(q, dialog)'
          /\ \A e \in effects' : SameConfirmed(e, dialog)'
    BY <1>1, <2>1 DEF SameConfirmed
  <2>3. \A p, q \in posts' : SameConfirmed(p, q)
    BY DEF Kept, OneRunPerConfirmation, SameConfirmed
  <2>4. \A p \in posts', e \in effects' : SameConfirmed(p, e)
    BY <1>1 DEF Kept, OneRunPerConfirmation, SameConfirmed
  <2> QED
    BY <2>2, <2>3, <2>4 DEF OneRunPerConfirmation, SameConfirmed
<1>4. PostsAsConfirmed'
  BY <1>1 DEF Kept, PostsAsConfirmed, DialogOfFlow
<1>5. EffectsRecorded' /\ OneSuccessorPerConfirmation' /\ CommandReachesConfirmedRun'
  BY <1>1 DEF Kept, EffectsRecorded, OneSuccessorPerConfirmation, CommandReachesConfirmedRun,
              NeverRedriven
<1>6. RefusalsAreOthers'
  <2>1. Refused' = Refused /\ Refused # Unprocessed
    BY <1>1 DEF Refused, Unprocessed, Reply
  <2>2. \A q \in posts' : q.command = "redrive" /\ q.answer = Refused => RedrivenByAnother(q)
    BY <2>1 DEF Kept, RefusalsAreOthers, RedrivenByAnother
  <2>3. Asking' /\ dialog'.command = "redrive" /\ dialog'.cause = Refused =>
            RedrivenByAnother(dialog)'
    BY <1>1 DEF RedrivenByAnother, NeverRedriven
  <2> QED
    BY <1>1, <2>1, <2>2, <2>3 DEF RefusalsAreOthers, RedrivenByAnother, NeverRedriven
<1>7. NothingDone'
  <2>1. \A q \in posts' :
           q.answer = Unprocessed \/ (q.answer.status # 200 /\ ~Ambiguous(q.answer)) =>
               Without(q.id)
    BY DEF Kept, NothingDone
  <2> QED
    BY <1>1, <2>1 DEF NothingDone, Without, Unprocessed, Ambiguous, Silence
<1> QED
  BY <1>2, <1>3, <1>4, <1>5, <1>6, <1>7 DEF Kept

\* The number of a new dialog is nobody's yet.
LEMMA OpenDialogKeepsKept ==
    ASSUME IInv, Kept, NEW c \in Commands, OpenDialog(c)
    PROVE  Kept'
<1>1. /\ ~Asking /\ screen = "ready" /\ c \in flow.can
      /\ screen' = screen /\ flow' = flow /\ posts' = posts
      /\ service' = service /\ status' = status /\ redriven' = redriven /\ effects' = effects
  BY DEF OpenDialog, Asking, view, engine
<1>2. /\ dialog'.confirmation = counts.confirmations + 1 /\ dialog'.command = c
      /\ dialog'.run = flow.run /\ dialog'.verdict = "none" /\ dialog'.cause = Unprocessed
  BY DEF OpenDialog
<1>3. /\ \A p \in posts : p.confirmation # counts.confirmations + 1
      /\ \A e \in effects : e.confirmation # counts.confirmations + 1
  <2>1. counts.confirmations \in Nat
    BY RunCommandsAssumption DEF IInv, TypeOK
  <2>2. /\ \A p \in posts : p.confirmation \in Nat /\ p.confirmation <= counts.confirmations
        /\ \A e \in effects : e.confirmation \in Nat /\ e.confirmation <= counts.confirmations
    BY RunCommandsAssumption DEF IInv, TypeOK, Numbered, PostType, EffectType
  <2> QED
    BY <2>1, <2>2
<1>4. DialogOfFlow'
  BY <1>1, <1>2 DEF Kept, DialogOfFlow
<1>5. WaitsForDialog'
  BY <1>1 DEF Kept, WaitsForDialog
<1>6. OneRunPerConfirmation'
  <2>1. /\ \A p \in posts' : SameConfirmed(p, dialog)'
        /\ \A e \in effects' : SameConfirmed(e, dialog)'
    BY <1>1, <1>2, <1>3 DEF SameConfirmed
  <2>2. /\ \A p, q \in posts' : SameConfirmed(p, q)
        /\ \A p \in posts', e \in effects' : SameConfirmed(p, e)
    BY <1>1 DEF Kept, OneRunPerConfirmation
  <2> QED
    BY <2>1, <2>2 DEF OneRunPerConfirmation, SameConfirmed
<1>7. /\ PostsAsConfirmed' /\ EffectsRecorded'
      /\ OneSuccessorPerConfirmation' /\ CommandReachesConfirmedRun'
  BY <1>1 DEF Kept, PostsAsConfirmed, EffectsRecorded, OneSuccessorPerConfirmation,
              CommandReachesConfirmedRun, NeverRedriven
<1>8. RefusalsAreOthers'
  <2>1. Refused' = Refused /\ Refused # Unprocessed
    BY <1>1 DEF Refused, Unprocessed, Reply
  <2> QED
    BY <1>1, <1>2, <2>1 DEF Kept, RefusalsAreOthers, RedrivenByAnother, NeverRedriven
<1>9. NothingDone'
  BY <1>1, <1>2 DEF Kept, NothingDone, Without, Unprocessed, Ambiguous, Silence
<1> QED
  BY <1>4, <1>5, <1>6, <1>7, <1>8, <1>9 DEF Kept

LEMMA DismissDialogKeepsKept ==
    ASSUME IInv, Kept, DismissDialog
    PROVE  Kept'
<1>1. /\ Asking /\ ~dialog.posting /\ ~Asking'
      /\ UNCHANGED <<screen, flow, engine>> /\ posts' = posts
  BY DEF Kept, DismissDialog, Asking, NoDialog, view
<1>2. WaitsForDialog'
  BY <1>1 DEF Kept, WaitsForDialog
<1> QED
  BY <1>1, <1>2, DialogStepKeepsKept

LEMMA ConfirmKeepsKept ==
    ASSUME IInv, Kept, Confirm
    PROVE  Kept'
<1> DEFINE new == [id |-> counts.posts + 1, confirmation |-> dialog.confirmation,
                   command |-> dialog.command, confirmed |-> dialog.run, run |-> CommandEndpoint,
                   request |-> RequestId, waiting |-> TRUE, answer |-> Unprocessed]
<1>1. /\ Asking /\ ~dialog.posting /\ dialog \in DialogType
      /\ UNCHANGED <<screen, flow, engine>> /\ posts' = posts \cup {new}
      /\ dialog.run = flow.run
  BY DEF IInv, TypeOK, Kept, DialogOfFlow, Confirm, Asking, NoDialog, view
<1>2. /\ dialog'.confirmation = dialog.confirmation
      /\ dialog'.command = dialog.command /\ dialog'.run = dialog.run
      /\ dialog'.posting = TRUE /\ dialog'.verdict = "none" /\ dialog'.cause = dialog.cause
      /\ dialog'.post = counts.posts + 1
      /\ Asking'
  <2>1. dialog' = [dialog EXCEPT !.posting = TRUE, !.verdict = "none", !.post = counts.posts + 1]
    BY DEF Confirm
  <2>2. dialog' # NoDialog
    BY <1>1, <2>1 DEF DialogType, NoDialog
  <2> QED
    BY <1>1, <2>1, <2>2 DEF DialogType, Asking, NoDialog
<1>3. /\ new.id = counts.posts + 1 /\ new.confirmation = dialog.confirmation
      /\ new.command = dialog.command /\ new.confirmed = dialog.run /\ new.run = dialog.run
      /\ new.answer = Unprocessed
  BY <1>1 DEF CommandEndpoint
<1> HIDE DEF new
<1>4. Without(new.id)
  <2>1. counts.posts \in Nat /\ \A e \in effects : e.post \in Nat /\ e.post <= counts.posts
    BY RunCommandsAssumption DEF IInv, TypeOK, Numbered, EffectType
  <2> QED
    BY <1>3, <2>1 DEF Without
<1>5. WaitsForDialog'
  BY <1>1, <1>2, <1>3 DEF Kept, WaitsForDialog
<1>6. Asking' /\ dialog'.command = "redrive" /\ dialog'.cause = Refused =>
          RedrivenByAnother(dialog)
  BY <1>1, <1>2 DEF Kept, RefusalsAreOthers
<1> QED
  BY <1>1, <1>2, <1>3, <1>4, <1>5, <1>6, DialogStepKeepsKept

\* A failure is shown where it was waited for.
LEMMA FailureKeepsKept ==
    ASSUME IInv, Kept, NEW p \in posts, p.waiting, NEW a \in AnswerType, ShowFailure(p, a),
           UNCHANGED <<view, engine>>,
           \/ posts' = posts \ {p}
           \/ posts' = (posts \ {p}) \cup {[p EXCEPT !.waiting = FALSE]},
           p.command = "redrive" /\ a = Refused => RedrivenByAnother(p),
           ~Ambiguous(a) => Without(p.id) /\ posts' = posts \ {p}
    PROVE  Kept'
<1>1. /\ TypeOK /\ p \in PostType /\ UNCHANGED <<screen, flow, engine>>
      /\ Asking /\ dialog.posting /\ dialog.post = p.id /\ dialog.confirmation = p.confirmation
      /\ DialogOf(p)
  BY DEF IInv, TypeOK, view, Kept, WaitsForDialog, DialogOf, Asking
<1>2. /\ Asking'
      /\ dialog'.confirmation = dialog.confirmation
      /\ dialog'.command = dialog.command
      /\ dialog'.run = dialog.run
      /\ dialog'.post = dialog.post
      /\ dialog'.cause = a
      /\ dialog'.verdict = IF Ambiguous(a) THEN "unknown" ELSE "rejected"
  BY <1>1, FailureShown
<1>3. p.command = dialog.command /\ p.run = dialog.run
  BY <1>1 DEF Kept, OneRunPerConfirmation, SameConfirmed
<1> DEFINE given == [p EXCEPT !.waiting = FALSE]
<1>4. /\ given.id = p.id /\ given.confirmation = p.confirmation
      /\ given.command = p.command /\ given.run = p.run
      /\ given.confirmed = p.confirmed /\ given.answer = p.answer
      /\ ~given.waiting
  BY <1>1 DEF PostType
<1>5. posts' \subseteq (posts \ {p}) \cup {given}
  OBVIOUS
<1> HIDE DEF given
<1>6. \A q \in posts' :
         \E r \in posts : /\ q.id = r.id /\ q.confirmation = r.confirmation
                          /\ q.command = r.command /\ q.run = r.run
                          /\ q.confirmed = r.confirmed /\ q.answer = r.answer
  BY <1>4, <1>5
<1>7. WaitsForDialog'
  <2>1. ASSUME NEW q \in posts', q.waiting
        PROVE  FALSE
    <3>1. q \in posts /\ q # p
      BY <1>4, <1>5, <2>1
    <3>2. q.id = p.id
      BY <1>1, <2>1, <3>1 DEF Kept, WaitsForDialog
    <3> QED
      BY <3>1, <3>2 DEF IInv, Numbered
  <2> QED
    BY <2>1 DEF WaitsForDialog
<1>8. dialog'.command = "redrive" /\ dialog'.cause = Refused => RedrivenByAnother(dialog)
  BY <1>1, <1>2, <1>3 DEF RedrivenByAnother
<1>9. dialog'.verdict = "rejected" =>
          Without(dialog'.post) /\ \A q \in posts' : q.id # dialog'.post
  BY <1>1, <1>2 DEF IInv, Numbered
<1> QED
  BY <1>1, <1>2, <1>6, <1>7, <1>8, <1>9, DialogStepKeepsKept

LEMMA NoAnswerKeepsKept ==
    ASSUME IInv, Kept, NEW p \in posts, NoAnswer(p)
    PROVE  Kept'
<1>1. Silence \in AnswerType /\ Silence # Refused
  BY AnswersTyped
<1>2. Ambiguous(Silence)
  BY DEF Ambiguous, Silence, Reply
<1>3. \/ posts' = posts \ {p}
      \/ posts' = (posts \ {p}) \cup {[p EXCEPT !.waiting = FALSE]}
  BY DEF NoAnswer
<1> QED
  BY <1>1, <1>2, <1>3, FailureKeepsKept DEF NoAnswer

LEMMA AnswerArrivesKeepsKept ==
    ASSUME IInv, Kept, NEW p \in posts, AnswerArrives(p)
    PROVE  Kept'
<1>1. /\ TypeOK /\ p \in PostType /\ p.waiting /\ p.answer # Unprocessed
      /\ posts' = posts \ {p} /\ UNCHANGED engine
      /\ Asking /\ dialog.post = p.id /\ dialog.confirmation = p.confirmation
      /\ DialogOf(p) /\ dialog \in DialogType
  BY DEF IInv, TypeOK, Kept, WaitsForDialog, DialogOf, Asking, AnswerArrives
<1>2. \A q \in posts' : ~q.waiting
  BY <1>1 DEF Kept, WaitsForDialog, IInv, Numbered
<1>3. WaitsForDialog'
  BY <1>2 DEF WaitsForDialog
<1>4. CASE HandleSuccess(p)
  <2>1. ~Asking' /\ flow' = flow
    BY <1>1, <1>4 DEF HandleSuccess, Asking, NoDialog
  <2> QED
    BY <1>1, <1>3, <2>1, DialogStepKeepsKept
<1>5. CASE /\ dialog # NoDialog
           /\ dialog' = [dialog EXCEPT !.posting = @ /\ ~DialogOf(p)]
           /\ UNCHANGED <<view, counts, acknowledged>>
  <2>1. /\ dialog'.confirmation = dialog.confirmation
        /\ dialog'.command = dialog.command /\ dialog'.run = dialog.run
        /\ dialog'.verdict = dialog.verdict /\ dialog'.cause = dialog.cause
        /\ dialog'.post = dialog.post
    BY <1>1, <1>5 DEF DialogType, DialogOf
  <2>2. UNCHANGED <<screen, flow, engine>>
    BY <1>1, <1>5 DEF view
  <2>3. dialog'.command = "redrive" /\ dialog'.cause = Refused => RedrivenByAnother(dialog)
    BY <1>1, <2>1 DEF Kept, RefusalsAreOthers
  <2>4. dialog'.verdict = "rejected" =>
            Without(dialog'.post) /\ \A q \in posts' : q.id # dialog'.post
    BY <1>1, <2>1 DEF Kept, NothingDone
  <2> QED
    BY <1>1, <1>3, <2>1, <2>2, <2>3, <2>4, DialogStepKeepsKept
<1>6. CASE p.answer.status # 200 /\ ShowFailure(p, p.answer) /\ UNCHANGED <<view, counts, acknowledged>>
  <2>1. p.answer \in AnswerType
    BY <1>1 DEF PostType
  <2>2. p.command = "redrive" /\ p.answer = Refused => RedrivenByAnother(p)
    BY DEF Kept, RefusalsAreOthers
  <2>3. ~Ambiguous(p.answer) => Without(p.id)
    BY <1>6 DEF Kept, NothingDone
  <2> QED
    BY <1>1, <1>6, <2>1, <2>2, <2>3, FailureKeepsKept
<1> QED
  BY <1>4, <1>5, <1>6 DEF AnswerArrives

\* What the engine's own steps leave true of refusals.
LEMMA RefusedStaysRefused ==
    ASSUME EngineGrows, NEW x, x.run \in Runs, RedrivenByAnother(x)
    PROVE  RedrivenByAnother(x)'
  BY DEF EngineGrows, RedrivenByAnother, NeverRedriven

\* The server's turn: an effect is new only where the request did nothing yet,
\* and a redrive is refused only where another request redrove the run.
LEMMA ServerStepKeepsKept ==
    ASSUME IInv, Kept, NEW p \in posts, p.answer = Unprocessed,
           NEW a \in AnswerType, Answered(p, a),
           UNCHANGED <<view, dialog, service>>, EngineGrows,
           \/ effects' = effects
           \/ /\ effects' = effects \cup {Effect(p)}
              /\ a.status = 200 \/ Ambiguous(a)
              /\ a # Unprocessed
              /\ p.command = "redrive" =>
                    redriven[p.run] = NeverRedriven /\ redriven'[p.run] # NeverRedriven
                    /\ redriven'[p.run].by = p.request,
           p.command = "redrive" /\ a = Refused =>
              redriven[p.run] # NeverRedriven /\ redriven[p.run].by # p.request
    PROVE  Kept'
<1>1. /\ TypeOK /\ p \in PostType /\ p.run \in Runs /\ p.request = p.confirmation
      /\ screen' = screen /\ flow' = flow /\ dialog' = dialog /\ service' = service
      /\ (Asking => dialog \in DialogType) /\ (Asking' <=> Asking)
      /\ \A e \in effects : e \in EffectType
      /\ "redrive" \in flow.can => flow.run \in Runs
  BY DEF IInv, TypeOK, Numbered, PostType, view, Asking, NoDialog, ScreenOK
<1> DEFINE answered == [p EXCEPT !.answer = a]
<1>2. /\ posts' \subseteq PostType
      /\ \A q \in posts' : (q \in posts /\ q # p) \/ q = answered
  BY AnsweredPosts, <1>1
<1>3. /\ answered.id = p.id /\ answered.confirmation = p.confirmation
      /\ answered.command = p.command /\ answered.run = p.run
      /\ answered.confirmed = p.confirmed /\ answered.waiting = p.waiting
      /\ answered.answer = a
  BY <1>1 DEF PostType
<1> HIDE DEF answered
<1>4. \A e \in effects' : e \in effects \/ (e = Effect(p) /\ e \notin effects)
  OBVIOUS
<1>5. /\ Effect(p).post = p.id /\ Effect(p).confirmation = p.confirmation
      /\ Effect(p).command = p.command /\ Effect(p).run = p.run
      /\ Effect(p).confirmed = p.confirmed
  BY <1>1, EffectTyped
<1>6. DialogOfFlow'
  <2>1. Asking => dialog.run = flow.run /\ screen = "ready"
    BY DEF Kept, DialogOfFlow
  <2>2. Asking => dialog.run \in Runs
    BY <1>1 DEF DialogType
  <2> QED
    BY <1>1, <2>1, <2>2 DEF Kept, DialogOfFlow, EngineGrows
<1>7. WaitsForDialog'
  BY <1>1, <1>2, <1>3 DEF Kept, WaitsForDialog
<1>8. OneRunPerConfirmation'
  <2>1. \A q \in posts' :
           \E r \in posts : q.confirmation = r.confirmation /\ q.command = r.command /\ q.run = r.run
    BY <1>2, <1>3
  <2>2. \A e \in effects' :
           e \in effects \/ (e.confirmation = p.confirmation /\ e.command = p.command /\ e.run = p.run)
    BY <1>4, <1>5
  <2>3. Asking =>
          /\ \A q \in posts' : SameConfirmed(q, dialog)
          /\ \A e \in effects' : SameConfirmed(e, dialog)
    BY <2>1, <2>2 DEF Kept, OneRunPerConfirmation, SameConfirmed
  <2>4. \A q, r \in posts' : SameConfirmed(q, r)
    BY <2>1 DEF Kept, OneRunPerConfirmation, SameConfirmed
  <2>5. \A q \in posts', e \in effects' : SameConfirmed(q, e)
    BY <2>1, <2>2 DEF Kept, OneRunPerConfirmation, SameConfirmed
  <2> QED
    BY <1>1, <2>3, <2>4, <2>5 DEF OneRunPerConfirmation, SameConfirmed
<1>9. PostsAsConfirmed'
  <2>1. \A q \in posts' : \E r \in posts : q.run = r.run /\ q.confirmed = r.confirmed /\ q.command = r.command
    BY <1>2, <1>3
  <2>2. \A q \in posts' : q.run \in Runs
    BY <1>2 DEF PostType
  <2> QED
    BY <2>1, <2>2 DEF Kept, PostsAsConfirmed, EngineGrows
<1>10. EffectsRecorded'
  <2>1. \A e \in effects : e.command = "redrive" =>
            redriven'[e.run] # NeverRedriven /\ redriven'[e.run].by = e.confirmation
    BY <1>1 DEF Kept, EffectsRecorded, EngineGrows, EffectType
  <2>2. ASSUME NEW e \in effects', e \notin effects, e.command = "redrive"
        PROVE  redriven'[e.run] # NeverRedriven /\ redriven'[e.run].by = e.confirmation
    BY <1>1, <1>4, <1>5, <2>2
  <2> QED
    BY <2>1, <2>2 DEF EffectsRecorded, NeverRedriven
<1>11. RefusalsAreOthers'
  <2>1. Refused' = Refused
    BY <1>1 DEF Refused, Reply
  <2>2. ASSUME NEW q \in posts', q.command = "redrive", q.answer = Refused
        PROVE  RedrivenByAnother(q)'
    <3>1. CASE q \in posts
      <4>1. RedrivenByAnother(q) /\ q.run \in Runs
        BY <1>1, <2>2, <3>1 DEF Kept, RefusalsAreOthers, TypeOK, PostType
      <4> QED
        BY <4>1, RefusedStaysRefused
    <3>2. CASE q = answered
      <4>1. RedrivenByAnother(p)
        BY <1>1, <1>3, <2>2, <3>2 DEF RedrivenByAnother
      <4>2. RedrivenByAnother(p)'
        BY <1>1, <4>1, RefusedStaysRefused
      <4> QED
        BY <1>3, <3>2, <4>2 DEF RedrivenByAnother
    <3> QED
      BY <1>2, <3>1, <3>2
  <2>3. ASSUME Asking, dialog.command = "redrive", dialog.cause = Refused
        PROVE  RedrivenByAnother(dialog)'
    <3>1. RedrivenByAnother(dialog) /\ dialog.run \in Runs
      BY <1>1, <2>3 DEF Kept, RefusalsAreOthers, DialogType
    <3> QED
      BY <1>1, <3>1 DEF EngineGrows, RedrivenByAnother, NeverRedriven
  <2> QED
    BY <1>1, <2>1, <2>2, <2>3 DEF RefusalsAreOthers
<1>12. NothingDone'
  <2>1. Without(p.id) /\ \A q \in posts : q.id = p.id => q = p
    BY <1>1 DEF Kept, NothingDone, IInv, Numbered
  <2>2. \A n : n # p.id /\ Without(n) => Without(n)'
    BY <1>4, <1>5 DEF Without
  <2>3. ASSUME NEW q \in posts',
               q.answer = Unprocessed \/ (q.answer.status # 200 /\ ~Ambiguous(q.answer))
        PROVE  Without(q.id)'
    <3>1. CASE q \in posts /\ q # p
      BY <2>1, <2>2, <2>3, <3>1 DEF Kept, NothingDone
    <3>2. CASE q = answered
      <4>1. effects' = effects
        BY <1>3, <2>3, <3>2
      <4> QED
        BY <1>3, <2>1, <3>2, <4>1 DEF Without
    <3> QED
      BY <1>2, <3>1, <3>2
  <2>4. ASSUME Asking, dialog.verdict = "rejected"
        PROVE  Without(dialog.post)' /\ \A q \in posts' : q.id # dialog.post
    <3>1. Without(dialog.post) /\ \A q \in posts : q.id # dialog.post
      BY <2>4 DEF Kept, NothingDone
    <3>2. dialog.post # p.id
      BY <3>1
    <3>3. Without(dialog.post)'
      BY <1>1, <1>4, <1>5, <3>1, <3>2 DEF Without
    <3> QED
      BY <1>2, <1>3, <3>1, <3>3
  <2> QED
    BY <1>1, <2>3, <2>4 DEF NothingDone, Without, Unprocessed, Ambiguous, Silence
<1>13. OneSuccessorPerConfirmation'
  <2>1. ASSUME NEW e \in effects, e.command = "redrive", p.command = "redrive",
               e.confirmation = p.confirmation, Effect(p) \notin effects, Effect(p) \in effects'
        PROVE  FALSE
    <3>1. e.run = p.run
      BY <2>1 DEF Kept, OneRunPerConfirmation, SameConfirmed
    <3>2. redriven[p.run] # NeverRedriven
      BY <2>1, <3>1 DEF Kept, EffectsRecorded
    <3> QED
      BY <2>1, <3>2
  <2> QED
    BY <1>4, <1>5, <2>1 DEF Kept, OneSuccessorPerConfirmation
<1>14. CommandReachesConfirmedRun'
  BY <1>4, <1>5 DEF Kept, CommandReachesConfirmedRun, PostsAsConfirmed
<1> QED
  BY <1>6, <1>7, <1>8, <1>9, <1>10, <1>11, <1>12, <1>13, <1>14 DEF Kept

\* What the engine answers, told apart.
LEMMA AnswersApart ==
    /\ \A r : Accepted(r).status = 200
    /\ Ambiguous(Unreachable)
    /\ Refused \notin {Forbidden, Unsupported, Misconfigured, Unreachable}
    /\ \A r : Accepted(r) # Refused /\ Accepted(r) # Unprocessed
    /\ Unreachable # Unprocessed
<1>1. \A r : Accepted(r).status = 200
  BY DEF Accepted, Reply
<1>2. Ambiguous(Unreachable)
  <2>1. Unreachable.status = 502 /\ Unreachable.error \in {"transport", "none"}
    BY DEF Unreachable, Reply
  <2> QED
    BY <2>1 DEF Ambiguous
<1>3. Refused.status = 409 /\ Unprocessed.status = 1
  BY AnswersTyped
<1> QED
  BY <1>1, <1>2, <1>3, AnswersTyped

LEMMA RedriveKeepsKept ==
    ASSUME IInv, Kept, NEW p \in posts, p.answer = Unprocessed, Redrive(p),
           UNCHANGED <<view, dialog>>
    PROVE  Kept'
<1>1. /\ TypeOK /\ SuccessorsExist /\ p \in PostType
      /\ p.run \in Runs /\ p.request \in Int /\ p.command = "redrive"
      /\ status[p.run] = "failed"
  BY DEF IInv, TypeOK, Redrive, PostType, Kept, PostsAsConfirmed
<1>2. CASE /\ redriven[p.run] = NeverRedriven
           /\ \E s \in Runs, a \in {Accepted(r) : r \in Runs} \cup {Unreachable} :
                 /\ ~Exists(s) /\ InstanceOf[s] = InstanceOf[p.run]
                 /\ a \in Replies(Accepted(s))
                 /\ Answered(p, a)
                 /\ status' = [status EXCEPT ![s] = "running"]
                 /\ redriven' = [redriven EXCEPT ![p.run] = [by |-> p.request, run |-> s]]
           /\ effects' = effects \cup {Effect(p)}
           /\ UNCHANGED service
  <2>1. PICK s \in Runs, a \in {Accepted(r) : r \in Runs} \cup {Unreachable} :
           /\ ~Exists(s)
           /\ Answered(p, a)
           /\ status' = [status EXCEPT ![s] = "running"]
           /\ redriven' = [redriven EXCEPT ![p.run] = [by |-> p.request, run |-> s]]
    BY <1>2
  <2>2. /\ EngineGrows
        /\ redriven'[p.run] = [by |-> p.request, run |-> s]
        /\ redriven'[p.run] # NeverRedriven
    BY <1>1, <1>2, <2>1, RedrivenGrows
  <2>3. /\ a \in AnswerType /\ (a.status = 200 \/ Ambiguous(a))
        /\ a # Refused /\ a # Unprocessed
    BY <2>1, AnswersTyped, AnswersApart
  <2> QED
    BY <1>1, <1>2, <2>1, <2>2, <2>3, ServerStepKeepsKept
<1>3. CASE /\ redriven[p.run] # NeverRedriven
           /\ \E a \in Replies(Accepted(redriven[p.run].run))
                         \cup (IF redriven[p.run].by = p.request THEN {} ELSE {Refused}) :
                 Answered(p, a)
           /\ UNCHANGED engine
  <2>1. redriven[p.run].run \in Runs
    BY <1>1, <1>3 DEF SuccessorsExist
  <2>2. PICK a \in {Accepted(redriven[p.run].run), Unreachable}
                      \cup (IF redriven[p.run].by = p.request THEN {} ELSE {Refused}) :
           Answered(p, a)
    BY <1>3 DEF Replies
  <2>3. a \in AnswerType
    BY <2>1, <2>2, AnswersTyped
  <2>4. a = Refused => redriven[p.run].by # p.request
    BY <2>2, AnswersApart
  <2>5. EngineGrows /\ service' = service /\ effects' = effects
    BY <1>3, EngineKept DEF engine
  <2> QED
    BY <1>1, <1>3, <2>2, <2>3, <2>4, <2>5, ServerStepKeepsKept
<1> QED
  BY <1>1, <1>2, <1>3 DEF Redrive

LEMMA CancelKeepsKept ==
    ASSUME IInv, Kept, NEW p \in posts, p.answer = Unprocessed, Cancel(p),
           UNCHANGED <<view, dialog>>
    PROVE  Kept'
<1>1. TypeOK /\ p \in PostType /\ p.run \in Runs /\ p.command = "cancel"
  BY DEF IInv, TypeOK, Cancel, PostType
<1>2. CASE status[p.run] = "running"
  <2>1. /\ status' = [status EXCEPT ![p.run] = "closed"]
        /\ effects' = effects \cup {Effect(p)}
        /\ service' = service /\ redriven' = redriven
        /\ \E a \in Replies(Accepted(NoRun)) : Answered(p, a)
    BY <1>2 DEF Cancel
  <2>2. PICK a \in {Accepted(NoRun), Unreachable} : Answered(p, a)
    BY <2>1 DEF Replies
  <2>3. /\ a \in AnswerType /\ (a.status = 200 \/ Ambiguous(a))
        /\ a # Unprocessed
    BY <2>2, AnswersTyped, AnswersApart
  <2>4. \A s \in Runs :
            /\ Exists(s) => Exists(s)'
            /\ status[s] \in {"failed", "closed"} => status'[s] = status[s]
    BY <1>1, <1>2, <2>1, StatusGrows
  <2>5. EngineGrows
    BY <2>1, <2>4 DEF EngineGrows
  <2> QED
    BY <1>1, <2>1, <2>2, <2>3, <2>5, ServerStepKeepsKept
<1>3. CASE status[p.run] # "running"
  <2>1. UNCHANGED engine /\ \E a \in Replies(Refused) : Answered(p, a)
    BY <1>3 DEF Cancel
  <2>2. PICK a \in {Refused, Unreachable} : Answered(p, a)
    BY <2>1 DEF Replies
  <2>3. a \in AnswerType
    BY <2>2, AnswersTyped
  <2>4. EngineGrows /\ service' = service /\ effects' = effects
    BY <2>1, EngineKept DEF engine
  <2> QED
    BY <1>1, <2>2, <2>3, <2>4, ServerStepKeepsKept
<1> QED
  BY <1>2, <1>3

LEMMA StoppedBeforeKeepsKept ==
    ASSUME IInv, Kept, NEW p \in posts, p.answer = Unprocessed, StoppedBefore(p),
           UNCHANGED <<view, dialog>>
    PROVE  Kept'
<1>1. PICK a \in {Forbidden, Unsupported, Misconfigured, Unreachable} : Answered(p, a)
  BY DEF StoppedBefore
<1>2. a \in AnswerType /\ a # Refused
  BY <1>1, AnswersTyped, AnswersApart
<1>3. EngineGrows /\ service' = service /\ effects' = effects
  BY EngineKept DEF engine, StoppedBefore
<1> QED
  BY <1>1, <1>2, <1>3, ServerStepKeepsKept

\* The engine's own steps undo nothing that was done.
LEMMA EngineStepKeepsKept ==
    ASSUME IInv, Kept, EngineGrows,
           UNCHANGED <<view, dialog, posts, service, effects>>
    PROVE  Kept'
<1>1. /\ TypeOK /\ screen' = screen /\ flow' = flow /\ dialog' = dialog /\ service' = service
      /\ posts' = posts /\ effects' = effects
      /\ (Asking' <=> Asking) /\ (Asking => dialog \in DialogType /\ dialog.run \in Runs)
      /\ \A p \in posts : p.run \in Runs
      /\ \A e \in effects : e.run \in Runs
      /\ "redrive" \in flow.can => flow.run \in Runs
  BY DEF IInv, TypeOK, PostType, EffectType, DialogType, view, Asking, NoDialog, ScreenOK
<1>2. DialogOfFlow' /\ PostsAsConfirmed'
  BY <1>1 DEF Kept, DialogOfFlow, PostsAsConfirmed, EngineGrows
<1>3. WaitsForDialog' /\ OneRunPerConfirmation' /\ OneSuccessorPerConfirmation'
      /\ CommandReachesConfirmedRun'
  BY <1>1 DEF Kept, WaitsForDialog, OneRunPerConfirmation, SameConfirmed,
              OneSuccessorPerConfirmation, CommandReachesConfirmedRun
<1>4. EffectsRecorded'
  BY <1>1 DEF Kept, EffectsRecorded, EngineGrows, NeverRedriven
<1>5. RefusalsAreOthers'
  <2>1. Refused' = Refused
    BY <1>1 DEF Refused, Reply
  <2>2. \A p \in posts : p.command = "redrive" /\ p.answer = Refused => RedrivenByAnother(p)'
    BY <1>1, RefusedStaysRefused DEF Kept, RefusalsAreOthers
  <2>3. Asking /\ dialog.command = "redrive" /\ dialog.cause = Refused =>
            RedrivenByAnother(dialog)'
    BY <1>1 DEF Kept, RefusalsAreOthers, RedrivenByAnother, EngineGrows, NeverRedriven
  <2> QED
    BY <1>1, <2>1, <2>2, <2>3 DEF RefusalsAreOthers
<1>6. NothingDone'
  BY <1>1 DEF Kept, NothingDone, Without, Unprocessed, Ambiguous, Silence
<1> QED
  BY <1>2, <1>3, <1>4, <1>5, <1>6 DEF Kept

LEMMA RunFailsKeepsKept ==
    ASSUME IInv, Kept, NEW r \in Runs, RunFails(r)
    PROVE  Kept'
<1>1. \A s \in Runs :
          /\ Exists(s) => Exists(s)'
          /\ status[s] \in {"failed", "closed"} => status'[s] = status[s]
  BY StatusGrows DEF IInv, RunFails
<1>2. EngineGrows
  BY <1>1 DEF EngineGrows, RunFails
<1> QED
  BY <1>2, EngineStepKeepsKept DEF RunFails

LEMMA RedrivenElsewhereKeepsKept ==
    ASSUME IInv, Kept, NEW r \in Runs, NEW s \in Runs, RedrivenElsewhere(r, s)
    PROVE  Kept'
<1>1. -1 \in Int
  OBVIOUS
<1>2. EngineGrows
  BY <1>1, RedrivenGrows DEF IInv, RedrivenElsewhere
<1> QED
  BY <1>2, EngineStepKeepsKept DEF RedrivenElsewhere

LEMMA StepKeepsKept ==
    ASSUME IInv, Kept, [Next]_vars
    PROVE  Kept'
<1>1. CASE Operator
  BY <1>1, ReadsKeepKept, OpenDialogKeepsKept, DismissDialogKeepsKept, ConfirmKeepsKept
     DEF Operator
<1>2. CASE FlowAnswered \/ FlowFailed
  BY <1>2, ReadsKeepKept
<1>3. ASSUME NEW p \in posts, AnswerArrives(p) \/ NoAnswer(p) \/ ServerProcesses(p)
      PROVE  Kept'
  BY <1>3, AnswerArrivesKeepsKept, NoAnswerKeepsKept, RedriveKeepsKept, CancelKeepsKept,
     StoppedBeforeKeepsKept DEF ServerProcesses
<1>4. CASE \E r \in Runs : RunFails(r)
  BY <1>4, RunFailsKeepsKept
<1>5. CASE \E r, s \in Runs : RedrivenElsewhere(r, s)
  BY <1>5, RedrivenElsewhereKeepsKept
<1>6. CASE UNCHANGED vars
  <2>1. EngineGrows
    BY <1>6, EngineKept DEF vars
  <2> QED
    BY <1>6, <2>1, EngineStepKeepsKept DEF vars, engine
<1> QED
  BY <1>1, <1>2, <1>3, <1>4, <1>5, <1>6 DEF Next

LEMMA InitKept == ~LeavesDialog /\ Init => Kept
<1> SUFFICES ASSUME ~LeavesDialog, Init
             PROVE  Kept
  OBVIOUS
<1>1. ~Asking /\ posts = {} /\ effects = {} /\ flow.can = {}
  BY DEF Init, NoFlow, Asking
<1> QED
  BY <1>1 DEF Kept, DialogOfFlow, WaitsForDialog, OneRunPerConfirmation, PostsAsConfirmed,
              EffectsRecorded, RefusalsAreOthers, NothingDone, OneSuccessorPerConfirmation,
              CommandReachesConfirmedRun

\* What a confirmation stands for is kept, as long as no dialog is left behind.
THEOREM KeptInvariance == ~LeavesDialog /\ SafeSpec => []Kept
<1>1. IInv /\ Kept /\ [Next]_vars => Kept'
  BY StepKeepsKept
<1> QED
  BY InitKept, Invariance, <1>1, PTL DEF SafeSpec

\* A dialog that says a command was rejected speaks of a request that changed
\* nothing and never will (ambiguousCommandError).
THEOREM RejectedIsNotDone == ~LeavesDialog /\ SafeSpec => []RejectedMeansNotDone
<1>1. Kept => RejectedMeansNotDone
  BY DEF Kept, NothingDone, Without, RejectedMeansNotDone
<1> QED
  BY KeptInvariance, <1>1, PTL

\* The requests of a confirmation act on the run that was confirmed, and a
\* redrive that took effect is not refused to its own dialog (newRequestId once
\* per dialog, commandEndpoint's run behind the dialog).
THEOREM ConfirmationKept == ~LeavesDialog /\ SafeSpec => []ConfirmationIsKept
<1>1. Kept => CommandReachesConfirmedRun
  BY DEF Kept
<1>2. Kept => RetryFindsSuccessor
  <2> SUFFICES ASSUME Kept, Asking, dialog.command = "redrive", dialog.cause = Refused,
                      NEW e \in effects, e.confirmation = dialog.confirmation
               PROVE  FALSE
    BY DEF RetryFindsSuccessor
  <2>1. e.command = "redrive" /\ e.run = dialog.run
    BY DEF Kept, OneRunPerConfirmation, SameConfirmed
  <2>2. redriven[e.run].by = e.confirmation
    BY <2>1 DEF Kept, EffectsRecorded
  <2>3. redriven[dialog.run].by # dialog.confirmation
    BY DEF Kept, RefusalsAreOthers, RedrivenByAnother
  <2> QED
    BY <2>1, <2>2, <2>3
<1>3. Kept => ConfirmationIsKept
  BY <1>1, <1>2 DEF ConfirmationIsKept
<1> QED
  BY KeptInvariance, <1>3, PTL

\* Retries, late answers and repeated requests of one dialog start one successor
\* between them (the engine's request id is the dialog's).
THEOREM OneSuccessor == ~LeavesDialog /\ SafeSpec => []OneSuccessorPerConfirmation
<1>1. Kept => OneSuccessorPerConfirmation
  BY DEF Kept
<1> QED
  BY KeptInvariance, <1>1, PTL

\* An accepted redrive takes the screen to the run that succeeds the one it was
\* posted for, whatever run is on display when its answer comes, and under the
\* successor's workflow unless that is another workflow's run
\* (handleCommandSuccess).  Dialogs may have been left behind.
THEOREM OpensSuccessor == SafeSpec => RedriveOpensSuccessor
<1> DEFINE Opens ==
       \A p \in acknowledged' \ acknowledged :
           p.command = "redrive" => OpensSuccessorOf(p)
<1>1. ASSUME IInv, [Next]_vars
      PROVE  [Opens]_vars
  <2> SUFFICES ASSUME NEW p \in acknowledged' \ acknowledged, p.command = "redrive"
               PROVE  OpensSuccessorOf(p)
    OBVIOUS
  <2>1. p \in posts /\ AnswerArrives(p) /\ HandleSuccess(p) /\ p.answer.status = 200
    <3>1. PICK q \in posts : AnswerArrives(q) /\ HandleSuccess(q) /\ q.answer.status = 200
      BY <1>1 DEF Next, Operator, Navigate, LoadCompleteDetails, OpenDialog, DismissDialog,
         Confirm, FlowAnswered, FlowFailed, AnswerArrives, NoAnswer, ServerProcesses, RunFails,
         RedrivenElsewhere, vars
    <3>2. acknowledged' = acknowledged \cup {q}
      BY <3>1 DEF HandleSuccess
    <3> QED
      BY <3>1, <3>2
  <2>2. /\ redriven[p.run] # NeverRedriven /\ redriven[p.run].run = p.answer.run
        /\ p.run \in Runs
    BY <1>1, <2>1 DEF IInv, TypeOK, PostType, AcceptedIsDone, Done
  <2>3. p.answer.run \in Runs
    BY <1>1, <2>2 DEF IInv, SuccessorsExist
  <2>4. route' = [instance |-> InstanceOf[flow.run], run |-> p.answer.run, complete |-> FALSE]
    BY <2>1, <2>3, RunCommandsAssumption DEF HandleSuccess
  <2> QED
    BY <2>2, <2>4 DEF OpensSuccessorOf
<1>2. IInv /\ [Next]_vars => [Opens]_vars
  BY <1>1
<1>3. SafeSpec => [][Opens]_vars
  <2> HIDE DEF Opens
  <2> QED
    BY Invariance, <1>2, PTL DEF SafeSpec
<1> QED
  BY <1>3 DEF RedriveOpensSuccessor
-----------------------------------------------------------------------------
(***************************************************************************)
(* Activity results, and the one popup.                                    *)
(***************************************************************************)

\* A popup is a record, whatever else it has.
IsPopup(p) == {"kind", "message"} \subseteq DOMAIN p /\ p = [f \in DOMAIN p |-> p[f]]

\* The popup shows a result exactly while the button of the result waits for
\* it to be closed.
MessagesInv ==
    /\ IsPopup(popup)
    /\ inspection.step \in {"none", "reading", "told"}
    /\ inspection.step = "none" <=> inspection = NoInspection
    /\ inspection.step = "told" <=> popup.kind = "activity"

\* The parts of a popup that change under it leave its kind.
LEMMA PopupChanges ==
    ASSUME IsPopup(popup), NEW field \in STRING, field # "kind", NEW value
    PROVE  /\ IsPopup([popup EXCEPT ![field] = value])
           /\ [popup EXCEPT ![field] = value].kind = popup.kind
  BY DEF IsPopup

LEMMA PopsKeeps ==
    ASSUME MessagesInv, NEW next, Pops(next), IsPopup(next), next.kind # "activity"
    PROVE  MessagesInv'
  BY DEF Pops, NoInspection, MessagesInv

\* Steps in the popup that is open.
LEMMA PopupStepKeeps ==
    ASSUME MessagesInv, UNCHANGED inspection, IsPopup(popup'), popup'.kind = popup.kind
    PROVE  MessagesInv'
  BY DEF MessagesInv

LEMMA PromptKeeps ==
    ASSUME MessagesInv,
           \/ \E m \in Messages : OpenPrompt(m)
           \/ \E n \in Names : ChooseTarget(n)
           \/ RefuseArguments \/ ConfirmPrompt
    PROVE  MessagesInv' /\ popup'.kind # "activity"
<1>1. ASSUME NEW m \in Messages, OpenPrompt(m)
      PROVE  MessagesInv' /\ popup'.kind # "activity"
  <2>1. /\ popup = NoPopup /\ UNCHANGED inspection
        /\ \E id, sends, options, target, arguments :
              popup' = [kind |-> "prompt", id |-> id, sends |-> sends, options |-> options,
                        target |-> target, arguments |-> arguments, waits |-> FALSE,
                        message |-> FALSE]
    BY <1>1 DEF OpenPrompt
  <2>2. IsPopup(popup') /\ popup'.kind = "prompt"
    BY <2>1 DEF IsPopup
  <2> QED
    BY <2>1, <2>2 DEF NoPopup, MessagesInv
<1>2. ASSUME NEW n \in Names, ChooseTarget(n)
      PROVE  MessagesInv' /\ popup'.kind # "activity"
  <2> DEFINE chosen == [popup EXCEPT !.target = n]
             arguments == DefaultArguments(popup.sends, n)
  <2>1. popup.kind = "prompt" /\ UNCHANGED inspection /\ IsPopup(popup)
        /\ popup' = [popup EXCEPT !.target = n, !.arguments = arguments]
    BY <1>2 DEF ChooseTarget, Prompting, MessagesInv
  <2> HIDE DEF arguments
  <2>2. IsPopup(popup') /\ popup'.kind = popup.kind
    BY <2>1 DEF IsPopup
  <2> QED
    BY <2>1, <2>2, PopupStepKeeps
<1>3. CASE RefuseArguments
  <2>1. popup.kind = "prompt" /\ UNCHANGED inspection /\ IsPopup(popup)
        /\ popup' = [popup EXCEPT !.message = TRUE]
    BY <1>3 DEF RefuseArguments, Prompting, MessagesInv
  <2>2. IsPopup(popup') /\ popup'.kind = popup.kind
    BY <2>1 DEF IsPopup
  <2> QED
    BY <2>1, <2>2, PopupStepKeeps
<1>4. CASE ConfirmPrompt
  <2>1. popup.kind = "prompt" /\ UNCHANGED inspection /\ IsPopup(popup)
        /\ popup' = [popup EXCEPT !.waits = TRUE, !.message = FALSE]
    BY <1>4 DEF ConfirmPrompt, Prompting, MessagesInv
  <2>2. IsPopup(popup') /\ popup'.kind = popup.kind
    BY <2>1 DEF IsPopup
  <2> QED
    BY <2>1, <2>2, PopupStepKeeps
<1> QED
  BY <1>1, <1>2, <1>3, <1>4

LEMMA AnsweredKeeps ==
    ASSUME MessagesInv, NEW p \in sent, MessageAccepted(p) \/ MessageFails(p)
    PROVE  MessagesInv' /\ (popup'.kind = "activity" => popup.kind = "activity")
<1>1. ASSUME UNCHANGED inspection,
             \/ popup' = popup
             \/ popup' = [popup EXCEPT !.waits = FALSE]
             \/ popup' = [popup EXCEPT !.message = TRUE]
             \/ popup' = [popup EXCEPT !.waits = FALSE, !.message = TRUE]
      PROVE  MessagesInv' /\ popup'.kind = popup.kind
  <2>1. IsPopup(popup') /\ popup'.kind = popup.kind
    BY <1>1 DEF MessagesInv, IsPopup
  <2> QED
    BY <1>1, <2>1, PopupStepKeeps
<1>2. ASSUME NEW next, Pops(next), IsPopup(next), next.kind # "activity"
      PROVE  MessagesInv' /\ popup'.kind # "activity"
  BY <1>2, PopsKeeps DEF Pops
<1>3. CASE MessageFails(p)
  BY <1>1, <1>3 DEF MessageFails
<1>4. CASE MessageAccepted(p)
  <2>1. IsPopup(NoPopup) /\ NoPopup.kind # "activity"
    BY DEF IsPopup, NoPopup
  <2>2. /\ IsPopup([kind |-> "query", run |-> p.run, message |-> FALSE])
        /\ [kind |-> "query", run |-> p.run, message |-> FALSE].kind # "activity"
    BY DEF IsPopup
  <2>3. \/ /\ UNCHANGED inspection
           /\ popup' = popup \/ popup' = [popup EXCEPT !.waits = FALSE]
        \/ Pops(NoPopup)
        \/ Pops([kind |-> "query", run |-> p.run, message |-> FALSE])
    BY <1>4 DEF MessageAccepted
  <2> QED
    BY <1>1, <1>2, <2>1, <2>2, <2>3
<1> QED
  BY <1>3, <1>4

LEMMA ResultKeeps ==
    ASSUME MessagesInv, ResultAnswered
    PROVE  MessagesInv' /\ (popup'.kind = "activity" => popup'.run = shown')
<1>1. inspection.step = "reading" /\ shown' = shown /\ popup.kind # "activity"
  BY DEF ResultAnswered, MessagesInv
<1>2. CASE StillSelected
  <2>1. /\ popup' = [kind |-> "activity", run |-> inspection.run, message |-> FALSE]
        /\ inspection' = [inspection EXCEPT !.step = "told"]
    BY <1>2 DEF ResultAnswered
  <2> QED
    BY <1>1, <1>2, <2>1 DEF StillSelected, MessagesInv, IsPopup, NoInspection
<1>3. CASE ~StillSelected
  BY <1>1, <1>3 DEF ResultAnswered, MessagesInv, NoInspection
<1> QED
  BY <1>2, <1>3

ShowsResult ==
    popup'.kind = "activity" /\ popup' # popup /\ popup.kind # "activity" => popup'.run = shown'

LEMMA MessagesNextKeeps ==
    ASSUME MessagesInv, [MessagesNext]_messagesVars
    PROVE  MessagesInv' /\ ShowsResult
<1>1. CASE \/ \E m \in Messages : OpenPrompt(m)
           \/ \E n \in Names : ChooseTarget(n)
           \/ RefuseArguments \/ ConfirmPrompt
  BY <1>1, PromptKeeps DEF ShowsResult
<1>2. CASE ClosePopup
  <2>1. IsPopup(NoPopup) /\ NoPopup.kind # "activity"
    BY DEF IsPopup, NoPopup
  <2> QED
    BY <1>2, <2>1, PopsKeeps DEF ClosePopup, Pops, ShowsResult
<1>3. CASE \E p \in sent : MessageAccepted(p) \/ MessageFails(p)
  BY <1>3, AnsweredKeeps DEF ShowsResult
<1>4. ASSUME NEW a \in Activities, InspectActivityResult(a)
      PROVE  MessagesInv' /\ ShowsResult
  BY <1>4 DEF InspectActivityResult, NoPopup, NoInspection, MessagesInv, ShowsResult
<1>5. CASE ResultAnswered
  BY <1>5, ResultKeeps DEF ShowsResult
<1>6. CASE \E r \in ShownRuns : Leave(r)
  BY <1>6 DEF Leave, MessagesInv, ShowsResult
<1>7. CASE RunRead
  <2>1. /\ IsPopup([kind |-> "accepted", message |-> FALSE])
        /\ [kind |-> "accepted", message |-> FALSE].kind # "activity"
    BY DEF IsPopup
  <2>2. \/ Pops([kind |-> "accepted", message |-> FALSE])
        \/ UNCHANGED <<popup, inspection>>
    BY <1>7 DEF RunRead
  <2>3. CASE Pops([kind |-> "accepted", message |-> FALSE])
    BY <2>1, <2>3, PopsKeeps DEF Pops, ShowsResult
  <2>4. CASE UNCHANGED <<popup, inspection>>
    BY <2>4 DEF MessagesInv, ShowsResult
  <2> QED
    BY <2>2, <2>3, <2>4
<1>8. CASE UNCHANGED messagesVars
  BY <1>8 DEF messagesVars, MessagesInv, ShowsResult
<1> QED
  BY <1>1, <1>2, <1>3, <1>4, <1>5, <1>6, <1>7, <1>8 DEF MessagesNext

\* The button of a result waits for the popup only while the popup shows a
\* result: no dialog that took its place keeps it disabled (inspectActivityResult).
THEOREM MessagesInvariance == MessagesSafeSpec => []MessagesInv
<1>1. MessagesInit => MessagesInv
  BY DEF MessagesInit, NoPopup, NoInspection, MessagesInv, IsPopup
<1> QED
  BY <1>1, MessagesNextKeeps, PTL DEF MessagesSafeSpec

\* A result comes up over the run it is of, whatever was opened and read since
\* it was asked for (inspectActivityResult).
THEOREM ResultFitsRun == MessagesSafeSpec => ResultOfShownRun
<1>1. MessagesInv /\ [MessagesNext]_messagesVars => [ShowsResult]_messagesVars
  BY MessagesNextKeeps
<1>2. MessagesSafeSpec => [][ShowsResult]_messagesVars
  BY <1>1, MessagesInvariance, PTL DEF MessagesSafeSpec
<1> QED
  BY <1>2 DEF ShowsResult, ResultOfShownRun
=============================================================================
