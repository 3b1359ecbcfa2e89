-------------------------------- MODULE Wizard --------------------------------
(***************************************************************************)
(* The machine creation wizard: opening it, walking its steps, editing the *)
(* draft through step views and dialogs, validating an interface, checking *)
(* and starting a deployment, and watching the deployment.  Each step         *)
(* view works on a copy of a part of the draft, keys commit the copy, and  *)
(* background work answers through the application's event queue.          *)
(*                                                                         *)
(* The draft keeps the choices the properties tell apart: the source, the  *)
(* URL of a pull, the target name, the network mode, the three lists edited *)
(* through dialogs (a listed user has Wayland access), PrivateUsers=managed, *)
(* the X11 projection, the password and the accepted tar URL.              *)
(***************************************************************************)
EXTENDS Integers, Sequences, FiniteSets

CONSTANTS Urls,        \* URLs typed for a pull
          TypedNames,       \* machine names typed
          Entries,     \* names of the machines the wizard was opened with
          Images,      \* names of the images it was opened with
          Bridges,     \* host bridges offered by the network step
          MaxWizards,  \* bound: wizards opened
          MaxQueries,  \* bound: background questions one wizard asks
          MaxEdits     \* bound: edits of the draft

ASSUME WizardAssumption == MaxWizards \in Nat /\ MaxQueries \in Nat /\ MaxEdits \in Nat

VARIABLES opening,     \* the instance being opened, 0 for none
          current,     \* the instance shown, 0 for none
          nextInstance,
          wizard,      \* the state of the shown instance
          modal,       \* the dialog above it
          tasks,       \* background work in flight
          outcomes,    \* the application's event queue
          deployment,  \* the deployment job of the shown instance
          edits,
          typed,       \* the password last typed
          accepted,    \* URLs whose tar risk the user accepted
          started      \* the submission last handed to the service

wizardVars == <<opening, current, nextInstance, wizard, modal, tasks, outcomes,
                deployment, edits, typed, accepted, started>>

Taken == Entries \cup Images
Sources == {"copy", "oci", "tree", "tar", "raw"}
Modes == {"host", "veth"} \cup Bridges
NoUrl == "no url"
NoRequest == [source |-> "none"]
NoSubmission == [id |-> 0]
NoView == [of |-> "none"]
NoModal == [kind |-> "none"]
NoJob == [state |-> "none", cancel |-> FALSE]

\* Lists edited through a dialog, by the step that shows them.
Lists == [User |-> "users", Network |-> "ports", BindMounts |-> "binds"]
ListSteps == DOMAIN Lists

Supports(d) == d.source \notin {"copy", "oci"}
StorageManagedExternally(d) == d.source \in {"oci", "raw"}
PrivateNetwork(d) == d.mode # "host"
Forwards(mode) == mode # "host"

ActiveFlow(d) ==
  CASE d.source = "copy" -> <<"Source", "CopySelect", "Basic", "Review", "Deploy">>
    [] d.source = "oci" -> <<"Source", "Basic", "Review", "Deploy">>
    [] OTHER -> <<"Source", "Basic">>
                \o (IF StorageManagedExternally(d) THEN <<>> ELSE <<"Storage">>)
                \o <<"User", "Network", "HostIntegration", "BindMounts", "Review", "Deploy">>

Position(d, step) == CHOOSE i \in 1..Len(ActiveFlow(d)) : ActiveFlow(d)[i] = step
NextStep(d, step) == ActiveFlow(d)[Position(d, step) + 1]
PrevStep(d, step) == IF Position(d, step) = 1 THEN step
                     ELSE ActiveFlow(d)[Position(d, step) - 1]

\* The URL a remote tar is read from; acceptance is bound to it.
RemoteTarUrl(d) == IF d.source = "tar" THEN d.url ELSE NoUrl
UnsafeAccepted_Sticky(d) == RemoteTarUrl(d) # NoUrl /\ d.unsafeFor # NoUrl
UnsafeAccepted(d) == RemoteTarUrl(d) # NoUrl /\ d.unsafeFor = RemoteTarUrl(d)

\* What the draft asks for; copies and OCI images keep only the name.
BuildRequest(d) ==
  IF ~ Supports(d)
  THEN [source |-> d.source, url |-> NoUrl, name |-> d.name, mode |-> "host",
        lists |-> [l \in {"users", "ports", "binds"} |-> FALSE],
        managed |-> FALSE, x11 |-> FALSE, unsafe |-> FALSE]
  ELSE [source |-> d.source,
        url |-> IF d.source \in {"tar", "raw"} THEN d.url ELSE NoUrl,
        name |-> d.name, mode |-> d.mode,
        lists |-> [d.lists EXCEPT !["ports"] = @ /\ Forwards(d.mode)],
        managed |-> d.managed, x11 |-> d.x11, unsafe |-> UnsafeAccepted(d)]

\* The view of a step, built from the draft.
BuildView(step, d) ==
  CASE step = "Review" -> [of |-> step, shown |-> BuildRequest(d)]
    [] step \in ListSteps -> [of |-> step, has |-> BuildRequest(d).lists[Lists[step]]]
    [] OTHER -> [of |-> step]

\* The draft after the view of a list step committed its copy.
Commit(view, d) ==
  IF view.of \in ListSteps
  THEN [d EXCEPT !.lists[Lists[view.of]] =
           IF view.of = "Network" THEN view.has /\ Forwards(d.mode) ELSE view.has]
  ELSE d

NewDraft == [source |-> "tree", url |-> CHOOSE u \in Urls : TRUE,
             name |-> CHOOSE n \in TypedNames : TRUE, mode |-> "host",
             lists |-> [l \in {"users", "ports", "binds"} |-> FALSE],
             managed |-> FALSE, x11 |-> FALSE, password |-> "", unsafeFor |-> NoUrl]

NewWizard == [step |-> "Source", draft |-> NewDraft, view |-> NoView, loading |-> FALSE,
              query |-> 0, interface |-> 0, preflight |-> 0, pending |-> NoRequest,
              validated |-> {}, cancelling |-> FALSE, releasing |-> "no"]

WizardInit ==
  /\ opening = 0 /\ current = 0 /\ nextInstance = 1
  /\ wizard = NewWizard /\ modal = NoModal
  /\ tasks = {} /\ outcomes = <<>> /\ deployment = NoJob
  /\ edits = 0 /\ typed = "" /\ accepted = {} /\ started = NoSubmission

-----------------------------------------------------------------------------
(* Opening and closing *)

BeginWizard ==
  /\ opening = 0 /\ current = 0 /\ nextInstance <= MaxWizards
  /\ opening' = nextInstance /\ nextInstance' = nextInstance + 1
  /\ tasks' = tasks \cup {[what |-> "open", id |-> nextInstance]}
  /\ UNCHANGED <<current, wizard, modal, outcomes, deployment, edits, typed, accepted, started>>

\* Reads die with the wizard; an accepted release finishes on its own.
CloseWizard ==
  /\ opening' = 0 /\ current' = 0 /\ modal' = NoModal
  /\ tasks' = {t \in tasks : t.what = "release"}
  /\ wizard' = NewWizard /\ deployment' = NoJob
  /\ typed' = "" /\ accepted' = {} /\ started' = NoSubmission
  /\ UNCHANGED <<nextInstance, outcomes, edits>>

CancelOpening == opening # 0 /\ CloseWizard

OpeningEnds(o) ==
  IF o.id # opening
  THEN UNCHANGED <<opening, current, wizard, modal, tasks, deployment>>
  ELSE /\ opening' = 0 /\ UNCHANGED deployment
       /\ \/ /\ o.ok
             /\ current' = o.id /\ wizard' = NewWizard
             /\ modal' \in {NoModal, [kind |-> "warning"]}
             /\ tasks' = tasks \cup {[what |-> "hardware", id |-> o.id]}
          \/ ~ o.ok /\ UNCHANGED <<current, wizard, modal, tasks>>

-----------------------------------------------------------------------------
(* Keys of a step.  A key first builds a missing view and, once the view     *)
(* handled it, commits the view's copy to the draft.                         *)

Synced(w) == IF w.view.of = "none" /\ w.step # "Deploy"
             THEN [w EXCEPT !.view = BuildView(w.step, w.draft)]
             ELSE w

AtStep == current # 0 /\ modal = NoModal /\ ~ wizard.loading /\ wizard.step # "Deploy"
Quiet == UNCHANGED <<opening, current, nextInstance, outcomes, deployment, accepted, started>>

\* A field edited in the step that shows it.
EditedField(d, step) ==
  CASE step = "Source" -> {[d EXCEPT !.source = s] : s \in Sources}
                          \cup {[d EXCEPT !.url = u] : u \in Urls}
    [] step = "Basic" -> {[d EXCEPT !.name = n] : n \in TypedNames}
    [] step = "User" -> {[d EXCEPT !.password = "p"]}
    [] step = "Network" -> {[d EXCEPT !.mode = m] : m \in Modes}
    [] step = "HostIntegration" -> {[d EXCEPT !.managed = ~ @], [d EXCEPT !.x11 = ~ @]}
    [] OTHER -> {}

EditField ==
  /\ AtStep /\ edits < MaxEdits
  /\ LET w == Synced(wizard) IN
     \E d \in EditedField(w.draft, w.step) \ {w.draft} :
        /\ wizard' = [w EXCEPT !.draft = Commit(w.view, d)]
        /\ typed' = IF w.step = "User" THEN "p" ELSE typed
  /\ edits' = edits + 1
  /\ Quiet /\ UNCHANGED <<modal, tasks>>

\* The list of a step: a dialog adds an entry, a key removes it.
OpenEntryDialog ==
  /\ AtStep /\ wizard.step \in ListSteps
  /\ LET w == Synced(wizard) IN
     /\ wizard.step = "Network" => Forwards(w.draft.mode)
     /\ wizard' = [w EXCEPT !.draft = Commit(w.view, @)]
  /\ modal' = [kind |-> "entry"]
  /\ Quiet /\ UNCHANGED <<tasks, edits, typed>>

RemoveEntry ==
  /\ AtStep /\ edits < MaxEdits /\ wizard.step \in ListSteps
  /\ LET w == Synced(wizard) IN
     /\ w.view.has /\ (wizard.step = "Network" => Forwards(w.draft.mode))
     /\ LET v == [w.view EXCEPT !.has = FALSE] IN
        wizard' = [w EXCEPT !.view = v, !.draft = Commit(v, @)]
  /\ edits' = edits + 1
  /\ Quiet /\ UNCHANGED <<modal, tasks, typed>>

\* A saved entry reaches only the view: the next key commits it.
SaveEntry ==
  /\ modal.kind = "entry" /\ edits < MaxEdits
  /\ wizard' = [wizard EXCEPT !.view.has = TRUE]
  /\ modal' = NoModal /\ edits' = edits + 1
  /\ Quiet /\ UNCHANGED <<tasks, typed>>

DismissDialog ==
  /\ modal.kind \in {"entry", "warning", "risk"}
  /\ modal' = NoModal
  /\ Quiet /\ UNCHANGED <<wizard, tasks, edits, typed>>

\* The steps' validate; a name that only an image has is refused on submission.
Valid(d, step) ==
  /\ step = "Basic" => d.name \notin Entries
  /\ step = "HostIntegration" /\ d.managed =>
        PrivateNetwork(d) /\ ~ d.lists["users"] /\ ~ d.x11

MoveNext(w) == [w EXCEPT !.step = NextStep(w.draft, w.step), !.view = NoView]

\* Enter: validate, commit, ask about a named interface, or move on.
EnterNext ==
  /\ AtStep /\ wizard.step # "Review"
  /\ LET s == Synced(wizard)
         w == [s EXCEPT !.draft = Commit(s.view, @)] IN
     \/ /\ ~ Valid(w.draft, w.step)
        /\ wizard' = w /\ UNCHANGED tasks
     \/ /\ Valid(w.draft, w.step)
        /\ w.step = "Network" /\ w.draft.mode \in Bridges
        /\ w.query < MaxQueries
        /\ wizard' = [w EXCEPT !.loading = TRUE, !.query = @ + 1, !.interface = w.query + 1]
        /\ tasks' = tasks \cup {[what |-> "interface", id |-> current,
                                 query |-> w.query + 1, name |-> w.draft.mode]}
     \/ /\ Valid(w.draft, w.step)
        /\ ~ (w.step = "Network" /\ w.draft.mode \in Bridges)
        /\ wizard' = MoveNext(w) /\ UNCHANGED tasks
  /\ Quiet /\ UNCHANGED <<modal, edits, typed>>

EscPrev ==
  /\ AtStep /\ wizard.step # "Source"
  /\ LET s == Synced(wizard)
         w == [s EXCEPT !.draft = Commit(s.view, @)] IN
     wizard' = [w EXCEPT !.step = PrevStep(w.draft, w.step), !.view = NoView]
  /\ Quiet /\ UNCHANGED <<modal, tasks, edits, typed>>

CloseKey == AtStep /\ CloseWizard

-----------------------------------------------------------------------------
(* Submitting *)

\* The request checked is the one built from the draft now.
SubmitConfig(w) ==
  IF w.draft.name \in Taken
  THEN wizard' = w /\ UNCHANGED tasks
  ELSE LET request == BuildRequest(w.draft) IN
       /\ w.query < MaxQueries
       /\ wizard' = [w EXCEPT !.loading = TRUE, !.pending = request,
                              !.query = @ + 1, !.preflight = w.query + 1]
       /\ tasks' = tasks \cup {[what |-> "preflight", id |-> current,
                                query |-> w.query + 1, request |-> request]}

Submit ==
  /\ AtStep /\ wizard.step = "Review"
  /\ SubmitConfig(Synced(wizard))
  /\ Quiet /\ UNCHANGED <<modal, edits, typed>>

AcceptUnsafeRemoteTar ==
  /\ modal.kind = "risk"
  /\ SubmitConfig([wizard EXCEPT !.draft.unsafeFor = RemoteTarUrl(wizard.draft)])
  /\ modal' = NoModal
  /\ accepted' = accepted \cup {modal.url}
  /\ UNCHANGED <<opening, current, nextInstance, outcomes, deployment, started, edits, typed>>

Restored(d, password) == IF Supports(d) THEN [d EXCEPT !.password = password] ELSE d

StartDeployment(w) ==
  LET taken == [w EXCEPT !.draft.password = "", !.pending = NoRequest]
      submission == [id |-> current, request |-> w.pending, shown |-> w.view.shown,
                     validated |-> w.validated, accepted |-> accepted,
                     password |-> IF Supports(w.draft) THEN w.draft.password ELSE "",
                     typed |-> typed] IN
  /\ started' = submission
  /\ \/ /\ wizard' = [taken EXCEPT !.step = "Deploy", !.view = [of |-> "Deploy"]]
        /\ deployment' = [state |-> "running", cancel |-> FALSE]
        /\ modal' = NoModal /\ UNCHANGED typed
     \/ /\ wizard' = [taken EXCEPT !.draft = Restored(taken.draft, w.draft.password)]
        /\ typed' = IF Supports(w.draft) THEN typed ELSE ""
        /\ UNCHANGED <<deployment, modal>>

-----------------------------------------------------------------------------
(* Watching the deployment *)

AtDeploy == current # 0 /\ modal = NoModal /\ wizard.step = "Deploy"
JobRunning == deployment.state = "running"

\* q or Esc asks whether to cancel, once.
AskCancel ==
  /\ AtDeploy /\ JobRunning /\ ~ wizard.cancelling /\ ~ deployment.cancel
  /\ wizard' = [wizard EXCEPT !.cancelling = TRUE]
  /\ Quiet /\ UNCHANGED <<modal, tasks, edits, typed>>

AnswerCancel ==
  /\ AtDeploy /\ JobRunning /\ wizard.cancelling
  /\ wizard' = [wizard EXCEPT !.cancelling = FALSE]
  /\ deployment' \in {deployment, [deployment EXCEPT !.cancel = TRUE]}
  /\ UNCHANGED <<opening, current, nextInstance, outcomes, accepted, started,
                 modal, tasks, edits, typed>>

\* The deployment ends (external to the wizard).
DeploymentEnds ==
  /\ JobRunning
  /\ \E s \in {"done", "unresolved"} : deployment' = [deployment EXCEPT !.state = s]
  /\ UNCHANGED <<opening, current, nextInstance, wizard, outcomes, accepted, started,
                 modal, tasks, edits, typed>>

AskRelease ==
  /\ AtDeploy /\ deployment.state = "unresolved" /\ wizard.releasing = "no"
  /\ wizard' = [wizard EXCEPT !.releasing = "asked", !.cancelling = FALSE]
  /\ Quiet /\ UNCHANGED <<modal, tasks, edits, typed>>

AnswerRelease ==
  /\ AtDeploy /\ ~ JobRunning /\ wizard.releasing = "asked"
  /\ \/ wizard' = [wizard EXCEPT !.releasing = "no"] /\ UNCHANGED tasks
     \/ /\ wizard' = [wizard EXCEPT !.releasing = "pending"]
        /\ tasks' = tasks \cup {[what |-> "release", id |-> current]}
  /\ Quiet /\ UNCHANGED <<modal, edits, typed>>

CloseDone == AtDeploy /\ ~ JobRunning /\ wizard.releasing # "asked" /\ CloseWizard

-----------------------------------------------------------------------------
(* Background work: each task posts one outcome, a panic included            *)

TaskEnds_PanicIsSilent ==
  /\ \E t \in tasks :
     /\ tasks' = tasks \ {t}
     /\ \/ outcomes' = Append(outcomes, [task |-> t, id |-> t.id, ok |-> TRUE])
        \/ outcomes' = outcomes
  /\ deployment' = IF deployment.state = "unresolved" /\ \E t \in tasks \ tasks' : t.what = "release"
            THEN [deployment EXCEPT !.state = "done"] ELSE deployment
  /\ UNCHANGED <<opening, current, nextInstance, wizard, accepted, started,
                 modal, edits, typed>>
TaskEnds ==
  /\ \E t \in tasks, ok \in BOOLEAN :
     /\ tasks' = tasks \ {t}
     /\ outcomes' = Append(outcomes, [task |-> t, id |-> t.id, ok |-> ok])
     /\ deployment' = IF ok /\ t.what = "release" /\ t.id = current
               THEN [deployment EXCEPT !.state = "done"] ELSE deployment
  /\ UNCHANGED <<opening, current, nextInstance, wizard, accepted, started,
                 modal, edits, typed>>

FinishHardware(w, ok) ==
  IF ok /\ w.step \in {"HostIntegration", "BindMounts"}
  THEN [w EXCEPT !.view = NoView] ELSE w

FinishInterface(w, t, ok) ==
  LET idle == [w EXCEPT !.loading = FALSE, !.interface = 0] IN
  IF ok THEN MoveNext([idle EXCEPT !.validated = @ \cup {t.name}]) ELSE idle

\* A checked request starts, asks about a risky tar, or is refused.
FinishPreflight(t, ok) ==
  LET w == [wizard EXCEPT !.loading = FALSE, !.preflight = 0] IN
  \/ w.pending # t.request /\ wizard' = w /\ UNCHANGED <<modal, deployment, started, typed>>
  \/ /\ w.pending = t.request /\ ok
     /\ \/ StartDeployment(w)
        \/ /\ t.request.source = "tar" /\ ~ t.request.unsafe
           /\ wizard' = [w EXCEPT !.pending = NoRequest]
           /\ modal' = [kind |-> "risk", url |-> t.request.url]
           /\ UNCHANGED <<deployment, started, typed>>
  \/ /\ w.pending = t.request /\ ~ ok
     /\ wizard' = [w EXCEPT !.pending = NoRequest]
     /\ UNCHANGED <<modal, deployment, started, typed>>

\* Instance and query must match; a frame is drawn before the next input.
Completed(o) ==
  IF \/ o.id # current
     \/ o.task.what = "interface" /\ wizard.interface # o.task.query
     \/ o.task.what = "preflight" /\ wizard.preflight # o.task.query
  THEN UNCHANGED <<wizard, modal, deployment, started, typed>>
  ELSE \/ /\ o.task.what = "hardware"
          /\ wizard' = Synced(FinishHardware(wizard, o.ok))
          /\ UNCHANGED <<modal, deployment, started, typed>>
       \/ /\ o.task.what = "interface"
          /\ wizard' = Synced(FinishInterface(wizard, o.task, o.ok))
          /\ UNCHANGED <<modal, deployment, started, typed>>
       \/ o.task.what = "preflight" /\ FinishPreflight(o.task, o.ok)
       \/ /\ o.task.what = "release"
          /\ wizard' = [wizard EXCEPT !.releasing = "no"]
          /\ UNCHANGED <<modal, deployment, started, typed>>

HandleEvent ==
  /\ outcomes # <<>> /\ outcomes' = Tail(outcomes)
  /\ LET o == Head(outcomes) IN
     IF o.task.what = "open"
     THEN OpeningEnds(o) /\ UNCHANGED <<started, typed>>
     ELSE Completed(o) /\ UNCHANGED <<opening, current, tasks>>
  /\ UNCHANGED <<nextInstance, accepted, edits>>

\* A frame builds the missing view and drops questions the deployment answered.
DrawWizard ==
  /\ current # 0
  /\ LET w == Synced(wizard) IN
     wizard' = [w EXCEPT !.cancelling = @ /\ JobRunning,
                         !.releasing = IF deployment.state = "unresolved" THEN @ ELSE "no"]
  /\ Quiet /\ UNCHANGED <<modal, tasks, edits, typed>>

WizardNext ==
  \/ BeginWizard \/ CancelOpening \/ EditField \/ OpenEntryDialog \/ RemoveEntry
  \/ SaveEntry \/ DismissDialog \/ EnterNext \/ EscPrev \/ CloseKey \/ Submit
  \/ AcceptUnsafeRemoteTar \/ AskCancel \/ AnswerCancel \/ DeploymentEnds \/ AskRelease
  \/ AnswerRelease \/ CloseDone \/ TaskEnds \/ HandleEvent \/ DrawWizard

\* Queries time out or panic into an answer, and the driver drains its queue.
WizardFairness == WF_wizardVars(TaskEnds) /\ WF_wizardVars(HandleEvent)
WizardSpec == WizardInit /\ [][WizardNext]_wizardVars /\ WizardFairness

-----------------------------------------------------------------------------
(* What a started deployment is: the request the review step showed, with a *)
(* tar accepted only for the URL whose risk the user accepted and with the  *)
(* password the user typed, whatever was rejected, revisited and edited     *)
(* before (Wizard::submit_config, finish_preflight, take_submission).  And, *)
(* although steps are validated one at a time, it meets their joint         *)
(* conditions: managed user namespaces only with a private network and      *)
(* without host displays, and a bridge this wizard had validated            *)
(* (HostIntegrationStepView::validate, Wizard::handle_action).              *)
StartsWhatWasReviewed ==
  LET s == started IN
  s # NoSubmission =>
    /\ [s.request EXCEPT !.unsafe = FALSE] = [s.shown EXCEPT !.unsafe = FALSE]
    /\ s.request.unsafe => s.request.url \in s.accepted
    /\ s.request.source \notin {"copy", "oci"} => s.password = s.typed
    /\ s.request.managed =>
         s.request.mode # "host" /\ ~ s.request.lists["users"] /\ ~ s.request.x11
    /\ s.request.mode \in Bridges => s.request.mode \in s.validated
    /\ s.request.name \notin Taken

(* A wizard that shows the spinner takes no keys; it always gets its input  *)
(* back or is gone (contain_task, WizardSession::complete).                 *)
WizardResponds == wizard.loading ~> ~ wizard.loading
=============================================================================
