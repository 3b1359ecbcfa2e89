---------------------------- MODULE AccessDialog ----------------------------
(***************************************************************************)
(* The runtime access dialogs of the configuration view: the X11 one, that *)
(* checks, authorizes and revokes, and the Wayland one, that checks and    *)
(* enters a shell.  A check is a task its dialog may abort; a mutation is  *)
(* a task nobody can stop.  Their results come back through the event      *)
(* queue of the application and are told apart by a generation only.       *)
(*                                                                         *)
(* What the X server holds for a user on a display is absent or managed;   *)
(* X11Grants models how the service changes it.                            *)
(***************************************************************************)
EXTENDS Integers, Sequences, FiniteSets

CONSTANTS
    GuestUsers,         \* valid guest user names; Root is one of them
    Root,
    Displays,           \* the sockets the snapshot lists
    QueueCap,           \* the application event channel
    MaxDialogs,         \* bound on how often a dialog is opened
    MaxChecks           \* bound on the generation within one dialog

ASSUME QueueAssumption == QueueCap \in Nat \ {0} /\ Root \in GuestUsers

VARIABLES
    dialog,         \* the open dialog, or NoDialog
    opened,         \* how many dialogs were opened
    viewOpen,       \* the configuration view is there
    work,           \* running checks and mutations
    answers,        \* their results in the event channel, in order
    acl             \* what the X server holds
dialogVars == <<dialog, opened, viewOpen, work, answers, acl>>

NoDialog == <<>>
Shown == dialog # NoDialog
Typed == GuestUsers \cup {""}
Pairs == GuestUsers \X Displays

\* validate_guest_user and selected_socket: what a request would be about.
SelectionValid == dialog.user # ""
Selected == <<dialog.user, dialog.display>>

Mutating == dialog.state \in {"authorizing", "revoking"}
Confirming == dialog.confirm # "no"

\* Keys and the mouse reach the form of the dialog.
AtForm == Shown /\ ~Confirming /\ ~Mutating

DialogInit ==
    /\ dialog = NoDialog /\ opened = 0 /\ viewOpen = TRUE
    /\ work = {} /\ answers = <<>>
    /\ acl \in {[p \in Pairs |-> g] : g \in {"absent", "managed"}}

-----------------------------------------------------------------------------
(* Tasks of a dialog.                                                      *)

\* abort: a check that has not queued its result yet never does.
WithoutCheck == {t \in work : ~(t.what = "check" /\ t.dialog = opened)}

Task(what, about) ==
    [what |-> what, kind |-> dialog.kind, dialog |-> opened,
     generation |-> dialog.generation + 1, about |-> about, result |-> "none"]

-----------------------------------------------------------------------------
(* The user.                                                               *)

OpenAccessDialog(kind, d) ==
    /\ viewOpen /\ ~Shown /\ opened < MaxDialogs
    /\ dialog' = [kind |-> kind, user |-> "", display |-> d, generation |-> 0,
                  state |-> "untested", check |-> <<>>, confirm |-> "no", intent |-> <<>>,
                  tracked |-> {}]
    /\ opened' = opened + 1
    /\ UNCHANGED <<viewOpen, work, answers, acl>>

\* Dropping a dialog aborts its check and detaches its mutations.
CloseDialog ==
    /\ AtForm
    /\ dialog' = NoDialog /\ work' = WithoutCheck
    /\ UNCHANGED <<opened, viewOpen, answers, acl>>

\* invalidate_check, after the guest field or the display list changed
ChangeSelection(u, d) ==
    /\ AtForm /\ <<u, d>> # Selected
    /\ dialog.generation < MaxChecks
    /\ dialog' = [dialog EXCEPT !.user = u, !.display = d, !.generation = @ + 1,
                                !.state = "untested"]
    /\ work' = WithoutCheck
    /\ UNCHANGED <<opened, viewOpen, answers, acl>>

\* request_check; a wrong name fails at once, with a new generation for X11.
RequestCheck ==
    /\ AtForm /\ dialog.generation < MaxChecks
    /\ IF SelectionValid
       THEN /\ dialog' = [dialog EXCEPT !.generation = @ + 1, !.state = "loading"]
            /\ work' = WithoutCheck \cup {Task("check", Selected)}
       ELSE /\ dialog' = [dialog EXCEPT !.state = "failed",
                             !.generation = IF dialog.kind = "x11" THEN @ + 1 ELSE @]
            /\ UNCHANGED work
    /\ UNCHANGED <<opened, viewOpen, answers, acl>>

CanAuthorize ==
    /\ dialog.kind = "x11" /\ dialog.state = "ready"
    /\ dialog.check.grant = "absent" /\ "authorize" \notin dialog.tracked
CanRevoke ==
    /\ dialog.kind = "x11" /\ dialog.state = "ready"
    /\ dialog.check.grant = "managed" /\ "revoke" \notin dialog.tracked

\* The user comes from the field, the display from the check.
RequestConfirmation(what) ==
    /\ AtForm
    /\ \/ what = "authorize" /\ CanAuthorize
       \/ what = "revoke" /\ CanRevoke
    /\ dialog.generation < MaxChecks
    /\ dialog' = IF SelectionValid
                 THEN [dialog EXCEPT !.confirm = what,
                                     !.intent = <<dialog.user, dialog.check.about[2]>>]
                 ELSE [dialog EXCEPT !.generation = @ + 1, !.state = "failed"]
    /\ UNCHANGED <<opened, viewOpen, work, answers, acl>>

\* handle_authorization_confirmation and handle_revocation_confirmation
Confirm(yes) ==
    /\ Shown /\ dialog.confirm \in {"authorize", "revoke"}
    /\ UNCHANGED <<opened, viewOpen, answers, acl>>
    /\ IF yes
       THEN /\ dialog' = [dialog EXCEPT !.confirm = "no", !.generation = @ + 1,
                             !.state = IF dialog.confirm = "authorize"
                                       THEN "authorizing" ELSE "revoking",
                             !.tracked = @ \cup {dialog.confirm}]
            /\ work' = work \cup {Task(dialog.confirm, dialog.intent)}
       ELSE /\ dialog' = [dialog EXCEPT !.confirm = "no"]
            /\ UNCHANGED work

\* spawn_terminal_as_user, then handle_configuration_page_effect: a shell that
\* opened takes the view with it, any other is a failure shown in the dialog.
ShellOpens ==
    /\ viewOpen' = FALSE /\ dialog' = NoDialog /\ work' = WithoutCheck
    /\ UNCHANGED <<opened, answers, acl>>
ShellRejected ==
    /\ dialog' = [dialog EXCEPT !.state = "failed", !.confirm = "no"]
    /\ UNCHANGED <<opened, viewOpen, work, answers, acl>>

\* request_enter_shell; root is asked to confirm first.
EnterShell ==
    /\ AtForm /\ dialog.kind = "wayland"
    /\ CASE ~SelectionValid -> ShellRejected
         [] dialog.user = Root ->
              /\ dialog' = [dialog EXCEPT !.confirm = "root"]
              /\ UNCHANGED <<opened, viewOpen, work, answers, acl>>
         [] OTHER -> ShellOpens \/ ShellRejected
ConfirmRoot(yes) ==
    /\ Shown /\ dialog.confirm = "root"
    /\ IF yes THEN ShellOpens \/ ShellRejected
       ELSE /\ dialog' = [dialog EXCEPT !.confirm = "no"]
            /\ UNCHANGED <<opened, viewOpen, work, answers, acl>>

ReopenView ==
    /\ ~viewOpen /\ viewOpen' = TRUE
    /\ UNCHANGED <<dialog, opened, work, answers, acl>>

-----------------------------------------------------------------------------
(* The service.  Errors, panics and the deadline of a check are "error".   *)

CheckEnds(t) ==
    /\ t \in work /\ t.what = "check" /\ t.result = "none"
    /\ \E r \in {acl[t.about], "error"} :
          work' = (work \ {t}) \cup {[t EXCEPT !.result = r]}
    /\ UNCHANGED <<dialog, opened, viewOpen, answers, acl>>

MutationEnds_PanicIsSilent(t) ==
    /\ t \in work /\ t.what # "check" /\ t.result = "none"
    /\ \/ /\ acl' = [acl EXCEPT ![t.about] = IF t.what = "authorize" THEN "managed" ELSE "absent"]
          /\ work' = (work \ {t}) \cup {[t EXCEPT !.result = acl'[t.about]]}
       \/ work' = work \ {t} /\ UNCHANGED acl
    /\ UNCHANGED <<dialog, opened, viewOpen, answers>>
\* finish_mutation: a panic is caught and reported like an error.
MutationEnds(t) ==
    /\ t \in work /\ t.what # "check" /\ t.result = "none"
    /\ \/ /\ acl' = [acl EXCEPT ![t.about] = IF t.what = "authorize" THEN "managed" ELSE "absent"]
          /\ work' = (work \ {t}) \cup {[t EXCEPT !.result = acl'[t.about]]}
       \/ /\ work' = (work \ {t}) \cup {[t EXCEPT !.result = "error"]}
          /\ UNCHANGED acl
    /\ UNCHANGED <<dialog, opened, viewOpen, answers>>

\* send_event waits for room.
Publish(t) ==
    /\ t \in work /\ t.result # "none" /\ Len(answers) < QueueCap
    /\ answers' = Append(answers, t)
    /\ work' = work \ {t}
    /\ UNCHANGED <<dialog, opened, viewOpen, acl>>

\* finish_check, finish_authorization, finish_revocation
Finished(e) ==
    [dialog EXCEPT !.state = IF e.result = "error" THEN "failed" ELSE "ready",
                   !.check = IF e.result = "error" THEN @
                             ELSE [about |-> e.about, grant |-> e.result,
                                   of |-> <<e.what, e.dialog>>],
                   !.tracked = @ \ {e.what}]
FinishTask_AnyGeneration(e) == Finished(e)
FinishTask(e) == IF e.generation # dialog.generation THEN dialog ELSE Finished(e)

\* handle_configuration_page_event: the page the result belongs to updates the
\* dialog it shows; without a view a mutation is reported on the status line.
DeliverAnswer ==
    /\ answers # <<>>
    /\ answers' = Tail(answers)
    /\ dialog' = IF Shown /\ dialog.kind = Head(answers).kind
                 THEN FinishTask(Head(answers)) ELSE dialog
    /\ UNCHANGED <<opened, viewOpen, work, acl>>

-----------------------------------------------------------------------------
DialogNext ==
    \/ \E k \in {"x11", "wayland"}, d \in Displays : OpenAccessDialog(k, d)
    \/ CloseDialog
    \/ \E u \in Typed, d \in Displays : ChangeSelection(u, d)
    \/ RequestCheck
    \/ \E w \in {"authorize", "revoke"} : RequestConfirmation(w)
    \/ \E yes \in BOOLEAN : Confirm(yes) \/ ConfirmRoot(yes)
    \/ EnterShell \/ ReopenView
    \/ \E t \in work : CheckEnds(t) \/ MutationEnds(t) \/ Publish(t)
    \/ DeliverAnswer

\* Mutations have no deadline; the service behind them answers in the end.
DialogFairness ==
    /\ WF_dialogVars(\E t \in work : MutationEnds(t))
    /\ WF_dialogVars(\E t \in work : Publish(t))
    /\ WF_dialogVars(DeliverAnswer)

DialogSpec == DialogInit /\ [][DialogNext]_dialogVars /\ DialogFairness

-----------------------------------------------------------------------------
(* A check this dialog asked for is shown only beside the user and the     *)
(* display it is about: changing either one invalidates the check, also    *)
(* one whose result already waits in the event queue.  (A check of a       *)
(* dialog closed since may be shown: generations start again at zero.)     *)
ReadyMatchesSelection ==
    Shown /\ dialog.state = "ready" /\ dialog.check.of = <<"check", opened>>
        => dialog.check.about = Selected

(* While a mutation runs the dialog takes no key, not even Esc; it always  *)
(* gets out of that state again, however the mutation ends.                *)
InputComesBack == (Shown /\ Mutating) ~> ~(Shown /\ Mutating)
=============================================================================
