----------------------------- MODULE MCScreens ------------------------------
(* Two screens that wait for answers and share no state: the creation wizard *)
(* with its background queries, and the display-access dialogs with their    *)
(* checks and mutations.  No fair action of either is enabled initially.     *)
EXTENDS Wizard, AccessDialog
VARIABLE part    \* which of the two moves

MCInit ==
    /\ part \in {"wizard", "access"}
    /\ WizardInit /\ DialogInit
    /\ part # "access" => acl = [p \in Pairs |-> "absent"]

MCNext ==
    \/ part = "wizard" /\ WizardNext /\ UNCHANGED <<part, dialogVars>>
    \/ part = "access" /\ DialogNext /\ UNCHANGED <<part, wizardVars>>

MCSpec ==
    /\ MCInit /\ [][MCNext]_<<part, wizardVars, dialogVars>>
    /\ WizardFairness /\ DialogFairness
=============================================================================
