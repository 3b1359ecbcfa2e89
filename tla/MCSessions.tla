----------------------------- MODULE MCSessions -----------------------------
(* A terminal between each near end and each far end that occur together,   *)
(* with queues and a PTY of one; and, by itself, a command on the host.     *)
EXTENDS TerminalSession, ChildProcess
VARIABLE part    \* which of the two moves

MCLinks == {<<"panel", "login">>, <<"panel", "direct">>, <<"panel", "remote">>,
            <<"launcher", "shell">>, <<"launcher", "direct">>, <<"launcher", "remote">>,
            <<"inherited", "shell">>, <<"inherited", "direct">>, <<"inherited", "remote">>,
            <<"bridge", "shell">>, <<"bridge", "direct">>, <<"bridge", "remote">>}

MCInit ==
    /\ TerminalInit /\ ChildInit /\ part \in {"terminal", "command"}
    /\ part = "command" => link = <<"panel", "direct">>
MCNext ==
    \/ part = "terminal" /\ TerminalNext /\ UNCHANGED <<part, childVars>>
    \/ part = "command" /\ ChildNext /\ UNCHANGED <<part, terminalVars>>
MCSpec ==
    /\ MCInit /\ [][MCNext]_<<part, terminalVars, childVars>>
    /\ TerminalFairness /\ ChildFairness
=============================================================================
