----------------------------- MODULE MCControl -----------------------------
(* The signals, and what SIGHUP and SIGQUIT lead to.  Signals and Upgrade    *)
(* share no variable: each of them is explored while the other is at rest.   *)
(* The upgrade has a source, a destination and a client, with inotify (as on *)
(* Linux) and without it (the BSDs), where any of the three may come first.  *)
EXTENDS Signals, Upgrade

\* The table of proc.c.
MCTable == <<"HUP", "USR1", "QUIT">>

MCKind == [ino |-> "INOTIFY", src |-> "FILER", out |-> "FILEW", cli |-> "SOCKETR"]

Orders == {<<"ino", "src", "out", "cli">>, <<"src", "out", "cli">>,
           <<"cli", "src", "out">>, <<"out", "src", "cli">>}

Shared == [listening : BOOLEAN, daemon : BOOLEAN]

Situation(order, deleted, known, held, s) ==
    [order |-> order, deleted |-> deleted, known |-> known, held |-> held,
     listening |-> s.listening, daemon |-> s.daemon]

\* Every order, with part of a line in the buffer; a deleted source; a source the new
\* configuration does not have; nothing but the listening socket.
MCSetups ==
    LET All == DOMAIN MCKind IN
    {Situation(o, {}, All, 1, s) : o \in Orders, s \in Shared} \cup
    {Situation(o, {"src"}, All, 0, s) : o \in Orders, s \in Shared} \cup
    {Situation(<<"src", "out", "cli">>, {}, All \ {"src"}, 0, s) : s \in Shared} \cup
    {Situation(<<>>, {}, All, 0, s) : s \in Shared}

NoDescriptors == Situation(<<>>, {}, DOMAIN MCKind, 0, [listening |-> FALSE, daemon |-> FALSE])
UpgradeAtRest == setup = NoDescriptors /\ pc["old"] = "loop" /\ \A f \in Files : appended[f] = 0

SignalStep(A) == UpgradeAtRest /\ A /\ UNCHANGED vars
UpgradeStep(A) == SignalsInit /\ A /\ UNCHANGED signalVars

ControlInit == SignalsInit /\ Init
ControlNext == SignalStep(SignalsNext) \/ UpgradeStep(Next)

ControlSpec == /\ ControlInit
               /\ [][ControlNext]_<<signalVars, vars>>
               /\ WF_<<signalVars, vars>>(SignalStep(MainStep))
               /\ WF_<<signalVars, vars>>(UpgradeStep(OldStep))
               /\ WF_<<signalVars, vars>>(UpgradeStep(ChildStep))
=============================================================================
