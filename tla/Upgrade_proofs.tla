--------------------------- MODULE Upgrade_proofs ---------------------------
(***************************************************************************)
(* Proofs about the upgrade, for any descriptors, any list of them and any *)
(* situation the signal arrives in: what the old process has written when  *)
(* it leaves, what it hands over, whose pid is in the pid file, and why a  *)
(* daemon hands nothing over; and which signals start it.                  *)
(***************************************************************************)
EXTENDS Upgrade, Signals, TLAPS

\* The new process before it has opened anything.
Fresh == {"main", "old_pidfile", "new_pidfile", "bind", "accept", "receive", "open"}

\* The control of the two processes: the child exists only after the fork, has no
\* name for the transfer socket before bind, and has received nothing before accept.
Control ==
    /\ pc["old"] \in {"loop", "drain", "fork"} => pc["child"] = "none"
    /\ name # "none" => pc["child"] \in {"accept", "receive", "open", "loop", "dead"}
    /\ got # {} => pc["child"] \in {"receive", "open", "loop", "dead"}
    /\ pc["child"] \in Fresh => list["child"] = {}

\* Who may have connected, and under which name.
Named == /\ link => name = "old"
         /\ forked => name # "old"

\* The listening socket is closed before the fork.
PortClosed ==
    /\ pc["old"] \in {"drain", "fork"} => port # "old"
    /\ pc["child"] # "none" => port # "old"

\* A process that has not written the pid file does not believe to have.
NoPidYet == pc["child"] \in {"main", "old_pidfile", "new_pidfile"} => ~hasPid["child"]

First(d) == d = setup.order[1]

\* What the old process still has on its list is freed, unless it was the first or
\* the walk has not come to it.
Emptied ==
    /\ pc["old"] = "loop" => list["old"] = Range(setup.order)
    /\ pc["old"] = "drain" =>
          /\ ~prev["old"] => todo["old"] = Range(setup.order)
          /\ \A d \in list["old"] : d \in freed["old"] \/ First(d) \/ d \in todo["old"]
    /\ pc["old"] \in {"fork", "connect", "send"} =>
          \A d \in list["old"] : d \in freed["old"] \/ First(d)
    /\ pc["old"] = "send" => todo["old"] \subseteq list["old"]

\* Only the first was sent.
SentFirst == \A d \in Range(chan) \cup got : First(d)

\* What was handed over is read on from where it was.
ReadOn == \A f \in got \cap list["child"] \cap Files : skipped[f] = setup.held

Outputs == {d \in Range(setup.order) : Kind[d] = "FILEW"}
Written(d) == <<"old", d>> \in drained

\* A destination is freed or taken off the list only after its queue was written,
\* and the last walk comes to all that are left.
WrittenFirst ==
    /\ \A d \in freed["old"] : Kind[d] = "FILEW" => Written(d)
    /\ \A d \in Outputs : Written(d) \/ d \in list["old"]
    /\ pc["old"] = "drain_again" => \A d \in Outputs : Written(d) \/ d \in todo["old"]
    /\ pc["old"] \in {"delete_pidfile", "exit", "gone"} => \A d \in Outputs : Written(d)

-----------------------------------------------------------------------------
(* The steps, one by one *)

OldAction == Fork \/ Connect \/ Send \/ SendEnds \/ Hup \/ Quit
Action(p) == Killed(p) \/ Leaves(p)

LEMMA Steps ==
    ASSUME Next
    PROVE  /\ setup' = setup
           /\ \/ /\ OldAction \/ NewCode \/ ReceiveFails \/ \E p \in Procs : Action(p)
                 /\ appended' = appended /\ skipped' = skipped
              \/ Opens
              \/ \E f \in Files : Appends(f)
BY DEF Next, Step, OldStep, ChildStep, OldAction, Action, Appends, fileVars, Procs

\* What the new process does on its way to main_loop changes nothing of the old one.
LEMMA NewCodeLeavesOld ==
    ASSUME TypeOK, NewCode
    PROVE  /\ pc'["old"] = pc["old"] /\ list'["old"] = list["old"]
           /\ freed'["old"] = freed["old"]
           /\ UNCHANGED <<todo, prev, drained>>
<1> USE DEF TypeOK, Procs, Goto, procVars
<1>1. CASE Exec \/ ExecFails \/ Main
  BY <1>1 DEF Exec, ExecFails, Main
<1>2. CASE RemovePidFile \/ CreatePidFile
  BY <1>2 DEF RemovePidFile, CreatePidFile
<1>3. CASE Bind \/ Accept \/ Receive \/ ReceiveEnds
  BY <1>3 DEF Bind, Accept, Receive, ReceiveEnds
<1> QED
  BY <1>1, <1>2, <1>3 DEF NewCode

LEMMA ControlKept ==
    ASSUME TypeOK, Control, Named, Next
    PROVE  Control' /\ Named'
<1> USE Steps DEF TypeOK, Control, Named, procVars, pidVars, xferVars, vars, Goto, Procs,
                  Labels, Fresh
<1>1. CASE Hup
  BY <1>1 DEF Hup
<1>2. CASE Fork
  BY <1>2 DEF Fork, Each, AfterFork
<1>3. CASE Connect
  BY <1>3 DEF Connect, Answered, Pid
<1>4. CASE Send
  BY <1>4 DEF Send, Crash
<1>5. CASE SendEnds \/ Quit
  BY <1>5 DEF SendEnds, Quit
<1>6. ASSUME NEW p \in Procs, Killed(p) PROVE Control' /\ Named'
  BY <1>6 DEF Killed, Crash
<1>7. ASSUME NEW p \in Procs, Leaves(p) PROVE Control' /\ Named'
  BY <1>7 DEF Leaves, ConnectFails, Shutdown, Walk, WalkEnds, DeletePidFile, Exit, Crash
<1>8. CASE NewCode
  <2>1. CASE Exec \/ ExecFails
    BY <2>1 DEF Exec, ExecFails, AfterFork
  <2>2. CASE Main
    BY <2>2 DEF Main
  <2>3. CASE RemovePidFile \/ CreatePidFile
    BY <2>3 DEF RemovePidFile, CreatePidFile
  <2>4. CASE Bind
    BY <2>4 DEF Bind, ParentPid
  <2>5. CASE Accept \/ Receive \/ ReceiveEnds
    BY <2>5 DEF Accept, Receive, ReceiveEnds
  <2> QED
    BY <1>8, <2>1, <2>2, <2>3, <2>4, <2>5 DEF NewCode
<1>9. CASE ReceiveFails
  BY <1>9 DEF ReceiveFails
<1>10. CASE Opens
  BY <1>10 DEF Opens
<1>11. ASSUME NEW f \in Files, Appends(f) PROVE Control' /\ Named'
  BY <1>11 DEF Appends
<1> QED
  BY <1>1, <1>2, <1>3, <1>4, <1>5, <1>6, <1>7, <1>8, <1>9, <1>10, <1>11
     DEF OldAction, Action

LEMMA PortKept ==
    ASSUME TypeOK, Control, PortClosed, NoPidYet, PidFileKept, Next
    PROVE  PortClosed' /\ NoPidYet' /\ PidFileKept'
<1> USE Steps DEF TypeOK, Control, PortClosed, NoPidYet, PidFileKept, procVars, pidVars,
                  xferVars, vars, Goto, Procs, Labels, Fresh, Pid
<1> DEFINE Kept == PortClosed /\ NoPidYet /\ PidFileKept
<1>1. CASE Hup
  BY <1>1 DEF Hup, ClosesListening
<1>2. CASE Fork
  BY <1>2 DEF Fork, Each, AfterFork
<1>3. CASE Connect
  BY <1>3 DEF Connect
<1>4. CASE Send
  BY <1>4 DEF Send, Crash
<1>5. CASE SendEnds \/ Quit
  BY <1>5 DEF SendEnds, Quit
<1>6. ASSUME NEW p \in Procs, Killed(p) PROVE Kept'
  BY <1>6 DEF Killed, Crash
<1>7. ASSUME NEW p \in Procs, Leaves(p) PROVE Kept'
  <2>1. CASE ConnectFails(p) \/ Shutdown(p)
    BY <2>1 DEF ConnectFails, Shutdown, Crash
  <2>2. CASE Walk(p) \/ WalkEnds(p)
    BY <2>2 DEF Walk, WalkEnds, Crash
  <2>3. CASE DeletePidFile(p) \/ Exit(p)
    BY <2>3 DEF DeletePidFile, Exit, Crash
  <2> QED
    BY <1>7, <2>1, <2>2, <2>3 DEF Leaves
<1>8. CASE NewCode
  <2>1. CASE Exec \/ ExecFails
    BY <2>1 DEF Exec, ExecFails, AfterFork
  <2>2. CASE Main
    BY <2>2 DEF Main
  <2>3. CASE RemovePidFile \/ CreatePidFile
    BY <2>3 DEF RemovePidFile, CreatePidFile
  <2>4. CASE Bind
    BY <2>4 DEF Bind, ParentPid
  <2>5. CASE Accept \/ Receive \/ ReceiveEnds
    BY <2>5 DEF Accept, Receive, ReceiveEnds
  <2> QED
    BY <1>8, <2>1, <2>2, <2>3, <2>4, <2>5 DEF NewCode
<1>9. CASE ReceiveFails
  BY <1>9 DEF ReceiveFails
<1>10. CASE Opens
  BY <1>10 DEF Opens
<1>11. ASSUME NEW f \in Files, Appends(f) PROVE Kept'
  BY <1>11 DEF Appends
<1> QED
  BY <1>1, <1>2, <1>3, <1>4, <1>5, <1>6, <1>7, <1>8, <1>9, <1>10, <1>11
     DEF OldAction, Action

\* The first element a walk comes to is the first of the list.
LEMMA FirstNext ==
    ASSUME TypeOK, NEW p \in Procs, NEW d \in D, IsNext(p, d),
           todo[p] = Range(setup.order)
    PROVE  First(d)
<1>1. setup.order \in Seq(D) /\ IsInjective(setup.order)
  BY UpgradeAssumption DEF TypeOK, IsSetup
<1>2. d \in Range(setup.order)
  BY DEF IsNext
<1>3. PICK k \in DOMAIN setup.order : setup.order[k] = d
  BY <1>2 DEF Range
<1>4. 1 \in DOMAIN setup.order
  BY <1>1, <1>3
<1>5. setup.order[1] \in todo[p]
  BY <1>4 DEF Range
<1>6. PICK m, j \in DOMAIN setup.order :
          m <= j /\ setup.order[m] = d /\ setup.order[j] = setup.order[1]
  BY <1>5 DEF IsNext
<1>7. j = 1
  BY <1>1, <1>4, <1>6 DEF IsInjective
<1> QED
  BY <1>1, <1>6, <1>7 DEF First

LEMMA EmptiedKept ==
    ASSUME TypeOK, Control, Emptied, Next
    PROVE  Emptied'
<1> USE Steps DEF TypeOK, Control, Emptied, First, procVars, pidVars, xferVars, vars,
                  Goto, Procs, Labels, Fresh
<1>1. CASE Hup
  BY <1>1 DEF Hup, ClosesListening
<1>2. CASE Fork
  BY <1>2 DEF Fork, Each, AfterFork
<1>3. CASE Connect
  BY <1>3 DEF Connect
<1>4. CASE Send
  BY <1>4 DEF Send, Crash
<1>5. CASE SendEnds \/ Quit
  BY <1>5 DEF SendEnds, Quit
<1>6. ASSUME NEW p \in Procs, Killed(p) PROVE Emptied'
  BY <1>6 DEF Killed, Crash
<1>7. ASSUME NEW p \in Procs, Leaves(p) PROVE Emptied'
  <2>1. CASE ConnectFails(p) \/ Shutdown(p)
    BY <2>1 DEF ConnectFails, Shutdown, Crash
  <2>2. CASE Walk(p)
    BY <2>2, FirstNext DEF Walk, Crash, Closes, Unlisted
  <2>3. CASE WalkEnds(p) \/ DeletePidFile(p) \/ Exit(p)
    BY <2>3 DEF WalkEnds, DeletePidFile, Exit, Crash
  <2> QED
    BY <1>7, <2>1, <2>2, <2>3 DEF Leaves
<1>8. CASE NewCode
  BY <1>8, NewCodeLeavesOld
<1>9. CASE ReceiveFails
  BY <1>9 DEF ReceiveFails
<1>10. CASE Opens
  BY <1>10 DEF Opens
<1>11. ASSUME NEW f \in Files, Appends(f) PROVE Emptied'
  BY <1>11 DEF Appends
<1> QED
  BY <1>1, <1>2, <1>3, <1>4, <1>5, <1>6, <1>7, <1>8, <1>9, <1>10, <1>11
     DEF OldAction, Action

\* Only three steps touch what is being handed over.
LEMMA Transfers ==
    ASSUME Next
    PROVE  Send \/ Receive \/ ReceiveFails \/ UNCHANGED <<chan, got>>
<1> USE Steps DEF xferVars
<1>1. OldAction => Send \/ UNCHANGED <<chan, got>>
  BY DEF OldAction, Fork, Connect, SendEnds, Hup, Quit
<1>2. NewCode => Receive \/ UNCHANGED <<chan, got>>
  BY DEF NewCode, Exec, ExecFails, Main, RemovePidFile, CreatePidFile, Bind, Accept,
         ReceiveEnds
<1>3. ASSUME NEW p \in Procs, Action(p) PROVE UNCHANGED <<chan, got>>
  BY <1>3 DEF Action, Killed, Leaves, ConnectFails, Shutdown, Walk, WalkEnds,
              DeletePidFile, Exit, Crash
<1>4. Opens \/ (\E f \in Files : Appends(f)) => UNCHANGED <<chan, got>>
  BY DEF Opens, Appends
<1> QED
  BY <1>1, <1>2, <1>3, <1>4

LEMMA SentFirstKept ==
    ASSUME TypeOK, Emptied, SentFirst, Next
    PROVE  SentFirst'
<1> USE Steps DEF SentFirst, First, procVars, pidVars, xferVars, vars
<1>1. CASE Send
  <2>1. PICK d \in D : IsNext("old", d) /\
            \/ /\ chan' = IF d \notin freed["old"] /\ Kind[d] \in {"FILER", "SOCKETR"}
                             /\ ~Gone("child") THEN Append(chan, d) ELSE chan
               /\ got' = got
            \/ UNCHANGED xferVars
    BY <1>1 DEF Send, Crash
  <2>2. CASE d \notin freed["old"]
    <3>1. First(d)
      BY <1>1, <2>1, <2>2 DEF Emptied, Send, IsNext
    <3>2. Range(Append(chan, d)) \subseteq Range(chan) \cup {d}
      <4>1. chan \in Seq(D)
        BY DEF TypeOK
      <4>2. \A k \in 1..Len(chan) + 1 :
               Append(chan, d)[k] \in {chan[j] : j \in 1..Len(chan)} \cup {d}
        BY <4>1
      <4>3. DOMAIN Append(chan, d) = 1..Len(chan) + 1 /\ DOMAIN chan = 1..Len(chan)
        BY <4>1
      <4> QED
        BY <4>2, <4>3 DEF Range
    <3> QED
      BY <2>1, <3>1, <3>2
  <2> QED
    BY <2>1, <2>2
<1>2. CASE Receive
  <2>1. Range(Tail(chan)) \subseteq Range(chan) /\ Head(chan) \in Range(chan)
    BY <1>2, SMTT(30) DEF Receive, TypeOK, Range
  <2> QED
    BY <1>2, <2>1 DEF Receive
<1>3. CASE ReceiveFails
  BY <1>3 DEF ReceiveFails, Range
<1>4. CASE UNCHANGED <<chan, got>>
  BY <1>4
<1> QED
  BY <1>1, <1>2, <1>3, <1>4, Transfers

LEMMA ReadOnKept ==
    ASSUME TypeOK, Control, ReadOn, Next
    PROVE  ReadOn'
<1> USE Steps DEF ReadOn, Control, Fresh, TypeOK, Procs, Files, procVars, pidVars,
                  xferVars, vars
<1>1. CASE Opens
  <2>1. UNCHANGED got
    BY <1>1 DEF Opens
  <2>2. \A f \in Files :
           skipped'[f] = IF f \in list'["child"] THEN StartOffset(f) + BufferErased(f) ELSE 0
    BY <1>1 DEF Opens
  <2>3. setup.held \in Nat
    BY UpgradeAssumption DEF IsSetup
  <2> QED
    BY <2>1, <2>2, <2>3 DEF StartOffset, BufferErased
<1>2. CASE OldAction /\ UNCHANGED skipped
  <2>1. CASE Fork
    BY <2>1 DEF Fork
  <2>2. CASE ~Fork
    <3>1. UNCHANGED <<got, skipped, list>>
      BY <1>2, <2>2 DEF OldAction, Connect, Send, SendEnds, Hup, Quit, Crash
    <3> QED
      BY <3>1
  <2> QED
    BY <2>1, <2>2
<1>3. CASE NewCode
  BY <1>3 DEF NewCode, Exec, ExecFails, Main, RemovePidFile, CreatePidFile, Bind, Accept,
              Receive, ReceiveEnds
<1>4. CASE ReceiveFails
  BY <1>4 DEF ReceiveFails
<1>5. ASSUME NEW p \in Procs, Action(p), UNCHANGED skipped PROVE ReadOn'
  <2>1. UNCHANGED <<got, skipped>>
    BY <1>5 DEF Action, Killed, Leaves, ConnectFails, Shutdown, Walk, WalkEnds,
               DeletePidFile, Exit, Crash
  <2>2. list'["child"] \subseteq list["child"]
    <3>1. CASE Shutdown(p)
      BY <3>1 DEF Shutdown, Crash
    <3>2. CASE Walk(p)
      BY <3>2 DEF Walk, Crash, Unlisted
    <3>3. CASE ~Shutdown(p) /\ ~Walk(p)
      BY <1>5, <3>3 DEF Action, Killed, Leaves, ConnectFails, WalkEnds, DeletePidFile,
                        Exit, Crash
    <3> QED
      BY <3>1, <3>2, <3>3
  <2> QED
    BY <2>1, <2>2
<1>6. ASSUME NEW f \in Files, Appends(f) PROVE ReadOn'
  BY <1>6 DEF Appends
<1> QED
  BY <1>1, <1>2, <1>3, <1>4, <1>5, <1>6

LEMMA WrittenKept ==
    ASSUME TypeOK, Emptied, WrittenFirst, Next
    PROVE  WrittenFirst'
<1> USE Steps DEF TypeOK, Emptied, WrittenFirst, Outputs, Written, procVars, pidVars,
                  xferVars, vars, Goto, Procs, Labels
<1>1. CASE OldAction
  BY <1>1 DEF OldAction, Fork, Connect, Send, SendEnds, Hup, Quit, Crash, Each, AfterFork
<1>2. CASE NewCode
  BY <1>2, NewCodeLeavesOld
<1>3. CASE ReceiveFails
  BY <1>3 DEF ReceiveFails
<1>4. CASE Opens
  BY <1>4 DEF Opens
<1>5. ASSUME NEW p \in Procs, Action(p) PROVE WrittenFirst'
  <2>1. CASE Killed(p)
    BY <2>1 DEF Killed, Crash
  <2>2. CASE Shutdown(p)
    BY <2>2 DEF Shutdown, Crash
  <2>3. CASE Walk(p)
    BY <2>3 DEF Walk, Crash, Closes, Unlisted, Drains
  <2>4. CASE WalkEnds(p)
    BY <2>4 DEF WalkEnds
  <2>5. CASE ConnectFails(p) \/ DeletePidFile(p) \/ Exit(p)
    BY <2>5 DEF ConnectFails, DeletePidFile, Exit, Crash
  <2> QED
    BY <1>5, <2>1, <2>2, <2>3, <2>4, <2>5 DEF Action, Leaves
<1>6. ASSUME NEW f \in Files, Appends(f) PROVE WrittenFirst'
  BY <1>6 DEF Appends
<1> QED
  BY <1>1, <1>2, <1>3, <1>4, <1>5, <1>6

-----------------------------------------------------------------------------
(* Types *)

\* The two flags, as a formula.
Flags == forked \in BOOLEAN /\ link \in BOOLEAN

LEMMA SetupHolds ==
    ASSUME setup \in Setups
    PROVE  /\ setup.order \in Seq(D) /\ IsInjective(setup.order)
           /\ Range(setup.order) \subseteq D
           /\ setup.deleted \subseteq D /\ setup.known \subseteq D
           /\ setup.held \in Nat
           /\ setup.listening \in BOOLEAN /\ setup.daemon \in BOOLEAN
<1>1. IsSetup(setup)
  BY UpgradeAssumption
<1> QED
  BY <1>1 DEF IsSetup, Range, Files

LEMMA TypeKept ==
    ASSUME TypeOK, Next
    PROVE  TypeOK'
<1> USE Steps, SetupHolds DEF procVars, pidVars, xferVars, Goto, Procs, Pids
<1>1. /\ setup' \in Setups /\ pc' \in [Procs -> Labels]
      /\ listen' \in [Procs -> {"none", "open", "freed"}]
      /\ port' \in Procs \cup {"none"}
      /\ pidFile' \in Pids \cup {"empty", "none"}
      /\ name' \in {"none", "old", "other"}
  <2> USE DEF TypeOK, Labels
  <2>1. CASE OldAction
    BY <2>1 DEF OldAction, Fork, Connect, Send, SendEnds, Hup, Quit, ClosesListening,
                Crash, Each, AfterFork
  <2>2. CASE NewCode
    <3>1. CASE Exec \/ ExecFails
      BY <3>1 DEF Exec, ExecFails, AfterFork
    <3>4. CASE Main
      <4>1. pc' \in [Procs -> Labels]
        <5>1. PICK l \in {"gone", "old_pidfile", "bind"} : pc' = [pc EXCEPT !["child"] = l]
          BY <3>4 DEF Main
        <5> QED
          BY <5>1
      <4>2. UNCHANGED <<listen, port, pidFile, name>>
        BY <3>4 DEF Main
      <4> QED
        BY <4>1, <4>2
    <3>2. CASE RemovePidFile \/ CreatePidFile
      BY <3>2 DEF RemovePidFile, CreatePidFile, Pid
    <3>3. CASE Bind \/ Accept \/ Receive \/ ReceiveEnds
      BY <3>3 DEF Bind, Accept, Receive, ReceiveEnds, ParentPid
    <3> QED
      BY <2>2, <3>1, <3>2, <3>3, <3>4 DEF NewCode
  <2>3. CASE ReceiveFails
    BY <2>3 DEF ReceiveFails
  <2>4. CASE Opens
    BY <2>4 DEF Opens
  <2>5. ASSUME NEW p \in Procs, Action(p)
        PROVE <1>1!:
    BY <2>5 DEF Action, Killed, Leaves, ConnectFails, Shutdown, Walk, WalkEnds,
                DeletePidFile, Exit, Crash
  <2>6. CASE \E f \in Files : Appends(f)
    BY <2>6 DEF Appends
  <2> QED
    BY <2>1, <2>2, <2>3, <2>4, <2>5, <2>6
<1>2. list' \in [Procs -> SUBSET D] /\ freed' \in [Procs -> SUBSET D]
  <2> USE DEF TypeOK
  <2>1. CASE Fork
    BY <2>1 DEF Fork
  <2>2. CASE Exec
    BY <2>2 DEF Exec
  <2>3. CASE Opens
    BY <2>3 DEF Opens
  <2>4. ASSUME NEW p \in Procs, Shutdown(p) \/ Walk(p) PROVE <1>2!:
    <3>1. CASE Shutdown(p)
      <4> DEFINE inotify == {d \in D : Kind[d] = "INOTIFY"}
      <4>1. \/ UNCHANGED <<list, freed>>
            \/ /\ list' = [list EXCEPT ![p] = list[p] \ inotify]
               /\ freed' = [freed EXCEPT ![p] = freed[p] \cup inotify]
        BY <3>1 DEF Shutdown, Crash
      <4>2. inotify \subseteq D
        OBVIOUS
      <4> HIDE DEF inotify
      <4> QED
        BY <4>1, <4>2
    <3>2. CASE Walk(p)
      <4>1. \/ UNCHANGED <<list, freed>>
            \/ \E d \in D : /\ list' = [list EXCEPT ![p] = Unlisted(p, d)]
                            /\ freed' = [freed EXCEPT ![p] = @ \cup {d}]
        BY <3>2 DEF Walk, Crash
      <4> QED
        BY <4>1 DEF Unlisted
    <3> QED
      BY <2>4, <3>1, <3>2
  <2>5. CASE UNCHANGED <<list, freed>>
    BY <2>5
  <2>6. \/ Fork \/ Exec \/ Opens \/ UNCHANGED <<list, freed>>
        \/ \E p \in Procs : Shutdown(p) \/ Walk(p)
    <3>1. OldAction => Fork \/ UNCHANGED <<list, freed>>
      BY DEF OldAction, Connect, Send, SendEnds, Hup, Quit, Crash
    <3>2. NewCode => Exec \/ UNCHANGED <<list, freed>>
      BY DEF NewCode, ExecFails, Main, RemovePidFile, CreatePidFile, Bind, Accept,
             Receive, ReceiveEnds
    <3>3. \A p \in Procs : Action(p) => \/ Shutdown(p) \/ Walk(p)
                                       \/ UNCHANGED <<list, freed>>
      BY DEF Action, Killed, Leaves, ConnectFails, WalkEnds, DeletePidFile, Exit, Crash
    <3>4. ReceiveFails \/ (\E f \in Files : Appends(f)) => UNCHANGED <<list, freed>>
      BY DEF ReceiveFails, Appends
    <3> QED
      BY <3>1, <3>2, <3>3, <3>4
  <2> QED
    BY <2>1, <2>2, <2>3, <2>4, <2>5, <2>6
<1>3. /\ todo' \in [Procs -> SUBSET D] /\ tries' \in [Procs -> 0..MaxTries]
      /\ drained' \subseteq Procs \X D
  <2> USE DEF TypeOK, MaxTries
  <2>1. CASE Connect \/ Send \/ Hup
    BY <2>1 DEF Connect, Send, Hup, Crash
  <2>2. ASSUME NEW p \in Procs, ConnectFails(p) \/ Shutdown(p) \/ Walk(p) PROVE <1>3!:
    BY <2>2 DEF ConnectFails, Shutdown, Walk, Crash
  <2>3. CASE UNCHANGED <<todo, tries, drained>>
    BY <2>3
  <2>4. \/ Connect \/ Send \/ Hup \/ UNCHANGED <<todo, tries, drained>>
        \/ \E p \in Procs : ConnectFails(p) \/ Shutdown(p) \/ Walk(p)
    <3>1. OldAction => Connect \/ Send \/ Hup \/ UNCHANGED <<todo, tries, drained>>
      BY DEF OldAction, Fork, SendEnds, Quit
    <3>2. NewCode => UNCHANGED <<todo, tries, drained>>
      BY DEF NewCode, Exec, ExecFails, Main, RemovePidFile, CreatePidFile, Bind, Accept,
             Receive, ReceiveEnds
    <3>3. \A p \in Procs : Action(p) => \/ ConnectFails(p) \/ Shutdown(p) \/ Walk(p)
                                       \/ UNCHANGED <<todo, tries, drained>>
      BY DEF Action, Killed, Leaves, WalkEnds, DeletePidFile, Exit, Crash
    <3>4. ReceiveFails \/ Opens \/ (\E f \in Files : Appends(f))
             => UNCHANGED <<todo, tries, drained>>
      BY DEF ReceiveFails, Opens, Appends
    <3> QED
      BY <3>1, <3>2, <3>3, <3>4
  <2> QED
    BY <2>1, <2>2, <2>3, <2>4
<1>4. chan' \in Seq(D) /\ got' \subseteq D
  <2> USE DEF TypeOK
  <2>1. CASE Send
    <3>1. \A d \in D : Append(chan, d) \in Seq(D)
      OBVIOUS
    <3>2. got' = got /\ (chan' = chan \/ \E d \in D : chan' = Append(chan, d))
      BY <2>1 DEF Send, Crash
    <3> QED
      BY <3>1, <3>2
  <2>2. CASE Receive
    <3>1. Tail(chan) \in Seq(D) /\ Head(chan) \in D
      BY <2>2 DEF Receive
    <3> QED
      BY <2>2, <3>1 DEF Receive
  <2>3. CASE ReceiveFails
    <3>1. chan' = <<>> /\ got' = {} /\ <<>> \in Seq(D)
      BY <2>3 DEF ReceiveFails
    <3> QED
      BY <3>1
  <2>4. CASE UNCHANGED <<chan, got>>
    BY <2>4
  <2> QED
    BY <2>1, <2>2, <2>3, <2>4, Transfers
<1>5. prev' \in [Procs -> BOOLEAN] /\ hasPid' \in [Procs -> BOOLEAN] /\ Flags'
  <2>1. /\ prev \in [Procs -> BOOLEAN] /\ hasPid \in [Procs -> BOOLEAN]
        /\ forked \in BOOLEAN /\ link \in BOOLEAN
        /\ setup.daemon \in BOOLEAN
    BY DEF TypeOK
  <2>2. /\ \/ prev' = prev
           \/ \E p \in Procs : prev' = [prev EXCEPT ![p] = TRUE]
           \/ \E p \in Procs : prev' = [prev EXCEPT ![p] = FALSE]
        /\ \/ hasPid' = hasPid
           \/ hasPid' = [hasPid EXCEPT !["child"] = hasPid["old"]]
           \/ hasPid' = [hasPid EXCEPT !["child"] = TRUE]
           \/ hasPid' = [hasPid EXCEPT !["child"] = FALSE]
        /\ forked' \in {forked, FALSE, setup.daemon}
        /\ link' \in {link, TRUE}
    <3>1. CASE OldAction
      BY <3>1 DEF OldAction, Fork, Connect, Send, SendEnds, Hup, Quit, Crash
    <3>2. CASE NewCode
      BY <3>2 DEF NewCode, Exec, ExecFails, Main, RemovePidFile, CreatePidFile, Bind,
                  Accept, Receive, ReceiveEnds
    <3>3. CASE ReceiveFails \/ Opens \/ \E f \in Files : Appends(f)
      BY <3>3 DEF ReceiveFails, Opens, Appends
    <3>4. ASSUME NEW p \in Procs, Action(p) PROVE <2>2!:
      BY <3>4 DEF Action, Killed, Leaves, ConnectFails, Shutdown, Walk, WalkEnds,
                  DeletePidFile, Exit, Crash
    <3> QED
      BY <3>1, <3>2, <3>3, <3>4
  <2>3. prev' \in [Procs -> BOOLEAN]
    BY <2>1, <2>2, Zenon
  <2>4. hasPid' \in [Procs -> BOOLEAN]
    BY <2>1, <2>2, Zenon
  <2>5. forked' \in BOOLEAN /\ link' \in BOOLEAN
    BY <2>1, <2>2, Zenon
  <2> QED
    BY <2>3, <2>4, <2>5 DEF Flags
<1>6. /\ appended' \in [Files -> 0..MaxAppends]
      /\ skipped' \in [Files -> 0..(MaxAppends + setup'.held)]
  <2> USE UpgradeAssumption DEF TypeOK
  <2>1. CASE Opens
    BY <2>1 DEF Opens, StartOffset, BufferErased
  <2>2. CASE \E f \in Files : Appends(f)
    BY <2>2 DEF Appends
  <2> QED
    BY <2>1, <2>2
<1> QED
  BY <1>1, <1>2, <1>3, <1>4, <1>5, <1>6 DEF TypeOK, Flags

-----------------------------------------------------------------------------
(* The invariant and the theorems *)

IInv == /\ TypeOK /\ Control /\ Named /\ PortClosed /\ NoPidYet /\ PidFileKept
        /\ Emptied /\ SentFirst /\ ReadOn /\ WrittenFirst

LEMMA InitIInv == Init => IInv
<1> SUFFICES ASSUME Init PROVE IInv
  OBVIOUS
<1> USE SetupHolds DEF Init, Each, Procs
<1>1. TypeOK
  <2>1. /\ prev \in [Procs -> BOOLEAN] /\ forked \in BOOLEAN /\ link \in BOOLEAN
    BY Zenon
  <2>2. hasPid \in [Procs -> BOOLEAN]
    <3>1. /\ setup.daemon \in BOOLEAN
          /\ hasPid = [p \in Procs |-> IF p = "old" THEN setup.daemon ELSE FALSE]
      OBVIOUS
    <3> QED
      BY <3>1, Zenon
  <2>3. /\ setup \in Setups /\ pc \in [Procs -> Labels]
        /\ list \in [Procs -> SUBSET D] /\ todo \in [Procs -> SUBSET D]
        /\ freed \in [Procs -> SUBSET D]
        /\ listen \in [Procs -> {"none", "open", "freed"}]
        /\ port \in Procs \cup {"none"} /\ pidFile \in Pids \cup {"empty", "none"}
        /\ name \in {"none", "old", "other"} /\ got \subseteq D /\ drained \subseteq Procs \X D
    BY DEF Labels, Pids
  <2>4. tries \in [Procs -> 0..MaxTries] /\ chan \in Seq(D)
    BY DEF MaxTries
  <2>5. /\ appended \in [Files -> 0..MaxAppends]
        /\ skipped \in [Files -> 0..(MaxAppends + setup.held)]
    BY UpgradeAssumption
  <2> QED
    BY <2>1, <2>2, <2>3, <2>4, <2>5 DEF TypeOK
<1>2. Control /\ Named /\ PortClosed /\ NoPidYet
  BY DEF Control, Named, PortClosed, NoPidYet, Fresh
<1>3. PidFileKept
  BY DEF PidFileKept
<1>4. Emptied /\ ReadOn
  BY DEF Emptied, ReadOn
<1>5. SentFirst
  BY DEF SentFirst, Range
<1>6. WrittenFirst
  BY DEF WrittenFirst, Outputs
<1> QED
  BY <1>1, <1>2, <1>3, <1>4, <1>5, <1>6 DEF IInv

LEMMA NextIInv == IInv /\ [Next]_vars => IInv'
<1> SUFFICES ASSUME IInv, [Next]_vars PROVE IInv'
  OBVIOUS
<1>1. CASE Next
  BY <1>1, TypeKept, ControlKept, PortKept, EmptiedKept, SentFirstKept, ReadOnKept,
     WrittenKept DEF IInv
<1>2. CASE UNCHANGED vars
  <2>1. Control' /\ Named' /\ PortClosed' /\ NoPidYet'
    BY <1>2 DEF IInv, vars, procVars, xferVars, pidVars, fileVars, Control, Named,
                PortClosed, NoPidYet
  <2>2. TypeOK'
    BY <1>2 DEF IInv, vars, procVars, xferVars, pidVars, fileVars, TypeOK
  <2>3. PidFileKept'
    BY <1>2 DEF IInv, vars, procVars, xferVars, pidVars, fileVars, PidFileKept, Pid
  <2>4. Emptied' /\ SentFirst' /\ ReadOn'
    BY <1>2 DEF IInv, vars, procVars, xferVars, pidVars, fileVars, Emptied, SentFirst,
                ReadOn, First
  <2>5. WrittenFirst'
    BY <1>2 DEF IInv, vars, procVars, xferVars, pidVars, fileVars, WrittenFirst, Outputs,
                Written
  <2> QED
    BY <2>1, <2>2, <2>3, <2>4, <2>5 DEF IInv
<1> QED
  BY <1>1, <1>2

LEMMA Always == Spec => []IInv
BY InitIInv, NextIInv, PTL DEF Spec

\* Whatever the list of descriptors, a process that leaves by itself, after SIGQUIT
\* or SIGHUP, has called descriptor_write_direct for every destination that was on
\* it, although the first walk frees the elements the second walk comes to.
THEOREM QueuesWrittenAtExit == Spec => []DrainedAtExit
<1>1. IInv => DrainedAtExit
  BY DEF IInv, WrittenFirst, DrainedAtExit, Outputs, Written
<1> QED
  BY <1>1, Always, PTL

\* Whatever was on the list, dlog_sig_restart sends nothing but its first element; a
\* source that arrives is read on where the old process left it, less the buffer; and
\* the new process never finds its port taken by the old one.
THEOREM OnlyFirstHandedOver == Spec => []HandedOverExactly
<1>1. IInv => HandedOverExactly
  BY DEF IInv, SentFirst, First, ReadOn, PortClosed, HandedOverExactly
<1> QED
  BY <1>1, Always, PTL

\* The new process' pid file holds its pid until the old process has come as far as
\* pidfile_delete.
THEOREM PidFileIsKept == Spec => []PidFileKept
<1>1. IInv => PidFileKept
  BY DEF IInv
<1> QED
  BY <1>1, Always, PTL

\* No old process ever connects to a new one that proc_daemonize has forked away: the
\* socket is named before the connection, and after the last fork.
THEOREM DaemonIsCutOff == Spec => []DaemonCutOff
<1>1. IInv => DaemonCutOff
  BY DEF IInv, Named, DaemonCutOff
<1> QED
  BY <1>1, Always, PTL

-----------------------------------------------------------------------------
(***************************************************************************)
(* The signal that starts it: the safety properties of Signals, for every  *)
(* table of signals and every number of deliveries.                        *)
(***************************************************************************)
\* The action of s has been started and its flag is about to be lowered.
BeingServed(s) == main = "lowering" /\ Table[i] = s

\* A raised flag whose action has not been started stands for one more delivery
\* than there were starts: what ServedOnlyIfSent needs to be inductive.
SignalsCovered == \A s \in Sig :
              /\ served[s] <= sent[s]
              /\ flag[s] /\ ~BeingServed(s) /\ main # "exited" => served[s] < sent[s]

\* process_signals starts an action only under a raised flag.
ServesRaised == main \in {"serving", "lowering"} => flag[Table[i]]

\* A flag process_signals has left behind raised was raised meanwhile; it reaches
\* the end of the table before it lowers sig_delivered.
LeftBehind ==
    /\ main \in Busy => /\ sig_delivered
                      /\ \A k \in 1..(i-1) : flag[Table[k]] => Table[k] \in late
    /\ main = "finishing" => i > Len(Table)
    /\ OverlookedOnlyIfLate

SignalsInv == SignalsTypeOK /\ SignalsCovered /\ ServesRaised /\ LeftBehind

-----------------------------------------------------------------------------
\* The entries of the table are signals.
LEMMA EntryIsSignal ==
    \A k \in 1..Len(Table) : Table[k] \in Sig
  BY DEF Sig

LEMMA TableLength ==
    Len(Table) \in Nat
  BY SignalsAssumption

LEMMA InitSignals ==
    SignalsInit => SignalsInv
<1> SUFFICES ASSUME SignalsInit PROVE SignalsInv
  OBVIOUS
<1>1. SignalsTypeOK
  <2>1. i \in 1..(Len(Table) + 1)
    BY TableLength DEF SignalsInit
  <2>2. flag \in [Sig -> BOOLEAN] /\ sig_delivered \in BOOLEAN
    BY DEF SignalsInit
  <2>3. sent \in [Sig -> Nat] /\ served \in [Sig -> Nat]
    BY DEF SignalsInit
  <2> QED  BY <2>1, <2>2, <2>3 DEF SignalsInit, SignalsTypeOK, Places
<1> QED
  BY <1>1 DEF SignalsInit, SignalsInv, SignalsCovered, BeingServed, ServesRaised, LeftBehind,
     OverlookedOnlyIfLate, Busy

\* Every step of the main program and every delivery keeps the types.
LEMMA StepSignalsOK ==
    SignalsInv /\ [SignalsNext]_signalVars => SignalsTypeOK'
<1> SUFFICES ASSUME SignalsInv, [SignalsNext]_signalVars PROVE SignalsTypeOK'
  OBVIOUS
<1> USE TableLength DEF SignalsInv, SignalsTypeOK, Places, Busy
<1>1. ASSUME NEW s \in Sig, Deliver(s) PROVE SignalsTypeOK'
  BY <1>1 DEF Deliver
<1>2. CASE Test
  BY <1>2 DEF Test
<1>3. CASE Look
  BY <1>3 DEF Look, NextEntry
<1>4. CASE Serve
  <2>1. Table[i] \in Sig
    BY <1>4, EntryIsSignal DEF Serve
  <2> QED  BY <1>4, <2>1 DEF Serve
<1>5. CASE Lower
  <2>1. Table[i] \in Sig
    BY <1>5, EntryIsSignal DEF Lower
  <2> QED  BY <1>5, <2>1 DEF Lower, Lowered, NextEntry
<1>6. CASE Finish
  BY <1>6 DEF Finish
<1>7. CASE Turn
  BY <1>7 DEF Turn
<1>8. CASE Abort
  BY <1>8 DEF Abort
<1>9. CASE UNCHANGED signalVars
  BY <1>9 DEF signalVars
<1> QED  BY <1>1, <1>2, <1>3, <1>4, <1>5, <1>6, <1>7, <1>8, <1>9 DEF SignalsNext, MainStep

\* No step starts an action that no delivery stands for.
LEMMA StepCovered ==
    SignalsInv /\ [SignalsNext]_signalVars => SignalsCovered' /\ ServesRaised'
<1> SUFFICES ASSUME SignalsInv, [SignalsNext]_signalVars PROVE SignalsCovered' /\ ServesRaised'
  OBVIOUS
<1> USE TableLength DEF SignalsInv, SignalsTypeOK, SignalsCovered, ServesRaised, BeingServed, Places, Busy
<1>1. ASSUME NEW s \in Sig, Deliver(s) PROVE SignalsCovered' /\ ServesRaised'
  <2>1. sent[s] \in Nat /\ served[s] \in Nat
    OBVIOUS
  <2>2. SignalsCovered'
    <3> SUFFICES ASSUME NEW t \in Sig
                 PROVE /\ served[t] <= sent'[t]
                       /\ flag'[t] /\ ~(main = "lowering" /\ Table[i] = t)
                             => served[t] < sent'[t]
      BY <1>1 DEF Deliver
    <3>1. CASE t = s
      BY <1>1, <2>1, <3>1 DEF Deliver
    <3>2. CASE t # s
      BY <1>1, <3>2 DEF Deliver
    <3> QED  BY <3>1, <3>2
  <2>3. ServesRaised'
    <3>1. main \in {"serving", "lowering"} => Table[i] \in Sig
      BY EntryIsSignal
    <3> QED  BY <1>1, <3>1 DEF Deliver
  <2> QED  BY <2>2, <2>3
<1>2. CASE Test
  BY <1>2 DEF Test
<1>3. CASE Look
  BY <1>3 DEF Look, NextEntry
<1>4. CASE Serve
  <2>1. Table[i] \in Sig
    BY <1>4, EntryIsSignal DEF Serve
  <2>2. served[Table[i]] < sent[Table[i]]
    BY <1>4, <2>1 DEF Serve
  <2>3. ASSUME NEW t \in Sig PROVE sent[t] \in Nat /\ served[t] \in Nat
    BY <2>3
  <2>4. SignalsCovered'
    <3> SUFFICES ASSUME NEW t \in Sig
                 PROVE /\ served'[t] <= sent[t]
                       /\ flag[t] /\ ~(main' = "lowering" /\ Table[i] = t)
                             /\ main' # "exited" => served'[t] < sent[t]
      BY <1>4, <2>1, <2>2, <2>3 DEF Serve
    <3> QED  BY <1>4, <2>1, <2>2, <2>3 DEF Serve
  <2> QED  BY <1>4, <2>4 DEF Serve
<1>5. CASE Lower
  <2>1. Table[i] \in Sig
    BY <1>5, EntryIsSignal DEF Lower
  <2> QED  BY <1>5, <2>1 DEF Lower, Lowered, NextEntry
<1>6. CASE Finish
  BY <1>6 DEF Finish
<1>7. CASE Turn
  BY <1>7 DEF Turn
<1>8. CASE Abort
  BY <1>8 DEF Abort
<1>9. CASE UNCHANGED signalVars
  BY <1>9 DEF signalVars
<1> QED  BY <1>1, <1>2, <1>3, <1>4, <1>5, <1>6, <1>7, <1>8, <1>9 DEF SignalsNext, MainStep

\* process_signals passes over no flag that was raised before it began.
LEMMA StepLeftBehind ==
    SignalsInv /\ [SignalsNext]_signalVars => LeftBehind'
<1> SUFFICES ASSUME SignalsInv, [SignalsNext]_signalVars PROVE LeftBehind'
  OBVIOUS
<1> USE TableLength DEF SignalsInv, SignalsTypeOK, LeftBehind, OverlookedOnlyIfLate, Places, Busy
<1>1. ASSUME NEW s \in Sig, Deliver(s) PROVE LeftBehind'
  <2>1. ASSUME NEW k \in 1..(i-1) PROVE Table[k] \in Sig
    <3>1. k \in 1..Len(Table)
      BY <2>1
    <3> QED  BY <3>1, EntryIsSignal
  <2> QED  BY <1>1, <2>1 DEF Deliver
<1>2. CASE Test
  BY <1>2 DEF Test
<1>3. CASE Look
  <2>1. CASE i <= Len(Table) /\ ~flag[Table[i]]
    <3>1. ASSUME NEW k \in 1..(i'-1), flag[Table[k]] PROVE k \in 1..(i-1)
      BY <1>3, <2>1, <3>1 DEF Look, NextEntry
    <3> QED  BY <1>3, <2>1, <3>1 DEF Look
  <2>2. CASE ~(i <= Len(Table) /\ ~flag[Table[i]])
    BY <1>3, <2>2 DEF Look
  <2> QED  BY <2>1, <2>2
<1>4. CASE Serve
  BY <1>4 DEF Serve
<1>5. CASE Lower
  <2>1. Table[i] \in Sig /\ i \in 1..Len(Table)
    BY <1>5, EntryIsSignal DEF Lower
  <2>2. ASSUME NEW k \in 1..(i'-1), flag'[Table[k]] PROVE Table[k] \in late'
    <3>1. i' - 1 = i
      BY <1>5 DEF Lower, NextEntry
    <3>2. k \in 1..Len(Table)
      BY <2>1, <3>1
    <3>3. k # i
      BY <1>5, <2>1, <2>2 DEF Lower, Lowered
    <3>4. Table[k] # Table[i]
      BY <2>1, <3>2, <3>3, SignalsAssumption
    <3>5. Table[k] \in Sig
      BY <3>2, EntryIsSignal
    <3>6. k \in 1..(i-1)
      BY <3>1, <3>3
    <3>7. flag[Table[k]]
      BY <1>5, <2>2, <3>4, <3>5 DEF Lower, Lowered
    <3> QED  BY <1>5, <3>4, <3>6, <3>7 DEF Lower
  <2> QED  BY <1>5, <2>2 DEF Lower
<1>6. CASE Finish
  <2>1. ASSUME NEW s \in Sig, flag[s] PROVE s \in late
    <3>1. PICK k \in 1..Len(Table) : s = Table[k]
      BY DEF Sig
    <3>2. k \in 1..(i-1)
      BY <1>6 DEF Finish
    <3> QED  BY <1>6, <2>1, <3>1, <3>2 DEF Finish
  <2> QED  BY <1>6, <2>1 DEF Finish
<1>7. CASE Turn
  BY <1>7 DEF Turn
<1>8. CASE Abort
  BY <1>8 DEF Abort
<1>9. CASE UNCHANGED signalVars
  BY <1>9 DEF signalVars
<1> QED  BY <1>1, <1>2, <1>3, <1>4, <1>5, <1>6, <1>7, <1>8, <1>9 DEF SignalsNext, MainStep

-----------------------------------------------------------------------------
\* process_signals starts no action more often than its signal was delivered,
\* whatever the moments of delivery.
THEOREM NoSpuriousService ==
    SignalsSpec => [](SignalsTypeOK /\ ServedOnlyIfSent)
<1>1. SignalsInv /\ [SignalsNext]_signalVars => SignalsInv'
  BY StepSignalsOK, StepCovered, StepLeftBehind DEF SignalsInv
<1>2. SignalsInv => SignalsTypeOK /\ ServedOnlyIfSent
  BY DEF SignalsInv, SignalsCovered, ServedOnlyIfSent
<1> QED  BY InitSignals, <1>1, <1>2, PTL DEF SignalsSpec

\* The only flags that the test of sig_delivered passes over are those raised
\* while process_signals was at work.
THEOREM OverlooksOnlyLate ==
    SignalsSpec => []OverlookedOnlyIfLate
<1>1. SignalsInv /\ [SignalsNext]_signalVars => SignalsInv'
  BY StepSignalsOK, StepCovered, StepLeftBehind DEF SignalsInv
<1>2. SignalsInv => OverlookedOnlyIfLate
  BY DEF SignalsInv, LeftBehind
<1> QED  BY InitSignals, <1>1, <1>2, PTL DEF SignalsSpec
=============================================================================
