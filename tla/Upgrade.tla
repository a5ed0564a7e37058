------------------------------ MODULE Upgrade ------------------------------
(***************************************************************************)
(* SIGHUP: the running process drains and closes its descriptors, starts   *)
(* the new binary and hands the descriptors it still has over to it        *)
(* through a Unix socket (dlog.c, fdxfer.c, proc.c).  SIGQUIT: it only     *)
(* shuts down.  Two processes run, one system call at a time, and either   *)
(* may be killed.  Memory that is used after it was freed either still     *)
(* holds what it held or brings the process down.                          *)
(***************************************************************************)
EXTENDS Naturals, Sequences, Functions

CONSTANTS
    D,          \* the descriptors
    Kind,       \* Kind[d]: descriptor.type
    Setups,     \* the situations a signal may arrive in
    MaxAppends  \* bound: what other processes append to a source meanwhile

Kinds == {"INOTIFY", "FILER", "FILEW", "SOCKETR"}

Files == {d \in D : Kind[d] = "FILER"}

\* order: the list of active descriptors.  deleted: those of them whose file is
\* deleted and still being read.  known: those the configuration of the new
\* process has an origin for.  held: units of a source that the reader's buffer
\* holds, the beginning of a line.  listening: a port is configured.  daemon: dlog
\* was started without -n.
IsSetup(s) == /\ s.order \in Seq(D) /\ IsInjective(s.order)
              /\ s.deleted \subseteq Files
              /\ s.known \subseteq D
              /\ s.held \in Nat
              /\ {s.listening, s.daemon} \subseteq BOOLEAN

ASSUME UpgradeAssumption == /\ Kind \in [D -> Kinds]
                            /\ \A s \in Setups : IsSetup(s)
                            /\ MaxAppends \in Nat

Procs == {"old", "child"}
MaxTries == 3    \* loop in fdxfer_open_send

VARIABLES
    setup,       \* the situation the signal arrived in
    pc,          \* pc[p]: what process p is about to do
    list,        \* list[p]: the descriptors in dlogenv->desc_active_list, which is
                 \* in the order of the setup
    freed,       \* freed[p]: the descriptors p has freed
    todo,        \* todo[p]: those of the list p's current loop has before it
    prev,        \* prev[p]: the loop of desc_active_writes_drain has passed an element
    listen,      \* listen[p]: the listening socket, "none" | "open" | "freed"
    tries,       \* tries[p]: failed attempts of fdxfer_open_send
    forked,      \* the new process has daemonized: its parent is not the old process
    port,        \* the process that listens on the configured port, or "none"
    hasPid,      \* hasPid[p]: _has_pidfile
    pidFile,     \* the pid file: a pid, "empty", or "none"
    name,        \* the pid in the name of the transfer socket, "none" before bind
    link,        \* the old process has connected to the transfer socket
    chan,        \* messages in the transfer socket: the descriptors sent
    got,         \* the descriptors the new process has received
    appended,    \* appended[f]: units appended to source f since the signal
    skipped,     \* skipped[f]: units no process has made a line of (history)
    drained      \* <<p, d>>: process p has written the queue of destination d (history)

procVars == <<list, freed, todo, prev, listen, tries>>
xferVars == <<name, link, chan, got>>
fileVars == <<appended, skipped>>
pidVars == <<hasPid, pidFile>>
vars == <<setup, pc, procVars, forked, port, pidVars, xferVars, fileVars, drained>>

Gone(p) == pc[p] \in {"gone", "dead"}
Goto(p, label) == pc' = [pc EXCEPT ![p] = label]

\* getpid(): daemonizing gives the new process another pid.
Pid(p) == IF p = "child" /\ forked THEN "daemon" ELSE p

\* What the old process has, and what its child has.
Each(o, c) == [p \in Procs |-> IF p = "old" THEN o ELSE c]

\* The situations are those of a process that reached main_loop.
Init == /\ setup \in Setups
        /\ pc = Each("loop", "none")
        /\ list = Each(Range(setup.order), {})
        /\ freed = [p \in Procs |-> {}]
        /\ todo = [p \in Procs |-> {}]
        /\ prev = [p \in Procs |-> FALSE]
        /\ listen = Each(IF setup.listening THEN "open" ELSE "none", "none")
        /\ tries = [p \in Procs |-> 0]
        /\ forked = FALSE
        /\ port = IF setup.listening THEN "old" ELSE "none"
        /\ hasPid = Each(setup.daemon, FALSE)
        /\ pidFile = IF setup.daemon THEN "old" ELSE "none"
        /\ name = "none" /\ link = FALSE /\ chan = <<>> /\ got = {}
        /\ appended = [f \in Files |-> 0]
        /\ skipped = [f \in Files |-> 0]
        /\ drained = {}

-----------------------------------------------------------------------------
(* The old process, and a child whose execve failed: it goes on as a copy.  *)

Crash(p) == /\ Goto(p, "dead")
            /\ port' = IF port = p THEN "none" ELSE port
            /\ UNCHANGED <<procVars, forked, pidVars, xferVars, drained>>

\* close_descriptor(listen_skt)
ClosesListening ==
    /\ listen' = [listen EXCEPT !["old"] = IF @ = "open" THEN "freed" ELSE @]
    /\ port' = IF port = "old" THEN "none" ELSE port

\* dlog_sig_restart, up to the walk over the list.
Hup == /\ pc["old"] = "loop"
       /\ ClosesListening
       /\ todo' = [todo EXCEPT !["old"] = list["old"]]
       /\ prev' = [prev EXCEPT !["old"] = FALSE]
       /\ Goto("old", "drain")
       /\ UNCHANGED <<list, freed, tries, forked, pidVars, xferVars, drained>>

Quit == /\ pc["old"] = "loop"
        /\ Goto("old", "shutdown")
        /\ UNCHANGED <<procVars, forked, port, pidVars, xferVars, drained>>

\* close_descriptor takes a descriptor off the list only if it is active.
Unlisted(p, d) == IF d \in setup.deleted THEN list[p] ELSE list[p] \ {d}

\* d is the element the loop of p has come to.
IsNext(p, d) ==
    d \in todo[p] /\ \A e \in todo[p] : \E i, j \in DOMAIN setup.order :
                        i <= j /\ setup.order[i] = d /\ setup.order[j] = e

\* Bug: destinations are closed before their queue is written.
DrainsFirst(p, d) == Kind[d] = "FILEW" /\ ~prev[p]

\* descriptor_write_direct(d, NULL) is called for every destination of the list.
Drains(p, d) == Kind[d] = "FILEW"

\* Bug: the descriptors are not closed.
ClosesNone(p) == FALSE

\* prev && also_close_fds
Closes(p) == prev[p]

\* desc_active_writes_drain(true), one element: its queue is written, and it is
\* closed and freed unless it is the first.
Walk(p) ==
    /\ pc[p] \in {"drain", "drain_again"}
    /\ \E d \in D :
         /\ IsNext(p, d)
         /\ \/ /\ todo' = [todo EXCEPT ![p] = @ \ {d}]
               /\ prev' = [prev EXCEPT ![p] = TRUE]
               /\ drained' = IF d \notin freed[p] /\ Drains(p, d)
                             THEN drained \cup {<<p, d>>} ELSE drained
               /\ IF d \notin freed[p] /\ Closes(p)
                  THEN /\ list' = [list EXCEPT ![p] = Unlisted(p, d)]
                       /\ freed' = [freed EXCEPT ![p] = @ \cup {d}]
                  ELSE UNCHANGED <<list, freed>>
               /\ UNCHANGED <<pc, listen, tries, forked, port, pidVars, xferVars>>
            \/ /\ d \in freed[p] \/ Closes(p)    \* d or its link is read after free
               /\ Crash(p)

WalkEnds(p) ==
    /\ pc[p] \in {"drain", "drain_again"} /\ todo[p] = {}
    /\ Goto(p, IF pc[p] = "drain" THEN "fork" ELSE "delete_pidfile")
    /\ UNCHANGED <<procVars, forked, port, pidVars, xferVars, drained>>

AfterFork(p) == IF list[p] = {} THEN "shutdown" ELSE "connect"

\* proc_restart_with_newbinary in the parent.  Nobody looks at a failed fork.
Fork ==
    /\ pc["old"] = "fork"
    /\ \/ pc' = Each(AfterFork("old"), "exec")
       \/ Goto("old", AfterFork("old"))
    /\ list' = [list EXCEPT !["child"] = list["old"]]
    /\ freed' = [freed EXCEPT !["child"] = freed["old"]]
    /\ listen' = [listen EXCEPT !["child"] = listen["old"]]
    /\ hasPid' = [hasPid EXCEPT !["child"] = hasPid["old"]]
    /\ UNCHANGED <<todo, prev, tries, forked, port, pidFile, xferVars, drained>>

ExecFails == /\ pc["child"] = "exec"
             /\ Goto("child", AfterFork("child"))
             /\ UNCHANGED <<procVars, forked, port, pidVars, xferVars, drained>>

\* The socket named after p's pid is being listened on.
Answered(p) == pc["child"] = "accept" /\ name = Pid(p)

\* Bug: the attempts are not counted.
NoRetryLimit(p) == FALSE

\* The end of: while (connect(...) < 0 && loop--)
GivesUp(p) == tries[p] = MaxTries

\* fdxfer_open_send: an attempt to connect succeeds; the socket has the name of the
\* process that connects, so that only the old one ever finds it.
Connect == /\ pc["old"] = "connect" /\ Answered("old")
           /\ link' = TRUE
           /\ todo' = [todo EXCEPT !["old"] = list["old"]]
           /\ Goto("old", "send")
           /\ UNCHANGED <<list, freed, prev, listen, tries, forked, port, pidVars,
                          name, chan, got, drained>>

\* An attempt fails, or the socket cannot even be created.
ConnectFails(p) ==
    /\ pc[p] = "connect"
    /\ \/ /\ ~Answered(p)
          /\ tries' = [tries EXCEPT ![p] = IF @ < MaxTries THEN @ + 1 ELSE @]
          /\ Goto(p, IF GivesUp(p) THEN "shutdown" ELSE "connect")
       \/ /\ tries[p] = 0
          /\ Goto(p, "shutdown")
          /\ UNCHANGED tries
    /\ UNCHANGED <<list, freed, todo, prev, listen, forked, port, pidVars, xferVars,
                   drained>>

\* One turn of the loop of dlog_sig_restart: fdxfer_send of a source or client.
Send ==
    /\ pc["old"] = "send"
    /\ \E d \in D :
         /\ IsNext("old", d)
         /\ \/ /\ todo' = [todo EXCEPT !["old"] = @ \ {d}]
               /\ chan' = IF d \notin freed["old"] /\ Kind[d] \in {"FILER", "SOCKETR"}
                             /\ ~Gone("child")
                          THEN Append(chan, d) ELSE chan
               /\ UNCHANGED <<pc, list, freed, prev, listen, tries, forked, port,
                              pidVars, name, link, got, drained>>
            \/ d \in freed["old"] /\ Crash("old")

SendEnds == /\ pc["old"] = "send" /\ todo["old"] = {}
            /\ Goto("old", "shutdown")
            /\ UNCHANGED <<procVars, forked, port, pidVars, xferVars, drained>>

\* dlog_sig_shutdown, up to the walk.  After SIGHUP the listening socket is closed
\* a second time, after it was freed.
Shutdown(p) ==
    /\ pc[p] = "shutdown"
    /\ \/ LET inotify == {d \in D : Kind[d] = "INOTIFY"}
              rest == list[p] \ inotify
          IN /\ list' = [list EXCEPT ![p] = rest]
             /\ freed' = [freed EXCEPT ![p] = @ \cup inotify]
             /\ todo' = [todo EXCEPT ![p] = rest]
             /\ prev' = [prev EXCEPT ![p] = FALSE]
             /\ listen' = [listen EXCEPT ![p] = IF @ = "open" THEN "freed" ELSE @]
             /\ port' = IF port = p THEN "none" ELSE port
             /\ Goto(p, "drain_again")
             /\ UNCHANGED <<tries, forked, pidVars, xferVars, drained>>
       \/ listen[p] = "freed" /\ Crash(p)

\* pidfile_delete, which takes the path from the freed environment: the file may stay.
DeletePidFile(p) ==
    /\ pc[p] = "delete_pidfile"
    /\ \/ /\ pidFile' = IF hasPid[p] THEN "none" ELSE pidFile
          /\ Goto(p, "exit")
          /\ UNCHANGED <<procVars, forked, port, hasPid, xferVars, drained>>
       \/ /\ hasPid[p]
          /\ Goto(p, "exit")
          /\ UNCHANGED <<procVars, forked, port, pidVars, xferVars, drained>>
       \/ hasPid[p] /\ Crash(p)

\* fdxfer_close and exit.
Exit(p) == /\ pc[p] = "exit"
           /\ Goto(p, "gone")
           /\ UNCHANGED <<procVars, forked, port, pidVars, xferVars, drained>>

Leaves(p) == \/ ConnectFails(p) \/ Shutdown(p) \/ Walk(p) \/ WalkEnds(p)
             \/ DeletePidFile(p) \/ Exit(p)

-----------------------------------------------------------------------------
(* The new process: main with -x, from execve to main_loop.                 *)

Exec == /\ pc["child"] = "exec"
        /\ list' = [list EXCEPT !["child"] = {}]
        /\ freed' = [freed EXCEPT !["child"] = {}]
        /\ listen' = [listen EXCEPT !["child"] = "none"]
        /\ hasPid' = [hasPid EXCEPT !["child"] = FALSE]
        /\ Goto("child", "main")
        /\ UNCHANGED <<todo, prev, tries, forked, port, pidFile, xferVars, drained>>

\* The configuration is not accepted, or dlog stays in the foreground, or
\* proc_daemonize forks once more; a failed fork changes nothing.
Main == /\ pc["child"] = "main"
        /\ \/ Goto("child", "gone") /\ UNCHANGED forked
           \/ /\ Goto("child", IF setup.daemon THEN "old_pidfile" ELSE "bind")
              /\ forked' \in {FALSE, setup.daemon}
        /\ UNCHANGED <<procVars, port, pidVars, xferVars, drained>>

\* pidfile_create: pidfile_delete, then open and write.
RemovePidFile == /\ pc["child"] = "old_pidfile"
                 /\ pidFile' = "none"
                 /\ Goto("child", "new_pidfile")
                 /\ UNCHANGED <<procVars, forked, port, hasPid, xferVars, drained>>

\* Bug: the file is opened and written before the old one is removed.
CreateThenRemove == /\ pc["child"] = "new_pidfile"
                    /\ pidFile' = "none"
                    /\ hasPid' = [hasPid EXCEPT !["child"] = TRUE]
                    /\ Goto("child", "bind")
                    /\ UNCHANGED <<procVars, forked, port, xferVars, drained>>

CreatePidFile ==
    /\ pc["child"] = "new_pidfile"
    /\ \/ /\ pidFile' = Pid("child")
          /\ hasPid' = [hasPid EXCEPT !["child"] = TRUE]
       \/ /\ pidFile' \in {pidFile, "empty"}    \* open or write fails
          /\ UNCHANGED hasPid
    /\ Goto("child", "bind")
    /\ UNCHANGED <<procVars, forked, port, xferVars, drained>>

\* Bug, or rather what the comment in proc_daemonize has in mind: the pid of the
\* parent is the one before daemonizing.
ParentRemembered == "old"

\* getppid(): another process adopts a process whose parent is gone.
ParentPid == IF forked \/ Gone("old") THEN "other" ELSE "old"

\* fdxfer_open_recv up to listen; if it fails main goes on without a transfer.
Bind == /\ pc["child"] = "bind"
        /\ \/ name' = ParentPid /\ Goto("child", "accept")
           \/ Goto("child", "open") /\ UNCHANGED name
        /\ UNCHANGED <<procVars, forked, port, pidVars, link, chan, got, drained>>

\* accept blocks until somebody has connected.
Accept == /\ pc["child"] = "accept" /\ link
          /\ Goto("child", "receive")
          /\ UNCHANGED <<procVars, forked, port, pidVars, xferVars, drained>>

\* recvmsg of one message, which is dropped if it did not come whole.
Receive == /\ pc["child"] = "receive" /\ chan # <<>>
           /\ chan' = Tail(chan)
           /\ got' \in {got, got \cup {Head(chan)}}
           /\ UNCHANGED <<pc, procVars, forked, port, pidVars, name, link, drained>>

\* Bug: the end of the stream is not recognised.
EndIgnored == FALSE

\* recvmsg returns 0: the old process is gone, or has closed the socket before, because
\* its second evt_sys_destroy closed a number that the socket had taken over.
EndOfStream == chan = <<>> /\ (Gone("old") \/ pc["old"] \in {"delete_pidfile", "exit"})

ReceiveEnds == /\ pc["child"] = "receive" /\ EndOfStream
               /\ Goto("child", "open")
               /\ UNCHANGED <<procVars, forked, port, pidVars, xferVars, drained>>

\* recvmsg fails and main goes on without the transfer.
ReceiveFails == /\ pc["child"] = "receive"
                /\ chan' = <<>> /\ got' = {}
                /\ Goto("child", "open")
                /\ UNCHANGED <<procVars, forked, port, pidVars, name, link, drained>>

\* open_file_r: a source that was handed over is read on from where it was, any
\* other from its end.
StartOffset(f) == IF f \in got THEN 0 ELSE appended[f]

\* open_descriptor puts an inherited buffer in the reader, and erases it again
\* because main does not ask for DOPEN_KEEP_BUFFERS.
BufferErased(f) == setup.held

\* main from evt_sys_create to main_loop.  main tries to open an origin until it can;
\* a source whose file is deleted ends up pending, off the list, unless it was handed
\* over (which never happens with inotify): then the open file is read on.
Opens == /\ pc["child"] = "open"
         /\ listen' = [listen EXCEPT !["child"] =
                          IF setup.listening /\ port = "none" THEN "open" ELSE "none"]
         /\ port' = IF setup.listening /\ port = "none" THEN "child" ELSE port
         /\ LET clients == {d \in got : Kind[d] = "SOCKETR"}
                origins == {d \in setup.known \ (setup.deleted \ got) :
                               Kind[d] \in {"FILER", "FILEW"}}
                inotify == {d \in D : Kind[d] = "INOTIFY"}
            IN list' = [list EXCEPT !["child"] =
                           (inotify \cup clients \cup origins) \cap Range(setup.order)]
         /\ skipped' = [f \in Files |-> IF f \in list'["child"]
                                        THEN StartOffset(f) + BufferErased(f) ELSE 0]
         /\ Goto("child", "loop")
         /\ UNCHANGED <<freed, todo, prev, tries, forked, pidVars, xferVars,
                        appended, drained>>

NewCode == \/ Exec \/ ExecFails \/ Main \/ RemovePidFile \/ CreatePidFile \/ Bind
           \/ Accept \/ Receive \/ ReceiveEnds

-----------------------------------------------------------------------------
\* Another process appends to a source (external).
Appends(f) == /\ appended[f] < MaxAppends
              /\ pc["child"] # "loop"
              /\ appended' = [appended EXCEPT ![f] = @ + 1]
              /\ UNCHANGED <<setup, pc, procVars, forked, port, pidVars, xferVars,
                             skipped, drained>>

\* A process is killed (external).
Killed(p) == /\ pc[p] \notin {"none", "gone", "dead"}
             /\ Crash(p)

Step(A) == A /\ UNCHANGED <<setup, fileVars>>

OldStep == Step(Fork \/ Connect \/ Send \/ SendEnds \/ Leaves("old"))
ChildStep == Step(NewCode \/ Leaves("child"))

Next == \/ Step(Hup) \/ Step(Quit)
        \/ OldStep \/ ChildStep \/ Step(ReceiveFails)
        \/ Opens /\ UNCHANGED setup
        \/ \E f \in Files : Appends(f)
        \/ \E p \in Procs : Step(Killed(p))

\* Both processes go on; nothing obliges recvmsg to fail.
Fairness == WF_vars(OldStep) /\ WF_vars(ChildStep)

Spec == Init /\ [][Next]_vars /\ Fairness

-----------------------------------------------------------------------------
Labels == {"loop", "drain", "fork", "connect", "send", "shutdown", "drain_again",
           "delete_pidfile", "exit", "gone", "dead", "none", "exec", "main",
           "old_pidfile", "new_pidfile", "bind", "accept", "receive", "open"}
Pids == Procs \cup {"daemon"}

\* The state of the two processes and of what they share.
TypeOK == /\ setup \in Setups
          /\ pc \in [Procs -> Labels]
          /\ list \in [Procs -> SUBSET D] /\ todo \in [Procs -> SUBSET D]
          /\ freed \in [Procs -> SUBSET D]
          /\ prev \in [Procs -> BOOLEAN]
          /\ listen \in [Procs -> {"none", "open", "freed"}]
          /\ tries \in [Procs -> 0..MaxTries]
          /\ {forked, link} \subseteq BOOLEAN
          /\ port \in Procs \cup {"none"}
          /\ hasPid \in [Procs -> BOOLEAN]
          /\ pidFile \in Pids \cup {"empty", "none"}
          /\ name \in {"none", "old", "other"}
          /\ chan \in Seq(D)
          /\ got \subseteq D
          /\ appended \in [Files -> 0..MaxAppends]
          /\ skipped \in [Files -> 0..(MaxAppends + setup.held)]
          /\ drained \subseteq Procs \X D

\* README.md: "SIGQUIT  Orderly shutdown".  A process that leaves by itself, after
\* SIGQUIT or SIGHUP, has tried to write the queue of every destination of the
\* list, although desc_active_writes_drain frees the list it walks over.
DrainedAtExit ==
    pc["old"] = "gone" =>
        \A d \in Range(setup.order) : Kind[d] = "FILEW" => <<"old", d>> \in drained

\* What is handed over was the first descriptor of the list when SIGHUP came:
\* dlog_sig_restart closes the others before it sends them.  With inotify, which
\* is always first, nothing is handed over.  A source that is handed over is
\* continued where the old process stopped reading: nothing appended during the
\* upgrade is skipped, and of what was read before only the beginning of a line in
\* the reader's buffer is lost.  And the new process never finds its port taken by
\* the old one: the listening socket is closed before the fork and is not inherited
\* through execve.
HandedOverExactly ==
    /\ TypeOK
    /\ \A d \in Range(chan) \cup got : d = setup.order[1]
    /\ \A f \in got \cap list["child"] \cap Files : skipped[f] = setup.held
    /\ pc["child"] \in {"main", "bind", "accept", "receive", "open"} => port # "old"

\* While the new process, which has written its pid file, is alive, the file holds
\* its pid, or the old process, on its way out, has removed the file of the new one.
PidFileKept ==
    hasPid["child"] /\ pc["child"] \in {"bind", "accept", "receive", "open", "loop"} =>
        \/ pidFile = Pid("child")
        \/ pidFile = "none" /\ pc["old"] \in {"exit", "gone", "dead"}

\* A daemon never connects to its successor: proc_daemonize makes another process
\* the parent of the new one, whose pid _parent_skt_name then takes.  That is what the
\* code does; what it is meant to do is SuccessorFound.
DaemonCutOff == forked => ~link

\* README.md: "the upgrade process should be transparent".  While the old process tries
\* to connect and the new one waits in accept, they mean the same socket.
SuccessorFound == pc["old"] = "connect" /\ pc["child"] = "accept" => Answered("old")

\* A process that was told to leave leaves: nothing in the shutdown, and no absent
\* successor, keeps it.
OldGoes == pc["old"] # "loop" ~> Gone("old")

\* Once the old process has connected, the new one gets past the transfer,
\* whatever becomes of the old process.
TransferEnds == (link /\ pc["child"] = "accept") ~> pc["child"] \notin {"accept", "receive"}

\* README.md: "Open socket connections will be maintained".  After an upgrade in
\* which both processes did all they had to, the new one has the clients of the old.
ConnectionsMaintained ==
    pc["child"] = "loop" /\ link /\ pc["old"] = "gone" =>
        \A d \in Range(setup.order) : Kind[d] = "SOCKETR" => d \in list["child"]
=============================================================================
