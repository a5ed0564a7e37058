----------------------------- MODULE FileSource -----------------------------
(***************************************************************************)
(* A file source on Linux: open_file_r (coredesc.c), the inotify watches   *)
(* of evt_inotify.c and the part of main_loop and descriptor_read (dlog.c) *)
(* that reads the file.  Other processes append to files, delete, rename   *)
(* and recreate the file at the source's path between any two system calls *)
(* of dlog.                                                                *)
(***************************************************************************)
EXTENDS Integers, Sequences

CONSTANTS
    AtStart,     \* how many files may be at the path when dlog starts
    Ways,        \* what other processes do at the path, a subset of AllWays
    MaxFiles,    \* bound on the number of files that are ever at the path
    MaxLines     \* bound on the number of lines in a file

AllWays == {"create", "delete", "rename", "move_in"}

ASSUME FileSourceAssumption ==
    /\ AtStart \subseteq {0, 1}
    /\ Ways \subseteq AllWays
    /\ MaxFiles \in Nat \ {0} /\ MaxLines \in Nat

File == 1 .. MaxFiles
None == 0

VARIABLES
    path,        \* the file at the source's path
    made,        \* number of files made so far
    size,        \* size[f]: lines in file f
    nlink,       \* nlink[f]: its link count
    queue,       \* the events waiting in the inotify descriptor
    dirwatch,    \* the directory is watched for IN_CREATE
    in_dir,      \* the source is in dir->files, waiting for its file
    watch,       \* the file behind filew.wd, watched for IN_MODIFY
    attrib,      \* the file watched for IN_ATTRIB
    link_count,  \* filew.link_count
    state,       \* descriptor.state
    fd,          \* the file descriptor.fd is open on
    off,         \* the lines of it that were read
    pending,     \* the source is in pending_reads_table
    to_read,     \* the source is in read_files
    pc,          \* the next system call or step of dlog
    caller,      \* who called open_descriptor: "start", "wait" or "events"
    atDelete,    \* atDelete[f]: lines in file f when it was deleted (history)
    unseen,      \* files that came to the path without an event (history)
    overtaken    \* files whose deletion dlog had not been told of when another
                 \* one came to the path (history)

history == <<atDelete, unseen, overtaken>>
kernel == <<path, made, size, nlink, history>>
watches == <<dirwatch, in_dir, watch, attrib, link_count>>
source == <<state, fd, off, pending, to_read>>
vars == <<kernel, queue, watches, source, pc, caller>>

Init == /\ made \in AtStart
        /\ path = made
        /\ size = [f \in File |-> 0]
        /\ nlink = [f \in File |-> IF f = made THEN 1 ELSE 0]
        /\ queue = <<>>
        /\ dirwatch = FALSE /\ in_dir = FALSE
        /\ watch = None /\ attrib = None /\ link_count = -1
        /\ state = "INIT" /\ fd = None /\ off = 0
        /\ pending = FALSE /\ to_read = FALSE
        /\ pc = "access" /\ caller = "start"
        /\ atDelete = [f \in File |-> 0]
        /\ unseen = {} /\ overtaken = {}

-----------------------------------------------------------------------------
(* Other processes, and the events inotify makes of what they do.           *)

\* inotify drops an event that equals the last one in the queue.
Enqueue(q, kind, f) == LET e == [kind |-> kind, file |-> f] IN
                       IF q # <<>> /\ q[Len(q)] = e THEN q ELSE Append(q, e)

Notify(watched, kind, f) == IF watched THEN Enqueue(queue, kind, f) ELSE queue

UnchangedDlog == UNCHANGED <<watches, source, pc, caller>>

\* A line is appended, also to a file that is not at the path any more.
AppendLine(f) == /\ f <= made
                 /\ size[f] < MaxLines
                 /\ size' = [size EXCEPT ![f] = @ + 1]
                 /\ queue' = Notify(watch = f, "modify", f)
                 /\ UNCHANGED <<path, made, nlink, history>> /\ UnchangedDlog

Queued(kind, f) == \E k \in DOMAIN queue : queue[k] = [kind |-> kind, file |-> f]

\* Another file comes to the path.
Arrives(told) == /\ path = None /\ made < MaxFiles
                 /\ made' = made + 1
                 /\ path' = made'
                 /\ nlink' = [nlink EXCEPT ![made'] = 1]
                 /\ queue' = Notify(told, "create", None)
                 /\ unseen' = IF told THEN unseen ELSE unseen \cup {made'}
                 /\ overtaken' = overtaken \cup {f \in File : Queued("attrib", f)}
                 /\ UNCHANGED <<size, atDelete>> /\ UnchangedDlog

Create == "create" \in Ways /\ Arrives(dirwatch)

Delete == /\ "delete" \in Ways
          /\ path # None
          /\ path' = None
          /\ nlink' = [nlink EXCEPT ![path] = 0]
          /\ atDelete' = [atDelete EXCEPT ![path] = size[path]]
          /\ queue' = Notify(attrib = path, "attrib", path)
          /\ UNCHANGED <<made, size, unseen, overtaken>> /\ UnchangedDlog

\* The file is renamed to another name: its link count stays, and no watch asks
\* for IN_MOVE_SELF or IN_MOVED_FROM.
RenameAway == /\ "rename" \in Ways
              /\ path # None
              /\ path' = None
              /\ UNCHANGED <<made, size, nlink, history, queue>> /\ UnchangedDlog

\* A file is renamed to the path: the directory is not watched for IN_MOVED_TO.
MoveIn == "move_in" \in Ways /\ Arrives(FALSE)

Others == (\E f \in File : AppendLine(f)) \/ Create \/ Delete \/ RenameAway \/ MoveIn

-----------------------------------------------------------------------------
(* open_file_r and the functions it calls, one system call at a time.       *)

\* Where dlog goes on after open_descriptor.
Return == IF caller = "start" THEN "wait" ELSE caller

\* access(path, R_OK), for a descriptor in state INIT only.
Access == /\ pc = "access"
          /\ pc' = IF path = None THEN "watch_dir" ELSE "open"
          /\ UNCHANGED <<kernel, queue, watches, source, caller>>

\* evt_watch_vnode
WatchDir == /\ pc = "watch_dir"
            /\ dirwatch' = TRUE
            /\ in_dir' = TRUE
            /\ state' = "PENDING"
            /\ pc' = Return
            /\ UNCHANGED <<kernel, queue, watch, attrib, link_count, fd, off,
                           pending, to_read, caller>>

\* open(2), and lseek(2) to the end of a file that was there at the start.
StartOffset(f) == IF caller = "start" /\ f # None THEN size[f] ELSE 0

OpenFile == /\ pc = "open"
            /\ fd' = path
            /\ off' = StartOffset(path)
            /\ pc' = "reg_read"
            /\ UNCHANGED <<kernel, queue, watches, state, pending, to_read, caller>>

\* evt_reg_read: the watch is set on whatever is at the path now.  If that fails
\* the descriptor is dead; at the start main makes another one and tries again.
RegRead == /\ pc = "reg_read"
           /\ IF path = None
              THEN /\ state' = IF caller = "start" THEN "INIT" ELSE "DEAD"
                   /\ pc' = IF caller = "start" THEN "access" ELSE caller
                   /\ UNCHANGED <<watch, link_count>>
              ELSE /\ watch' = path
                   /\ link_count' = IF fd = None THEN -1 ELSE nlink[fd]
                   /\ pc' = "reg_del"
                   /\ UNCHANGED state
           /\ UNCHANGED <<kernel, queue, dirwatch, in_dir, attrib, fd, off, pending,
                          to_read, caller>>

\* Bug: the first read of a file that was opened waits for a write to it.
NoFirstRead == pending

\* flags | DOPEN_SEEKSTART is never zero.
FirstRead == TRUE

\* evt_reg_vnode_del, and the end of open_file_r.
RegDel == /\ pc = "reg_del"
          /\ attrib' = IF path = None THEN attrib ELSE path
          /\ state' = "ACTIVE"
          /\ pending' = FirstRead
          /\ pc' = Return
          /\ UNCHANGED <<kernel, queue, dirwatch, in_dir, watch, link_count, fd, off,
                         to_read, caller>>

-----------------------------------------------------------------------------
(* main_loop, evt_process_vnode, descriptor_read                            *)

\* EVT_LOOP returns: the inotify descriptor is readable.
Wake == /\ pc = "wait" /\ queue # <<>>
        /\ pc' = "events"
        /\ to_read' = FALSE
        /\ UNCHANGED <<kernel, queue, watches, state, fd, off, pending, caller>>

\* EVT_LOOP times out: idle_loop reads what is pending.
Idle == /\ pc = "wait" /\ queue = <<>>
        /\ pending /\ state \in {"ACTIVE", "DRAIN_ROTATE"}
        /\ pc' = "read"
        /\ UNCHANGED <<kernel, queue, watches, source, caller>>

\* A directory event: the file the source waits for was created.
CreateEvent == /\ pc = "events" /\ queue # <<>> /\ Head(queue).kind = "create"
               /\ queue' = Tail(queue)
               /\ IF in_dir
                  THEN in_dir' = FALSE /\ pc' = "open" /\ caller' = "events"
                  ELSE UNCHANGED <<in_dir, pc, caller>>
               /\ UNCHANGED <<kernel, dirwatch, watch, attrib, link_count, source>>

\* Bug: a write to the file is taken note of and not read.
ModifyIgnored(e) == to_read

ModifyNoted(e) == to_read \/ e.file = watch

\* IN_MODIFY on the watched file.
ModifyEvent == /\ pc = "events" /\ queue # <<>> /\ Head(queue).kind = "modify"
               /\ queue' = Tail(queue)
               /\ to_read' = ModifyNoted(Head(queue))
               /\ UNCHANGED <<kernel, watches, state, fd, off, pending, pc, caller>>

LinksNow == IF fd = None THEN -1 ELSE nlink[fd]

\* Bug: a deleted file is taken for one that has another link left.
IsGoneLate(e) == e.file = watch /\ LinksNow < link_count - 1 /\ path = None

\* The file has lost a link and nothing is at the path.
IsGone(e) == e.file = watch /\ LinksNow < link_count /\ path = None

\* IN_ATTRIB on the watched file.
AttribEvent == /\ pc = "events" /\ queue # <<>> /\ Head(queue).kind = "attrib"
               /\ queue' = Tail(queue)
               /\ IF IsGone(Head(queue))
                  THEN /\ watch' = None /\ attrib' = None
                       /\ state' = "DRAIN_ROTATE"
                  ELSE UNCHANGED <<watch, attrib, state>>
               /\ UNCHANGED <<kernel, dirwatch, in_dir, link_count, fd, off, pending,
                              to_read, pc, caller>>

\* All events are processed: the files collected are read, if any.
Collected == /\ pc = "events" /\ queue = <<>>
             /\ pc' = IF to_read THEN "read" ELSE "wait"
             /\ pending' = (pending \/ (to_read /\ state = "DRAIN_ROTATE"))
             /\ to_read' = FALSE
             /\ UNCHANGED <<kernel, queue, watches, state, fd, off, caller>>

\* descriptor_read stops before the end: the limit of a chunk is reached.
ReadChunk == /\ pc = "read" /\ fd # None
             /\ \E n \in off + 1 .. size[fd] : off' = n
             /\ pending' = TRUE
             /\ pc' = "wait"
             /\ UNCHANGED <<kernel, queue, watches, state, fd, to_read, caller>>

\* descriptor_read comes to the end of the file.  A deleted one is closed, and
\* the path opened anew.
ReadToEnd == /\ pc = "read" /\ fd # None
             /\ off' = size[fd]
             /\ pending' = FALSE
             /\ IF state = "DRAIN_ROTATE"
                THEN /\ state' = "INIT" /\ fd' = None
                     /\ pc' = "access" /\ caller' = "wait"
                ELSE pc' = "wait" /\ UNCHANGED <<state, fd, caller>>
             /\ UNCHANGED <<kernel, queue, watches, to_read>>

\* The file could not be opened: there is nothing to read from.
ReadNothing == /\ pc = "read" /\ fd = None
               /\ pc' = "wait"
               /\ UNCHANGED <<kernel, queue, watches, source, caller>>

Dlog == \/ Access \/ WatchDir \/ OpenFile \/ RegRead \/ RegDel
        \/ Wake \/ Idle \/ CreateEvent \/ ModifyEvent \/ AttribEvent \/ Collected
        \/ ReadChunk \/ ReadToEnd \/ ReadNothing

Next == Others \/ Dlog

\* dlog never blocks for longer than the timeout of EVT_LOOP.
Spec == Init /\ [][Next]_vars /\ WF_vars(Dlog)

-----------------------------------------------------------------------------
\* Every variable has the values its counterpart can have; nothing is read beyond
\* the end of a file.
TypeOK == /\ path \in 0 .. made /\ made \in 0 .. MaxFiles
          /\ size \in [File -> 0 .. MaxLines]
          /\ nlink \in [File -> 0 .. 1]
          /\ queue \in Seq([kind : {"create", "modify", "attrib"}, file : 0 .. MaxFiles])
          /\ {dirwatch, in_dir, pending, to_read} \subseteq BOOLEAN
          /\ {watch, attrib, fd} \subseteq 0 .. made
          /\ link_count \in -1 .. 1
          /\ state \in {"INIT", "PENDING", "ACTIVE", "DRAIN_ROTATE", "DEAD"}
          /\ fd # None => off \in 0 .. size[fd]
          /\ pc \in {"access", "watch_dir", "open", "reg_read", "reg_del", "wait",
                     "events", "read"}
          /\ caller \in {"start", "wait", "events"}
          /\ atDelete \in [File -> 0 .. MaxLines]
          /\ unseen \subseteq File /\ overtaken \subseteq File

\* While the watch is on the file that is open, lines that were not read yet are
\* announced: when dlog goes to sleep in EVT_LOOP, the source is in the table of
\* pending reads or an IN_MODIFY event wakes dlog up.
UnreadIsAnnounced ==
    /\ TypeOK
    /\ pc = "wait" /\ state = "ACTIVE" /\ fd # None /\ watch = fd /\ off < size[fd] =>
          pending \/ Queued("modify", fd)

\* A deleted file is given up only when all lines it had when it was deleted are
\* read: a source in state DRAIN_ROTATE has read them, or has a read pending.
DrainedBeforeGone ==
    pc = "wait" /\ state = "DRAIN_ROTATE" /\ fd # None => pending \/ off >= atDelete[fd]

\* A source that waits for its file does not miss it: when a file is at the path,
\* its IN_CREATE event is on the way.  The exceptions are files that were moved to
\* the path, and those created between access and the first evt_watch_vnode.
\* A source whose watches are both on the open file notices that it is deleted:
\* the IN_ATTRIB event is on the way.  The exception is a file whose successor was
\* at the path before the event was processed.
ChangesNoticed ==
    /\ pc = "wait" /\ state = "PENDING" /\ path # None =>
          in_dir /\ (Queued("create", None) \/ path \in unseen)
    /\ pc = "wait" /\ state = "ACTIVE" /\ fd # None /\ watch = fd /\ attrib = fd
       /\ nlink[fd] = 0 =>
          Queued("attrib", fd) \/ fd \in overtaken

\* Lines appended to the file that dlog has open and watches are read, unless the
\* watch is removed because the file was deleted.
AppendedIsRead ==
    \A f \in File : fd = f /\ watch = f /\ off < size[f] ~> (off = size[f] \/ watch # f)
=============================================================================
