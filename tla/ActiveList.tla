----------------------------- MODULE ActiveList -----------------------------
(***************************************************************************)
(* The life of the descriptors (coredesc.c, main_loop in dlog.c) and the   *)
(* list dlogenv->desc_active_list that open_descriptor, close_descriptor   *)
(* and reset_descriptor keep of the active ones.  The list is modelled     *)
(* link by link, as the TAILQ macros of sys/queue.h treat it, because it   *)
(* is walked to rotate files (SIGUSR1), to hand descriptors over (SIGHUP)  *)
(* and to shut down (SIGQUIT).                                             *)
(***************************************************************************)
EXTENDS Naturals, FiniteSets

CONSTANTS
    D,            \* the descriptors
    Configs,      \* the configurations: a configuration gives each descriptor its type
    Connects,     \* how connect(2) may end, a subset of ConnectResults
    Rotations,    \* how rotlog_rotate may end, a subset of RotationResults
    EofReported,  \* the event system reports end of file on sockets (kqueue)
    Head, NULL    \* the link in the list's head; no link

Kinds == {"FILER", "FILEW", "ROTLOG", "SOCKETR", "SOCKETW"}
ConnectResults == {"ACTIVE", "PENDING", "INIT", "DEAD"}
RotationResults == {"ok", "rename_fails", "open_fails"}

ASSUME DescriptorsAssumption ==
    /\ IsFiniteSet(D)
    /\ Configs \subseteq [D -> Kinds]
    /\ Connects \subseteq ConnectResults
    /\ Rotations \subseteq RotationResults
    /\ EofReported \in BOOLEAN
    /\ Head # NULL /\ {Head, NULL} \cap D = {}

VARIABLES
    kind,      \* kind[d]: descriptor.type, set once from the configuration
    st,        \* st[d]: descriptor.state, "NONE" before d exists and "FREED" after
    list,      \* the list: its head (first, last) and the links of each descriptor
    crashed,   \* a NULL link was followed
    walk,      \* where the SIGUSR1 walk over the list stands, NULL at its end
    walking,   \* dlog_sig_rotlog is running
    tick,      \* alternates while the walk goes on: an endless walk is not a halt
    begun,     \* the list as this walk found it, NULL if it was misused before
               \* (history)
    rotated,   \* the rotlogs this walk has tried to rotate (history)
    renewed,   \* those of them that were opened again (history)
    misuse     \* descriptors whose state and place in the list fell apart (history)

vars == <<kind, st, list, crashed, walk, walking, tick, begun, rotated, renewed, misuse>>

Init == /\ kind \in Configs
        /\ st = [d \in D |-> "NONE"]
        /\ list = [first |-> NULL, last |-> Head,
                   next |-> [d \in D |-> NULL], prev |-> [d \in D |-> NULL]]
        /\ crashed = FALSE
        /\ walk = NULL
        /\ walking = FALSE
        /\ tick = FALSE
        /\ begun = NULL
        /\ rotated = {}
        /\ renewed = {}
        /\ misuse = {}

-----------------------------------------------------------------------------
(* sys/queue.h.  A link is named after the element, or the head, it is in.  *)

\* *link = d
Store(L, link, d) == IF link = Head THEN [L EXCEPT !.first = d]
                     ELSE [L EXCEPT !.next[link] = d]

InsertTail(L, d) ==
    [Store([L EXCEPT !.next[d] = NULL, !.prev[d] = L.last], L.last, d)
        EXCEPT !.last = d]

Remove(L, d) ==
    Store(IF L.next[d] # NULL THEN [L EXCEPT !.prev[L.next[d]] = L.prev[d]]
                              ELSE [L EXCEPT !.last = L.prev[d]],
          L.prev[d], L.next[d])

-----------------------------------------------------------------------------
\* Everything happens in one thread: nothing else runs during a walk.
Idle == ~walking /\ ~crashed

UnchangedWalk == UNCHANGED <<walk, walking, tick, begun, rotated, renewed>>

\* Bug: a descriptor joins the list whatever opening it led to.
JoinsAlways(L, d, new) == InsertTail(L, d)

\* The end of open_descriptor: a descriptor that is active joins the list.
Joins(L, d, new) == IF new = "ACTIVE" THEN InsertTail(L, d) ELSE L

\* What opening a descriptor of d's kind may lead to: a missing file is watched, or
\* vanishes meanwhile, a connection may be in progress, refused or fail, other
\* files are created.
OpenResults(d) == CASE kind[d] = "FILER"   -> {"ACTIVE", "PENDING", "DEAD"}
                    [] kind[d] = "SOCKETW" -> Connects
                    [] OTHER               -> {"ACTIVE"}

\* open_descriptor for a descriptor of the configuration, which main repeats until
\* the descriptor is not dead, or for a client.
Open(d) == /\ Idle
           /\ st[d] = "NONE"
           /\ \E new \in OpenResults(d) \ {"DEAD"} :
                 /\ st' = [st EXCEPT ![d] = new]
                 /\ list' = Joins(list, d, new)
           /\ UNCHANGED <<crashed, misuse>> /\ UnchangedWalk

\* evt_process_vnode: the watched file of a source was created.
Appears(d) == /\ Idle
              /\ kind[d] = "FILER" /\ st[d] = "PENDING"
              /\ \E new \in {"ACTIVE", "DEAD"} :
                    /\ st' = [st EXCEPT ![d] = new]
                    /\ list' = Joins(list, d, new)
              /\ UNCHANGED <<crashed, misuse>> /\ UnchangedWalk

\* evt_process_vnode: the file of a source was deleted.
Vanishes(d) == /\ Idle
               /\ kind[d] = "FILER" /\ st[d] = "ACTIVE"
               /\ st' = [st EXCEPT ![d] = "DRAIN_ROTATE"]
               /\ UNCHANGED <<list, crashed, misuse>> /\ UnchangedWalk

\* Bug: a descriptor leaves the list whatever its state.
LeavesAlways(d) == TRUE

\* reset_descriptor takes a descriptor off the list only if it is active.
Leaves(d) == st[d] = "ACTIVE"

AfterReset(d) == IF Leaves(d) THEN Remove(list, d) ELSE list

\* descriptor_read at the end of a deleted file: reset_descriptor, and
\* open_descriptor on the file that has taken its place, if any.
Reopens(d) == /\ Idle
              /\ kind[d] = "FILER" /\ st[d] = "DRAIN_ROTATE"
              /\ \E new \in OpenResults(d) :
                    /\ st' = [st EXCEPT ![d] = new]
                    /\ list' = Joins(AfterReset(d), d, new)
              /\ misuse' = misuse \cup {d}
              /\ UNCHANGED crashed /\ UnchangedWalk

\* main_loop: a write event says that the connection is established.
Connected(d) == /\ Idle
                /\ kind[d] = "SOCKETW" /\ st[d] = "PENDING"
                /\ st' = [st EXCEPT ![d] = "ACTIVE"]
                /\ misuse' = misuse \cup {d}
                /\ UNCHANGED <<list, crashed>> /\ UnchangedWalk

\* _sktw_post_line_write on a pending or broken connection: reset_descriptor and
\* open_descriptor.  An active descriptor that never joined the list has no link
\* to leave it by.
Reconnects(d) ==
    /\ Idle
    /\ kind[d] = "SOCKETW" /\ st[d] \in {"PENDING", "ACTIVE"}
    /\ IF Leaves(d) /\ list.prev[d] = NULL
       THEN crashed' = TRUE /\ UNCHANGED <<st, list>>
       ELSE /\ \E new \in Connects :
                  /\ st' = [st EXCEPT ![d] = new]
                  /\ list' = Joins(AfterReset(d), d, new)
            /\ UNCHANGED crashed
    /\ UNCHANGED misuse /\ UnchangedWalk

\* main_loop, where the event system reports that a client is gone.
ClientGone(d) == /\ Idle
                 /\ EofReported
                 /\ kind[d] = "SOCKETR" /\ st[d] = "ACTIVE"
                 /\ st' = [st EXCEPT ![d] = "DRAIN"]
                 /\ UNCHANGED <<list, crashed, misuse>> /\ UnchangedWalk

\* descriptor_read has come to the end of what the client sent: close_descriptor
\* frees the descriptor, and takes only an active one off the list.
ClientClosed(d) == /\ Idle
                   /\ st[d] = "DRAIN"
                   /\ st' = [st EXCEPT ![d] = "FREED"]
                   /\ misuse' = misuse \cup {d}
                   /\ UNCHANGED <<list, crashed>> /\ UnchangedWalk

\* rotlog_rotate(d), with result r: if the rename succeeds open_descriptor is called
\* with a descriptor that is in the list already.  A failed open leaves it there.
rotlog_rotate(d, r) ==
    /\ st' = CASE r = "ok"           -> [st EXCEPT ![d] = "ACTIVE"]
               [] r = "open_fails"   -> [st EXCEPT ![d] = "DEAD"]
               [] r = "rename_fails" -> st
    /\ list' = IF r = "ok" THEN Joins(list, d, "ACTIVE") ELSE list
    /\ misuse' = IF r = "rename_fails" THEN misuse ELSE misuse \cup {d}

\* rotlog_post_line_write: the file has reached its size.
RotatesBySize(d) == /\ Idle
                    /\ kind[d] = "ROTLOG" /\ st[d] = "ACTIVE"
                    /\ \E r \in Rotations : rotlog_rotate(d, r)
                    /\ UNCHANGED crashed /\ UnchangedWalk

\* dlog_sig_rotlog: TAILQ_FOREACH over the list, one element at a time, which
\* rotates every descriptor of type D_ROTLOG it meets, whatever its state.
WalkStarts == /\ Idle
              /\ walking' = TRUE
              /\ walk' = list.first
              /\ begun' = IF misuse = {} THEN list ELSE NULL
              /\ rotated' = {}
              /\ renewed' = {}
              /\ UNCHANGED <<st, list, crashed, tick, misuse>>

\* The walk rotates the rotlog it stands at.
RotatesHere == /\ walking /\ walk # NULL
               /\ kind[walk] = "ROTLOG"
               /\ \E r \in Rotations :
                     /\ rotlog_rotate(walk, r)
                     /\ renewed' = IF r = "ok" THEN renewed \cup {walk} ELSE renewed
               /\ rotated' = rotated \cup {walk}
               /\ tick' = ~tick
               /\ UNCHANGED <<crashed, walking, begun>>

\* Bugs: the walk is over once it has found a rotlog; it starts again after a rotation.
RotatesOnlyOne == RotatesHere /\ walk' = NULL
RotatesAndRestarts == RotatesHere /\ walk' = list'.first

WalkRotates == RotatesHere /\ walk' = list'.next[walk]

WalkPasses == /\ walking /\ walk # NULL
              /\ kind[walk] # "ROTLOG"
              /\ walk' = list.next[walk]
              /\ tick' = ~tick
              /\ UNCHANGED <<st, list, crashed, walking, begun, rotated, renewed, misuse>>

WalkEnds == /\ walking /\ walk = NULL
            /\ walking' = FALSE
            /\ tick' = FALSE
            /\ begun' = NULL
            /\ rotated' = {}
            /\ renewed' = {}
            /\ UNCHANGED <<st, list, crashed, walk, misuse>>

Event(d) == \/ Open(d) \/ Appears(d) \/ Vanishes(d) \/ Reopens(d)
            \/ Connected(d) \/ Reconnects(d) \/ ClientGone(d) \/ ClientClosed(d)
            \/ RotatesBySize(d)

WalkStep == WalkRotates \/ WalkPasses \/ WalkEnds

Next == /\ (\E d \in D : Event(d)) \/ WalkStarts \/ WalkStep
        /\ UNCHANGED kind

\* A walk, once started, is a loop without blocking calls.
Fairness == WF_vars(WalkStep /\ UNCHANGED kind)

Spec == Init /\ [][Next]_vars /\ Fairness

-----------------------------------------------------------------------------
ListType == [first : D \cup {NULL}, last : D \cup {Head},
             next : [D -> D \cup {NULL}], prev : [D -> D \cup {Head, NULL}]]

\* Links lead to descriptors, to the head or nowhere.
TypeOK == /\ kind \in Configs
          /\ st \in [D -> {"NONE", "INIT", "PENDING", "ACTIVE", "DRAIN", "DRAIN_ROTATE",
                           "DEAD", "FREED"}]
          /\ list \in ListType
          /\ walk \in D \cup {NULL}
          /\ {walking, tick, crashed} \subseteq BOOLEAN
          /\ begun \in ListType \cup {NULL}
          /\ rotated \subseteq D /\ renewed \subseteq D
          /\ misuse \subseteq D

\* list is a doubly linked list of the elements f[1], ..., f[n].
IsList(L, n, f) ==
    /\ L.first = IF n = 0 THEN NULL ELSE f[1]
    /\ L.last = IF n = 0 THEN Head ELSE f[n]
    /\ \A i \in 1..n : /\ L.next[f[i]] = IF i = n THEN NULL ELSE f[i+1]
                       /\ L.prev[f[i]] = IF i = 1 THEN Head ELSE f[i-1]
    /\ \A i, j \in 1..n : f[i] = f[j] => i = j

ListOf(S) == LET n == Cardinality(S) IN
             \E f \in [1..n -> S] : IsList(list, n, f)

\* The list holds exactly the active descriptors, the clients that are gone and the
\* deleted files still being read, each once, as long as no rotlog was rotated, no
\* deleted source reopened, no pending connection established and no client closed
\* after its end of file.
ListExact ==
    /\ TypeOK
    /\ misuse = {} => ListOf({d \in D : st[d] \in {"ACTIVE", "DRAIN", "DRAIN_ROTATE"}})

\* A walk of dlog_sig_rotlog over an intact list that is over has tried every rotlog of
\* it, however many rotations failed, but those behind one that it opened anew: that one
\* open_descriptor has put at the end of the list under the walk.
MissedOnlyBehindRenewed ==
    begun # NULL /\ walk = NULL =>
        \E n \in 0 .. Cardinality(D) : \E f \in [1 .. n -> D] :
            /\ IsList(begun, n, f)
            /\ \A j \in 1 .. n : kind[f[j]] = "ROTLOG" /\ f[j] \notin rotated =>
                   \E h \in 1 .. j - 1 : f[h] \in renewed

\* Only a connection that was established after connect returned EINPROGRESS
\* can bring the process down in reset_descriptor.
CrashOnlyByLateConnect == crashed => \E d \in misuse : kind[d] = "SOCKETW"

\* README.md: SIGUSR1 is to "cause rotlog destination files to rotate".  A walk of
\* dlog_sig_rotlog that starts on an intact list comes to an end, unless it comes to a
\* descriptor that is its own successor: a rotlog that was last in the list when its
\* rotation put it there again.  That one is rotated forever.
WalkEndsOrLoops ==
    walking /\ misuse = {} ~> ~walking \/ (walk # NULL /\ list.next[walk] = walk)
=============================================================================
