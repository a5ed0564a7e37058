------------------------- MODULE FileSource_proofs -------------------------
(***************************************************************************)
(* Proofs about a file source, for any number of files that come to the    *)
(* path and of lines in them, and whatever the other processes do between  *)
(* the steps of dlog; and about what becomes of the bytes it reads.        *)
(***************************************************************************)
EXTENDS FileSource, LineReader, SequenceTheorems, TLAPS

\* An event is in the queue.
In(q, kind, f) == \E k \in DOMAIN q : q[k] = [kind |-> kind, file |-> f]

\* A modification is queued, ahead of the deletion of the file.
Ahead(q, f) == \E j \in DOMAIN q :
                  /\ q[j] = [kind |-> "modify", file |-> f]
                  /\ \A k \in DOMAIN q : q[k] = [kind |-> "attrib", file |-> f] => j < k

\* The steps in which no open_file_r is under way.
InLoop == pc \in {"wait", "events", "read"}

\* What open_file_r has set up when, and what is left when a file is given up.
Steps == /\ state \in {"ACTIVE", "DRAIN_ROTATE", "DEAD"} => InLoop
         /\ state = "PENDING" /\ InLoop => in_dir
         /\ in_dir => state = "PENDING" /\ InLoop
         /\ watch # None => state = "ACTIVE" \/ pc = "reg_del"
         /\ attrib # None => state = "ACTIVE"

\* The file at the path has its link; a queued IN_ATTRIB is for a deleted file, and
\* that was overtaken if another file is at the path by now.
Links == /\ path # None => nlink[path] = 1
         /\ \A f \in File : atDelete[f] <= size[f]
         /\ \A f \in 0 .. MaxFiles : In(queue, "attrib", f) =>
               f \in 1 .. made /\ nlink[f] = 0 /\ (path # None => f \in overtaken)

\* The link count is that of the open file: when it was watched if that is the file
\* under watch, and for good if it is not.
LinkCount == watch # None =>
                IF watch = fd THEN link_count = 1
                ELSE link_count = LinksNow /\ (fd # None => path # fd)

\* A read will come without an event.
ReadDue == pending \/ (pc = "events" /\ to_read) \/ pc = "read"

\* The source is reading a file that it watches.
Reading == state = "ACTIVE" /\ fd # None /\ watch = fd

Unread == Reading /\ off < size[fd] => ReadDue \/ In(queue, "modify", fd)

UnreadAtDelete ==
    Reading /\ nlink[fd] = 0 /\ off < atDelete[fd] => ReadDue \/ Ahead(queue, fd)

Deleted == Reading /\ attrib = fd /\ nlink[fd] = 0 => In(queue, "attrib", fd) \/ fd \in overtaken

Drained == state = "DRAIN_ROTATE" /\ fd # None =>
              path # fd /\ (ReadDue \/ off >= atDelete[fd])

Created == (pc = "watch_dir" \/ (state = "PENDING" /\ InLoop)) /\ path # None =>
              In(queue, "create", None) \/ path \in unseen

\* The types of the variables, those of other processes first.
Kinds == {"create", "modify", "attrib"}
Event == [kind : Kinds, file : 0 .. MaxFiles]

KernelOK == /\ path \in 0 .. made /\ made \in 0 .. MaxFiles
            /\ size \in [File -> 0 .. MaxLines]
            /\ nlink \in [File -> 0 .. 1]
            /\ queue \in Seq(Event)
            /\ atDelete \in [File -> 0 .. MaxLines]
            /\ unseen \subseteq File /\ overtaken \subseteq File

FlagsOK == /\ dirwatch \in BOOLEAN /\ in_dir \in BOOLEAN
           /\ pending \in BOOLEAN /\ to_read \in BOOLEAN

DlogOK == /\ watch \in 0 .. made /\ attrib \in 0 .. made /\ fd \in 0 .. made
          /\ link_count \in -1 .. 1
          /\ state \in {"INIT", "PENDING", "ACTIVE", "DRAIN_ROTATE", "DEAD"}
          /\ fd # None => off \in 0 .. size[fd]
          /\ off \in 0 .. MaxLines
          /\ pc \in {"access", "watch_dir", "open", "reg_read", "reg_del", "wait",
                     "events", "read"}
          /\ caller \in {"start", "wait", "events"}

TypeInv == KernelOK /\ FlagsOK /\ DlogOK

IInv == /\ TypeInv /\ Steps /\ Links /\ LinkCount
        /\ Unread /\ UnreadAtDelete /\ Deleted /\ Drained /\ Created

-----------------------------------------------------------------------------
(* The queue of inotify events *)

\* What the arrival of an event does to the queue.
LEMMA Enqueued ==
    ASSUME NEW q \in Seq(Event), NEW kind \in Kinds, NEW f \in 0 .. MaxFiles
    PROVE  LET new == Enqueue(q, kind, f) IN
           /\ new \in Seq(Event)
           /\ In(new, kind, f)
           /\ \A k, g : In(q, k, g) => In(new, k, g)
           /\ \A k, g : In(new, k, g) => In(q, k, g) \/ (k = kind /\ g = f)
           /\ \A g : Ahead(q, g) => Ahead(new, g)
           /\ kind = "attrib" /\ ~In(q, "attrib", f) /\ In(q, "modify", f) => Ahead(new, f)
<1> DEFINE e == [kind |-> kind, file |-> f]
           new == Enqueue(q, kind, f)
<1>1. e \in Event
  BY DEF Event
<1>2. Len(q) \in Nat /\ DOMAIN q = 1 .. Len(q)
  BY LenProperties
<1>3. new = IF q # <<>> /\ q[Len(q)] = e THEN q ELSE Append(q, e)
  BY DEF Enqueue
<1>4. \A k, g : [kind |-> k, file |-> g] = e <=> k = kind /\ g = f
  OBVIOUS
<1> HIDE DEF new, e
<1>5. CASE new = q /\ q # <<>> /\ q[Len(q)] = e
  <2>1. Len(q) \in DOMAIN q
    BY <1>2, <1>5, EmptySeq
  <2>2. In(q, kind, f)
    BY <1>5, <2>1, Zenon DEF In, e
  <2> QED
    BY <1>4, <1>5, <2>2 DEF new, In, Ahead, e
<1>6. CASE new = Append(q, e)
  <2>1. /\ new \in Seq(Event) /\ DOMAIN new = 1 .. Len(q) + 1
        /\ (\A k \in 1 .. Len(q) : new[k] = q[k]) /\ new[Len(q) + 1] = e
    BY <1>1, <1>2, <1>6, AppendProperties, LenProperties
  <2>2. /\ \A k \in DOMAIN q : k \in DOMAIN new /\ new[k] = q[k] /\ k < Len(q) + 1
        /\ Len(q) + 1 \in DOMAIN new
        /\ \A k \in DOMAIN new : k \in DOMAIN q \/ k = Len(q) + 1
    BY <1>2, <2>1
  <2>3. In(new, kind, f)
    BY <2>1, <2>2, Zenon DEF In, e
  <2>4. \A k, g : In(q, k, g) => In(new, k, g)
    BY <2>2, Zenon DEF In
  <2>5. ASSUME NEW k, NEW g, In(new, k, g) PROVE In(q, k, g) \/ (k = kind /\ g = f)
    BY <1>4, <2>1, <2>2, <2>5, Zenon DEF In
  <2>6. ASSUME NEW g, Ahead(q, g) PROVE Ahead(new, g)
    <3>1. PICK j \in DOMAIN q :
             /\ q[j] = [kind |-> "modify", file |-> g]
             /\ \A k \in DOMAIN q : q[k] = [kind |-> "attrib", file |-> g] => j < k
      BY <2>6 DEF Ahead
    <3>2. \A k \in DOMAIN new : new[k] = [kind |-> "attrib", file |-> g] => j < k
      BY <2>2, <3>1, Zenon
    <3> QED
      BY <2>2, <3>1, <3>2, Zenon DEF Ahead
  <2>7. ASSUME kind = "attrib", ~In(q, "attrib", f), In(q, "modify", f) PROVE Ahead(new, f)
    <3>1. PICK j \in DOMAIN q : q[j] = [kind |-> "modify", file |-> f]
      BY <2>7 DEF In
    <3>2. \A k \in DOMAIN new : new[k] = [kind |-> "attrib", file |-> f] => j < k
      BY <2>2, <2>7, Zenon DEF In
    <3> QED
      BY <2>2, <3>1, <3>2, Zenon DEF Ahead
  <2> QED
    BY <2>1, <2>3, <2>4, <2>5, <2>6, <2>7 DEF new
<1> QED
  BY <1>3, <1>5, <1>6

\* What taking the first event does to the queue.
LEMMA Dequeued ==
    ASSUME NEW q \in Seq(Event), q # <<>>
    PROVE  /\ Tail(q) \in Seq(Event)
           /\ Head(q) \in Event
           /\ In(q, Head(q).kind, Head(q).file)
           /\ \A k, g : In(Tail(q), k, g) => In(q, k, g)
           /\ \A k, g : In(q, k, g) =>
                 In(Tail(q), k, g) \/ (Head(q).kind = k /\ Head(q).file = g)
           /\ \A g : Ahead(q, g) =>
                 /\ ~(Head(q).kind = "attrib" /\ Head(q).file = g)
                 /\ Ahead(Tail(q), g) \/ (Head(q).kind = "modify" /\ Head(q).file = g)
<1> DEFINE e == Head(q)
           t == Tail(q)
<1>1. /\ Len(q) \in Nat /\ Len(q) # 0 /\ DOMAIN q = 1 .. Len(q)
      /\ \A k \in 1 .. Len(q) : q[k] \in Event
  BY LenProperties, EmptySeq
<1>2. /\ e = q[1] /\ t \in Seq(Event) /\ Len(t) = Len(q) - 1
      /\ \A k \in 1 .. Len(t) : t[k] = q[k + 1]
  BY HeadTailProperties
<1>3. DOMAIN t = 1 .. Len(q) - 1
  BY <1>2, LenProperties
<1> HIDE DEF e, t
<1>4. /\ 1 \in DOMAIN q /\ e \in Event
      /\ \A k \in DOMAIN t : k + 1 \in DOMAIN q /\ t[k] = q[k + 1]
      /\ \A k \in DOMAIN q : k = 1 \/ (k - 1 \in DOMAIN t /\ t[k - 1] = q[k])
  <2>1. 1 \in DOMAIN q
    BY <1>1
  <2>2. \A k \in DOMAIN t : k + 1 \in DOMAIN q /\ k \in 1 .. Len(t)
    BY <1>1, <1>2, <1>3
  <2>3. \A k \in DOMAIN q : k = 1 \/ (k - 1 \in DOMAIN t /\ k - 1 + 1 = k /\ k - 1 \in 1 .. Len(t))
    BY <1>1, <1>2, <1>3
  <2> QED
    BY <1>1, <1>2, <2>1, <2>2, <2>3
<1>5. \A k, g : e = [kind |-> k, file |-> g] <=> e.kind = k /\ e.file = g
  BY <1>4 DEF Event
<1>6. In(q, e.kind, e.file)
  <2>1. q[1] = [kind |-> e.kind, file |-> e.file]
    BY <1>2, <1>5
  <2> QED
    BY <1>4, <2>1, Zenon DEF In
<1>7. ASSUME NEW k, NEW g, In(t, k, g) PROVE In(q, k, g)
  BY <1>4, <1>7, ZenonT(30) DEF In
<1>8. ASSUME NEW k, NEW g, In(q, k, g) PROVE In(t, k, g) \/ (e.kind = k /\ e.file = g)
  <2>1. PICK i \in DOMAIN q : q[i] = [kind |-> k, file |-> g]
    BY <1>8 DEF In
  <2>2. CASE i = 1
    BY <1>2, <1>5, <2>1, <2>2
  <2>3. CASE i - 1 \in DOMAIN t /\ t[i - 1] = q[i]
    BY <2>1, <2>3, Zenon DEF In
  <2> QED
    BY <1>4, <2>2, <2>3
<1>9. ASSUME NEW g, Ahead(q, g)
      PROVE  /\ ~(e.kind = "attrib" /\ e.file = g)
             /\ (Ahead(t, g) \/ (e.kind = "modify" /\ e.file = g))
  <2>1. PICK j \in DOMAIN q :
           /\ q[j] = [kind |-> "modify", file |-> g]
           /\ \A k \in DOMAIN q : q[k] = [kind |-> "attrib", file |-> g] => j < k
    BY <1>9 DEF Ahead
  <2>2. ~(e.kind = "attrib" /\ e.file = g)
    <3>1. ~(j < 1)
      BY <1>1
    <3> QED
      <4> SUFFICES ASSUME e.kind = "attrib", e.file = g PROVE FALSE
        OBVIOUS
      <4>1. q[1] = [kind |-> "attrib", file |-> g]
        BY <1>2, <1>5
      <4> QED
        BY <1>4, <2>1, <3>1, <4>1
  <2>3. CASE j = 1
    BY <1>2, <1>5, <2>1, <2>2, <2>3
  <2>4. CASE j - 1 \in DOMAIN t /\ t[j - 1] = q[j]
    <3>1. ASSUME NEW k \in DOMAIN t, t[k] = [kind |-> "attrib", file |-> g] PROVE j - 1 < k
      <4>1. j < k + 1
        BY <1>4, <2>1, <3>1
      <4> QED
        BY <1>1, <1>3, <4>1
    <3> QED
      BY <2>1, <2>2, <2>4, <3>1, Zenon DEF Ahead
  <2> QED
    BY <1>4, <2>3, <2>4
<1> QED
  BY <1>2, <1>4, <1>6, <1>7, <1>8, <1>9 DEF e, t

-----------------------------------------------------------------------------
(* Types *)

LEMMA TypeParts == TypeOK /\ off \in 0 .. MaxLines <=> TypeInv
<1>1. FlagsOK <=> {dirwatch, in_dir, pending, to_read} \subseteq BOOLEAN
  BY Zenon DEF FlagsOK
<1>2. {watch, attrib, fd} \subseteq 0 .. made <=>
         watch \in 0 .. made /\ attrib \in 0 .. made /\ fd \in 0 .. made
  BY Zenon
<1> QED
  BY <1>1, <1>2, Zenon DEF TypeOK, TypeInv, KernelOK, DlogOK, Event, Kinds

\* A step of dlog leaves files alone, and takes an event off the queue at most.
LEMMA DlogKernel ==
    ASSUME Dlog
    PROVE  UNCHANGED kernel /\ (queue' = queue \/ (queue # <<>> /\ queue' = Tail(queue)))
<1>1. CASE Access
  BY <1>1 DEF Access
<1>2. CASE WatchDir
  BY <1>2 DEF WatchDir
<1>3. CASE OpenFile
  BY <1>3 DEF OpenFile
<1>4. CASE RegRead
  BY <1>4 DEF RegRead
<1>5. CASE RegDel
  BY <1>5 DEF RegDel
<1>6. CASE Wake
  BY <1>6 DEF Wake
<1>7. CASE Idle
  BY <1>7 DEF Idle
<1>8. CASE CreateEvent
  BY <1>8 DEF CreateEvent
<1>9. CASE ModifyEvent
  BY <1>9 DEF ModifyEvent
<1>10. CASE AttribEvent
  BY <1>10 DEF AttribEvent
<1>11. CASE Collected
  BY <1>11 DEF Collected
<1>12. CASE ReadChunk
  BY <1>12 DEF ReadChunk
<1>13. CASE ReadToEnd
  BY <1>13 DEF ReadToEnd
<1>14. CASE ReadNothing
  BY <1>14 DEF ReadNothing
<1> QED
  BY <1>1, <1>2, <1>3, <1>4, <1>5, <1>6, <1>7, <1>8, <1>9, <1>10, <1>11, <1>12, <1>13,
     <1>14 DEF Dlog

LEMMA DlogKernelOK == KernelOK /\ Dlog => KernelOK'
<1> SUFFICES ASSUME KernelOK, Dlog PROVE KernelOK'
  OBVIOUS
<1>1. UNCHANGED kernel /\ (queue' = queue \/ (queue # <<>> /\ queue' = Tail(queue)))
  BY DlogKernel
<1>2. queue' \in Seq(Event)
  BY <1>1, Dequeued DEF KernelOK
<1> QED
  BY <1>1, <1>2 DEF KernelOK, kernel, history

LEMMA DlogFlagsOK == FlagsOK /\ Dlog => FlagsOK'
<1> SUFFICES ASSUME FlagsOK, Dlog PROVE FlagsOK'
  OBVIOUS
<1> USE DEF FlagsOK, watches, source
<1>1. CASE Access
  BY <1>1, Zenon DEF Access
<1>2. CASE WatchDir
  BY <1>2, Zenon DEF WatchDir
<1>3. CASE OpenFile
  BY <1>3, Zenon DEF OpenFile
<1>4. CASE RegRead
  BY <1>4, Zenon DEF RegRead
<1>5. CASE RegDel
  BY <1>5, Zenon DEF RegDel, FirstRead
<1>6. CASE Wake
  BY <1>6, Zenon DEF Wake
<1>7. CASE Idle
  BY <1>7, Zenon DEF Idle
<1>8. CASE CreateEvent
  BY <1>8, Zenon DEF CreateEvent
<1>9. CASE ModifyEvent
  BY <1>9, Zenon DEF ModifyEvent, ModifyNoted
<1>10. CASE AttribEvent
  BY <1>10, Zenon DEF AttribEvent
<1>11. CASE Collected
  BY <1>11, Zenon DEF Collected
<1>12. CASE ReadChunk
  BY <1>12, Zenon DEF ReadChunk
<1>13. CASE ReadToEnd
  BY <1>13, Zenon DEF ReadToEnd
<1>14. CASE ReadNothing
  BY <1>14, Zenon DEF ReadNothing
<1> QED
  BY <1>1, <1>2, <1>3, <1>4, <1>5, <1>6, <1>7, <1>8, <1>9, <1>10, <1>11, <1>12, <1>13,
     <1>14 DEF Dlog

LEMMA DlogDlogOK == KernelOK /\ DlogOK /\ Dlog => DlogOK'
<1> SUFFICES ASSUME KernelOK, DlogOK, Dlog PROVE DlogOK'
  OBVIOUS
<1>0. /\ UNCHANGED <<path, made, size, nlink>>
      /\ made \in Nat /\ MaxLines \in Nat /\ MaxFiles \in Nat
      /\ made <= MaxFiles /\ path \in 0 .. made
      /\ \A f \in 1 .. made : f \in File /\ size[f] \in 0 .. MaxLines /\ nlink[f] \in 0 .. 1
  BY DlogKernel, FileSourceAssumption DEF kernel, KernelOK, File
<1> USE <1>0 DEF DlogOK, watches, source, None
<1>1. CASE Access
  BY <1>1 DEF Access
<1>2. CASE WatchDir
  BY <1>2 DEF WatchDir, Return
<1>3. CASE OpenFile
  BY <1>3 DEF OpenFile, StartOffset
<1>4. CASE RegRead
  BY <1>4 DEF RegRead
<1>5. CASE RegDel
  BY <1>5 DEF RegDel, Return
<1>6. CASE Wake
  BY <1>6 DEF Wake
<1>7. CASE Idle
  BY <1>7 DEF Idle
<1>8. CASE CreateEvent
  BY <1>8 DEF CreateEvent
<1>9. CASE ModifyEvent
  BY <1>9 DEF ModifyEvent
<1>10. CASE AttribEvent
  BY <1>10 DEF AttribEvent
<1>11. CASE Collected
  BY <1>11 DEF Collected
<1>12. CASE ReadChunk
  BY <1>12 DEF ReadChunk
<1>13. CASE ReadToEnd
  BY <1>13 DEF ReadToEnd
<1>14. CASE ReadNothing
  BY <1>14 DEF ReadNothing
<1> QED
  BY <1>1, <1>2, <1>3, <1>4, <1>5, <1>6, <1>7, <1>8, <1>9, <1>10, <1>11, <1>12, <1>13,
     <1>14 DEF Dlog

-----------------------------------------------------------------------------
(* Steps of other processes *)

LEMMA Numbers ==
    ASSUME KernelOK
    PROVE  /\ made \in Nat /\ MaxLines \in Nat /\ MaxFiles \in Nat /\ made <= MaxFiles
           /\ \A f : f \in File <=> f \in 0 .. MaxFiles /\ f # None
           /\ \A f \in 0 .. made : f \in 0 .. MaxFiles
           /\ \A f \in 1 .. made : f \in File
BY FileSourceAssumption DEF KernelOK, File, None

\* An appended line is announced if the file is the one under watch.
LEMMA AppendKeeps == ASSUME IInv, NEW f \in File, AppendLine(f) PROVE IInv'
<1>1. KernelOK /\ FlagsOK /\ DlogOK
  BY DEF IInv, TypeInv
<1>2. /\ f <= made /\ size[f] < MaxLines
      /\ size' = [size EXCEPT ![f] = @ + 1]
      /\ queue' = IF watch = f THEN Enqueue(queue, "modify", f) ELSE queue
      /\ UNCHANGED <<path, made, nlink, atDelete, unseen, overtaken>>
      /\ UNCHANGED <<dirwatch, in_dir, watch, attrib, link_count, state, fd, off, pending, to_read>>
      /\ UNCHANGED <<pc, caller>>
  BY DEF AppendLine, Notify, history, UnchangedDlog, watches, source
<1>3. /\ queue' \in Seq(Event)
      /\ \A k, g : In(queue, k, g) => In(queue', k, g)
      /\ \A g : Ahead(queue, g) => Ahead(queue', g)
      /\ \A g : In(queue', "attrib", g) => In(queue, "attrib", g)
      /\ watch = f => In(queue', "modify", f)
  BY <1>1, <1>2, Numbers, Enqueued DEF KernelOK, Kinds
<1>4. /\ size' \in [File -> 0 .. MaxLines]
      /\ \A g \in File : size[g] \in Nat /\ size'[g] \in Nat /\ size[g] <= size'[g]
      /\ \A g \in File : g # f => size'[g] = size[g]
  BY <1>1, <1>2, Numbers DEF KernelOK
<1>5. KernelOK' /\ FlagsOK'
  BY <1>1, <1>2, <1>3, <1>4 DEF KernelOK, FlagsOK
<1>6. DlogOK'
  BY <1>1, <1>2, <1>4, Numbers DEF DlogOK, None
<1>7. Steps' /\ LinkCount' /\ Drained' /\ UnreadAtDelete' /\ Deleted' /\ Created'
  BY <1>2, <1>3 DEF IInv, Steps, LinkCount, LinksNow, Drained, UnreadAtDelete, Deleted, Created,
                    Reading, ReadDue, InLoop
<1>8. Links'
  <2>1. \A g \in File : atDelete[g] <= size[g] /\ atDelete[g] \in Nat
    BY <1>1 DEF IInv, Links, KernelOK
  <2>2. \A a, b, c \in Nat : a <= b /\ b <= c => a <= c
    OBVIOUS
  <2>3. \A g \in File : atDelete'[g] <= size'[g]
    BY <1>2, <1>4, <2>1, <2>2
  <2> QED
    BY <1>2, <1>3, <2>3 DEF IInv, Links
<1>9. Unread'
  <2>1. CASE f = fd
    BY <1>2, <1>3, <2>1 DEF Unread, Reading
  <2>2. CASE f # fd
    BY <1>1, <1>2, <1>3, <1>4, <2>2, Numbers DEF IInv, DlogOK, Unread, Reading, ReadDue
  <2> QED
    BY <2>1, <2>2
<1> QED
  BY <1>5, <1>6, <1>7, <1>8, <1>9 DEF IInv, TypeInv

\* A file that arrives is announced or unseen, and overtakes the deletions queued.
LEMMA ArrivesKeeps == ASSUME IInv, NEW told \in BOOLEAN, Arrives(told) PROVE IInv'
<1>1. KernelOK /\ FlagsOK /\ DlogOK
  BY DEF IInv, TypeInv
<1>2. /\ path = None /\ made < MaxFiles /\ made' = made + 1 /\ path' = made + 1
      /\ nlink' = [nlink EXCEPT ![made + 1] = 1]
      /\ queue' = IF told THEN Enqueue(queue, "create", None) ELSE queue
      /\ unseen' = IF told THEN unseen ELSE unseen \cup {made + 1}
      /\ overtaken' = overtaken \cup {f \in File : In(queue, "attrib", f)}
      /\ UNCHANGED <<size, atDelete>>
      /\ UNCHANGED <<dirwatch, in_dir, watch, attrib, link_count, state, fd, off, pending, to_read>>
      /\ UNCHANGED <<pc, caller>>
  BY DEF Arrives, Notify, UnchangedDlog, watches, source, In, Queued
<1>3. /\ queue' \in Seq(Event)
      /\ \A k, g : In(queue, k, g) => In(queue', k, g)
      /\ \A g : Ahead(queue, g) => Ahead(queue', g)
      /\ \A g : In(queue', "attrib", g) => In(queue, "attrib", g)
      /\ told => In(queue', "create", None)
  BY <1>1, <1>2, Numbers, Enqueued DEF KernelOK, Kinds, None
<1>4. made + 1 \in File /\ \A f \in 0 .. made : f \in 0 .. made + 1 /\ f # made + 1
  BY <1>1, <1>2, Numbers DEF None
<1>5. /\ nlink' \in [File -> 0 .. 1] /\ nlink'[made + 1] = 1
      /\ \A f \in 1 .. made : nlink'[f] = nlink[f]
  BY <1>1, <1>2, <1>4, Numbers DEF KernelOK
<1>6. KernelOK' /\ FlagsOK'
  BY <1>1, <1>2, <1>3, <1>4, <1>5, Numbers DEF KernelOK, FlagsOK
<1>7. DlogOK'
  BY <1>1, <1>2, <1>4, Numbers DEF DlogOK, None
<1>8. fd # None => fd \in 1 .. made /\ nlink'[fd] = nlink[fd] /\ fd # made + 1
  BY <1>1, <1>4, <1>5, Numbers DEF DlogOK, None
<1>9. Steps' /\ Drained' /\ Unread'
  BY <1>2, <1>3, <1>8 DEF IInv, Steps, Drained, Unread, Reading, ReadDue, InLoop
<1>10. LinkCount'
  BY <1>2, <1>8 DEF IInv, LinkCount, LinksNow
<1>11. UnreadAtDelete' /\ Deleted'
  BY <1>2, <1>3, <1>8 DEF IInv, UnreadAtDelete, Deleted, Reading, ReadDue
<1>12. Created'
  BY <1>2, <1>3 DEF Created
<1>13. Links'
  <2>1. ASSUME NEW f \in 0 .. MaxFiles, In(queue', "attrib", f)
        PROVE  f \in 1 .. made + 1 /\ nlink'[f] = 0 /\ f \in overtaken'
    <3>1. f \in 1 .. made /\ nlink[f] = 0 /\ In(queue, "attrib", f)
      BY <1>3, <2>1 DEF IInv, Links
    <3> QED
      BY <1>1, <1>2, <1>5, <3>1, Numbers
  <2> QED
    BY <1>2, <1>5, <2>1 DEF IInv, Links
<1> QED
  BY <1>6, <1>7, <1>9, <1>10, <1>11, <1>12, <1>13 DEF IInv, TypeInv

\* The deletion of a file is queued behind the modifications of it.
LEMMA DeleteKeeps == ASSUME IInv, Delete PROVE IInv'
<1>1. KernelOK /\ FlagsOK /\ DlogOK
  BY DEF IInv, TypeInv
<1>2. /\ path # None /\ path' = None
      /\ nlink' = [nlink EXCEPT ![path] = 0]
      /\ atDelete' = [atDelete EXCEPT ![path] = size[path]]
      /\ queue' = IF attrib = path THEN Enqueue(queue, "attrib", path) ELSE queue
      /\ UNCHANGED <<made, size, unseen, overtaken>>
      /\ UNCHANGED <<dirwatch, in_dir, watch, attrib, link_count, state, fd, off, pending, to_read>>
      /\ UNCHANGED <<pc, caller>>
  BY DEF Delete, Notify, UnchangedDlog, watches, source
<1>3. path \in 1 .. made /\ path \in File /\ path \in 0 .. MaxFiles
  BY <1>1, <1>2, Numbers DEF KernelOK, None
<1>4. ~In(queue, "attrib", path)
  BY <1>2, <1>3 DEF IInv, Links
<1>5. /\ queue' \in Seq(Event)
      /\ \A k, g : In(queue, k, g) => In(queue', k, g)
      /\ \A g : Ahead(queue, g) => Ahead(queue', g)
      /\ \A g : In(queue', "attrib", g) => In(queue, "attrib", g) \/ (g = path /\ attrib = path)
      /\ attrib = path => In(queue', "attrib", path)
      /\ In(queue, "modify", path) => Ahead(queue', path)
  <2>1. CASE attrib = path
    <3> DEFINE new == Enqueue(queue, "attrib", path)
    <3>1. /\ new \in Seq(Event)
          /\ In(new, "attrib", path)
          /\ \A k, g : In(queue, k, g) => In(new, k, g)
          /\ \A k, g : In(new, k, g) => In(queue, k, g) \/ (k = "attrib" /\ g = path)
          /\ \A g : Ahead(queue, g) => Ahead(new, g)
          /\ In(queue, "modify", path) => Ahead(new, path)
      BY <1>1, <1>3, <1>4, Enqueued DEF KernelOK, Kinds
    <3>2. queue' = new
      BY <1>2, <2>1
    <3> QED
      BY <2>1, <3>1, <3>2
  <2>2. CASE attrib # path
    <3>1. queue' = queue
      BY <1>2, <2>2
    <3>2. In(queue, "modify", path) => Ahead(queue, path)
      BY <1>4, Zenon DEF In, Ahead
    <3> QED
      BY <1>1, <2>2, <3>1, <3>2 DEF KernelOK
  <2> QED
    BY <2>1, <2>2
<1>6. /\ nlink' \in [File -> 0 .. 1] /\ nlink'[path] = 0
      /\ \A f \in File : f # path => nlink'[f] = nlink[f]
      /\ atDelete' \in [File -> 0 .. MaxLines] /\ atDelete'[path] = size[path]
      /\ \A f \in File : f # path => atDelete'[f] = atDelete[f]
  BY <1>1, <1>2, <1>3, Numbers DEF KernelOK
<1>7. KernelOK' /\ FlagsOK'
  BY <1>1, <1>2, <1>5, <1>6, Numbers, SMTT(30) DEF KernelOK, FlagsOK, None
<1>8. DlogOK'
  BY <1>1, <1>2, Numbers DEF DlogOK, None
<1>9. Steps' /\ Unread' /\ Created'
  BY <1>2, <1>5 DEF IInv, Steps, Unread, Created, Reading, ReadDue, InLoop
<1>10. fd # None => fd \in File
  BY <1>1, Numbers DEF DlogOK, None
<1>11. LinkCount'
  <2>1. watch # fd /\ watch # None => link_count = LinksNow /\ (fd # None => path # fd)
    BY DEF IInv, LinkCount
  <2>2. watch # fd /\ watch # None => LinksNow' = LinksNow
    BY <1>2, <1>6, <1>10, <2>1 DEF LinksNow
  <2> QED
    BY <1>2, <2>1, <2>2 DEF IInv, LinkCount, None
<1>12. UnreadAtDelete'
  <2> SUFFICES ASSUME Reading, nlink'[fd] = 0, off < atDelete'[fd]
               PROVE  ReadDue \/ Ahead(queue', fd)
    BY <1>2 DEF UnreadAtDelete, Reading, ReadDue
  <2>1. CASE fd = path
    BY <1>5, <1>6, <2>1 DEF IInv, Unread
  <2>2. CASE fd # path
    BY <1>5, <1>6, <1>10, <2>2 DEF IInv, UnreadAtDelete, Reading
  <2> QED
    BY <2>1, <2>2
<1>13. Deleted'
  <2> SUFFICES ASSUME Reading, nlink'[fd] = 0, attrib = fd
               PROVE  In(queue', "attrib", fd) \/ fd \in overtaken
    BY <1>2 DEF Deleted, Reading
  <2>1. CASE fd = path
    BY <1>5, <2>1
  <2>2. CASE fd # path
    BY <1>5, <1>6, <1>10, <2>2 DEF IInv, Deleted, Reading
  <2> QED
    BY <2>1, <2>2
<1>14. Drained'
  <2> SUFFICES ASSUME state = "DRAIN_ROTATE", fd # None PROVE ReadDue \/ off >= atDelete'[fd]
    BY <1>2 DEF Drained, ReadDue, None
  <2> QED
    BY <1>6, <1>10 DEF IInv, Drained
<1>15. Links'
  <2>1. \A f \in File : atDelete'[f] <= size[f]
    BY <1>1, <1>3, <1>6, Numbers, SMTT(30) DEF IInv, Links, KernelOK
  <2>2. ASSUME NEW f \in 0 .. MaxFiles, In(queue', "attrib", f)
        PROVE  f \in 1 .. made /\ nlink'[f] = 0
    <3>1. CASE f = path
      BY <1>3, <1>6, <3>1
    <3>2. CASE f # path
      <4>1. f \in 1 .. made /\ nlink[f] = 0
        BY <1>5, <2>2, <3>2 DEF IInv, Links
      <4> QED
        BY <1>1, <1>6, <3>2, <4>1, Numbers
    <3> QED
      BY <3>1, <3>2
  <2> QED
    BY <1>2, <2>1, <2>2 DEF Links
<1> QED
  BY <1>7, <1>8, <1>9, <1>11, <1>12, <1>13, <1>14, <1>15 DEF IInv, TypeInv

\* A file that is renamed is as it was, except that the path is free.
LEMMA RenameKeeps == ASSUME IInv, RenameAway PROVE IInv'
<1>1. KernelOK /\ FlagsOK /\ DlogOK
  BY DEF IInv, TypeInv
<1>2. /\ path' = None /\ UNCHANGED <<made, size, nlink, queue, atDelete, unseen, overtaken>>
      /\ UNCHANGED <<dirwatch, in_dir, watch, attrib, link_count, state, fd, off, pending, to_read>>
      /\ UNCHANGED <<pc, caller>>
  BY DEF RenameAway, history, UnchangedDlog, watches, source
<1>3. TypeInv'
  BY <1>1, <1>2, Numbers DEF TypeInv, KernelOK, FlagsOK, DlogOK, None
<1> QED
  BY <1>2, <1>3 DEF IInv, Steps, Links, LinkCount, LinksNow, Unread, UnreadAtDelete, Deleted,
                    Drained, Created, Reading, ReadDue, InLoop, None

LEMMA OthersKeep == IInv /\ Others => IInv'
<1> SUFFICES ASSUME IInv, Others PROVE IInv'
  OBVIOUS
<1>1. CASE Create
  <2>1. dirwatch \in BOOLEAN
    BY DEF IInv, TypeInv, FlagsOK
  <2> QED
    BY <1>1, <2>1, ArrivesKeeps DEF Create
<1>2. CASE MoveIn
  BY <1>2, ArrivesKeeps DEF MoveIn
<1> QED
  BY <1>1, <1>2, AppendKeeps, DeleteKeeps, RenameKeeps DEF Others

-----------------------------------------------------------------------------
(* Steps of dlog *)

\* What the source relies on, apart from the files and the queue.
SourceInv == /\ Steps /\ LinkCount /\ Unread /\ UnreadAtDelete /\ Deleted /\ Drained /\ Created

\* Every system call and every event that dlog processes keeps the invariant.
LEMMA DlogKeeps == IInv /\ Dlog => IInv'
<1> SUFFICES ASSUME IInv, Dlog PROVE IInv'
  OBVIOUS
<1>1. KernelOK /\ FlagsOK /\ DlogOK
  BY DEF IInv, TypeInv
<1>2. TypeInv'
  BY <1>1, DlogKernelOK, DlogFlagsOK, DlogDlogOK DEF TypeInv
<1>3. /\ UNCHANGED <<path, made, size, nlink, atDelete, unseen, overtaken>>
      /\ queue' = queue \/ (queue # <<>> /\ queue' = Tail(queue))
  BY DlogKernel DEF kernel, history
<1>4. Links'
  <2>1. \A k, g : In(queue', k, g) => In(queue, k, g)
    BY <1>1, <1>3, Dequeued DEF KernelOK
  <2> QED
    BY <1>3, <2>1 DEF IInv, Links
<1>5. /\ path \in 0 .. made /\ fd \in 0 .. made /\ watch \in 0 .. made
      /\ \A f \in 1 .. made : f \in File
  BY <1>1, Numbers DEF KernelOK, DlogOK
<1>6. SourceInv
  BY DEF IInv, SourceInv
<1>7. caller \in {"start", "wait", "events"} /\ (path # None => nlink[path] = 1)
  BY <1>1 DEF IInv, Links, DlogOK
<1>8. ASSUME fd # None
      PROVE  off \in Nat /\ size[fd] \in Nat /\ atDelete[fd] \in Nat /\ atDelete[fd] <= size[fd]
             /\ off <= size[fd] /\ nlink[fd] \in {0, 1}
  <2>1. fd \in File
    BY <1>5, <1>8 DEF None
  <2>2. size[fd] \in 0 .. MaxLines /\ atDelete[fd] \in 0 .. MaxLines /\ off \in 0 .. size[fd]
        /\ nlink[fd] \in 0 .. 1
    BY <1>1, <1>8, <2>1 DEF KernelOK, DlogOK
  <2>3. atDelete[fd] <= size[fd]
    BY <2>1 DEF IInv, Links
  <2> QED
    BY <2>2, <2>3, FileSourceAssumption
<1>9. link_count \in -1 .. 1
  BY <1>1 DEF DlogOK
<1>10. ASSUME queue # <<>>
       PROVE  LET e == Head(queue) IN
              /\ \A k, g : In(queue, k, g) => In(Tail(queue), k, g) \/ (e.kind = k /\ e.file = g)
              /\ \A g : Ahead(queue, g) =>
                    /\ ~(e.kind = "attrib" /\ e.file = g)
                    /\ Ahead(Tail(queue), g) \/ (e.kind = "modify" /\ e.file = g)
              /\ e.kind = "attrib" =>
                    /\ e.file \in 1 .. made /\ nlink[e.file] = 0
                    /\ path # None => e.file \in overtaken
  <2> DEFINE e == Head(queue)
  <2>1. e \in Event /\ In(queue, e.kind, e.file)
    BY <1>1, <1>10, Dequeued DEF KernelOK
  <2>2. e.file \in 0 .. MaxFiles
    BY <2>1 DEF Event
  <2> HIDE DEF e
  <2>3. ASSUME e.kind = "attrib"
        PROVE  e.file \in 1 .. made /\ nlink[e.file] = 0 /\ (path # None => e.file \in overtaken)
    BY <2>1, <2>2, <2>3 DEF IInv, Links
  <2>4. /\ \A k, g : In(queue, k, g) => In(Tail(queue), k, g) \/ (e.kind = k /\ e.file = g)
        /\ \A g : Ahead(queue, g) =>
              /\ ~(e.kind = "attrib" /\ e.file = g)
              /\ Ahead(Tail(queue), g) \/ (e.kind = "modify" /\ e.file = g)
    BY <1>1, <1>10, Dequeued DEF KernelOK, e
  <2> QED
    BY <2>3, <2>4 DEF e
<1> HIDE DEF IInv
<1> USE <1>3, <1>5, <1>6, <1>7 DEF SourceInv, Steps, LinkCount, LinksNow, Unread,
        UnreadAtDelete, Deleted, Drained, Created, Reading, ReadDue, InLoop, watches, source, None
<1>11. ASSUME Access PROVE SourceInv'
  BY <1>11 DEF Access
<1>12. ASSUME WatchDir PROVE SourceInv'
  BY <1>12 DEF WatchDir, Return
<1>13. ASSUME OpenFile PROVE SourceInv'
  BY <1>13 DEF OpenFile
<1>14. ASSUME RegRead PROVE SourceInv'
  BY <1>14 DEF RegRead
<1>15. ASSUME RegDel PROVE SourceInv'
  BY <1>15 DEF RegDel, Return, FirstRead
<1>16. ASSUME Wake PROVE SourceInv'
  BY <1>16 DEF Wake
<1>17. ASSUME Idle PROVE SourceInv'
  BY <1>17 DEF Idle
<1>18. ASSUME CreateEvent PROVE SourceInv'
  BY <1>10, <1>18 DEF CreateEvent
<1>19. ASSUME ModifyEvent PROVE SourceInv'
  <2>1. /\ pc = "events" /\ queue # <<>> /\ Head(queue).kind = "modify" /\ queue' = Tail(queue)
        /\ to_read' = (to_read \/ Head(queue).file = watch)
        /\ UNCHANGED <<in_dir, watch, attrib, link_count, state, fd, off, pending, pc>>
    BY <1>19 DEF ModifyEvent, ModifyNoted
  <2>2. to_read \/ Head(queue).file = watch => to_read'
    BY <2>1, Zenon
  <2>3. Steps' /\ LinkCount' /\ Drained' /\ Created'
    BY <1>10, <2>1, <2>2
  <2>4. Unread' /\ UnreadAtDelete'
    BY <1>10, <2>1, <2>2
  <2>5. Deleted'
    BY <1>10, <2>1
  <2> QED
    BY <2>3, <2>4, <2>5
<1>20. ASSUME AttribEvent PROVE SourceInv'
  BY <1>8, <1>9, <1>10, <1>20 DEF AttribEvent, IsGone
<1>21. ASSUME Collected PROVE SourceInv'
  BY <1>21 DEF Collected
<1>22. ASSUME ReadChunk PROVE SourceInv'
  BY <1>22 DEF ReadChunk
<1>23. ASSUME ReadToEnd PROVE SourceInv'
  BY <1>8, <1>23 DEF ReadToEnd
<1>24. ASSUME ReadNothing PROVE SourceInv'
  BY <1>24 DEF ReadNothing
<1> QED
  BY <1>2, <1>4, <1>11, <1>12, <1>13, <1>14, <1>15, <1>16, <1>17, <1>18, <1>19, <1>20,
     <1>21, <1>22, <1>23, <1>24 DEF Dlog, IInv, SourceInv

-----------------------------------------------------------------------------
(* Every behaviour *)

LEMMA InitIInv == Init => IInv
<1> SUFFICES ASSUME Init PROVE IInv
  OBVIOUS
<1>1. made \in {0, 1} /\ MaxFiles \in Nat \ {0} /\ MaxLines \in Nat
  BY FileSourceAssumption DEF Init
<1>2. KernelOK
  <2>1. size \in [File -> 0 .. MaxLines] /\ atDelete \in [File -> 0 .. MaxLines]
    BY <1>1 DEF Init
  <2>2. nlink \in [File -> 0 .. 1]
    BY DEF Init
  <2> QED
    BY <1>1, <2>1, <2>2 DEF Init, KernelOK
<1>3. FlagsOK
  BY Zenon DEF Init, FlagsOK
<1>4. DlogOK
  BY <1>1 DEF Init, DlogOK, None
<1>5. \A k, f : ~In(queue, k, f)
  BY DEF Init, In
<1>6. Links
  <2>1. path # None => path \in File /\ nlink[path] = 1
    BY <1>1 DEF Init, File, None
  <2>2. \A f \in File : atDelete[f] <= size[f]
    BY DEF Init
  <2> QED
    BY <1>5, <2>1, <2>2 DEF Links
<1>7. Steps /\ LinkCount /\ Unread /\ UnreadAtDelete /\ Deleted /\ Drained /\ Created
  BY DEF Init, Steps, LinkCount, Unread, UnreadAtDelete, Deleted, Drained, Created, Reading,
         InLoop, None
<1> QED
  BY <1>2, <1>3, <1>4, <1>6, <1>7 DEF IInv, TypeInv

LEMMA NextIInv == IInv /\ [Next]_vars => IInv'
<1> SUFFICES ASSUME IInv, [Next]_vars PROVE IInv'
  OBVIOUS
<1>1. CASE UNCHANGED vars
  BY <1>1 DEF vars, kernel, history, watches, source, IInv, TypeInv, KernelOK, FlagsOK, DlogOK,
              Steps, Links, LinkCount, LinksNow, Unread, UnreadAtDelete, Deleted, Drained,
              Created, Reading, ReadDue, InLoop
<1> QED
  BY <1>1, OthersKeep, DlogKeeps DEF Next

\* Whatever other processes do between its steps, a source that goes to sleep with
\* lines unread in the file it has open and watches is woken up for them: it is in
\* the table of pending reads, or an IN_MODIFY event is queued.
THEOREM UnreadLinesAnnounced == Spec => []UnreadIsAnnounced
<1>1. IInv => UnreadIsAnnounced
  BY TypeParts DEF IInv, Unread, Reading, ReadDue, In, UnreadIsAnnounced, Queued
<1> QED
  BY <1>1, InitIInv, NextIInv, PTL DEF Spec

\* A source in state DRAIN_ROTATE has read all that was in the file when it was
\* deleted, or has a read pending that goes on with it.
THEOREM DeletedIsDrained == Spec => []DrainedBeforeGone
<1>1. IInv => DrainedBeforeGone
  BY DEF IInv, Drained, ReadDue, DrainedBeforeGone
<1> QED
  BY <1>1, InitIInv, NextIInv, PTL DEF Spec

\* No creation or deletion is missed, but for files moved to the path, files that
\* came before the directory was watched, and deletions that were overtaken.
THEOREM ChangesAreNoticed == Spec => []ChangesNoticed
<1>1. IInv => ChangesNoticed
  BY DEF IInv, Steps, Created, Deleted, Reading, InLoop, In, ChangesNoticed, Queued
<1> QED
  BY <1>1, InitIInv, NextIInv, PTL DEF Spec

-----------------------------------------------------------------------------
(***************************************************************************)
(* What becomes of the bytes a source is read for: proofs about lr.c, for  *)
(* every input and every way of cutting it into reads.  No byte is lost or *)
(* repeated, and exactly which lines are delivered.                        *)
(***************************************************************************)
\* Conservation, byte by byte: the form in which it is inductive.
BytesInPlace == /\ Len(out) + Len(buf) = pos
                /\ \A k \in 1 .. Len(out) : out[k] = input[k]
                /\ \A k \in 1 .. Len(buf) : buf[k] = input[Len(out) + k]

\* A scan stops behind a terminator or where the bytes ran out, and never goes
\* back behind the place where they ran out before.
ScanBoundary == /\ Scanned > 0 => Scanned \in cuts \/ input[Scanned] = NL
                /\ \A c \in cuts : c <= Scanned

ReaderInv == ReaderTypeOK /\ BytesInPlace /\ ScanBoundary /\ DeliveredExactly

\* The step on which DeliveredExactly rests: when a scan that started behind the
\* bytes scanned before skips to k and meets no terminator between k and nl, no
\* line that reader_get_next_line should have delivered ends there.
LEMMA NothingBetween ==
    ASSUME ReaderInv, NEW k \in 0 .. Len(buf), SkipStopsAt(k),
           NEW nl \in 0 .. Len(buf),
           \A j \in k+1 .. nl : buf[j] # NL,
           NEW p \in LineEnds, p > Scanned, p <= Len(out) + nl
    PROVE  p - 1 \in cuts
<1> DEFINE j == p - Len(out)
<1>1. /\ Len(out) \in Nat /\ Len(buf) \in Nat /\ Len(input) \in Nat
      /\ p \in 2 .. Len(input) /\ input[p] = NL /\ input[p-1] # NL
      /\ Scanned \in Nat /\ Scanned = Len(out) + cur_idx
  BY DEF LineEnds, Scanned, ReaderInv, ReaderTypeOK
<1>2. cur_idx \in Nat /\ k \in Nat /\ nl \in Nat /\ k <= Len(buf) /\ nl <= Len(buf)
  BY <1>1 DEF ReaderInv, ReaderTypeOK
<1>3. /\ j \in Nat /\ j >= cur_idx + 1 /\ j <= nl
      /\ p = Len(out) + j /\ j \in 1 .. Len(buf)
  BY <1>1, <1>2
<1> HIDE DEF j
<1>4. buf[j] = NL
  BY <1>1, <1>3 DEF ReaderInv, BytesInPlace
<1>5. j <= k
  <2>1. j \notin k+1 .. nl
    BY <1>4
  <2> QED
    BY <1>2, <1>3, <2>1
<1>6. j = cur_idx + 1
  <2> SUFFICES ASSUME j > cur_idx + 1 PROVE FALSE
    BY <1>2, <1>3
  <2>1. j - 1 \in cur_idx + 1 .. k /\ j - 1 \in 1 .. Len(buf)
    BY <1>1, <1>2, <1>3, <1>5
  <2>2. buf[j-1] = NL
    BY <2>1 DEF SkipStopsAt
  <2>3. input[Len(out) + (j - 1)] = NL
    BY <2>1, <2>2 DEF ReaderInv, BytesInPlace
  <2>4. Len(out) + (j - 1) = p - 1
    BY <1>1, <1>3
  <2> QED
    BY <2>3, <2>4, <1>1
<1>7. p - 1 = Scanned /\ Scanned > 0
  BY <1>1, <1>2, <1>3, <1>6
<1> QED
  BY <1>1, <1>7 DEF ReaderInv, ScanBoundary

LEMMA InitReader ==
    ReaderInit => ReaderInv
<1> SUFFICES ASSUME ReaderInit PROVE ReaderInv
  OBVIOUS
<1> USE InputsAssumption DEF ReaderInit
<1>1. ReaderTypeOK
  BY DEF ReaderTypeOK
<1>2. BytesInPlace
  BY DEF BytesInPlace
<1>3. ScanBoundary
  BY DEF ScanBoundary, Scanned
<1>4. DeliveredExactly
  BY DEF DeliveredExactly, Scanned, LineEnds
<1> QED
  BY <1>1, <1>2, <1>3, <1>4 DEF ReaderInv

\* A read appends to the buffer what the source sends next.
LEMMA ReadKeeps == ASSUME ReaderInv, NEW n \in 1 .. Len(input), Read(n) PROVE ReaderInv'
<1> USE DEF ReaderInv
<1>0. /\ pos + n <= Len(input) /\ pos' = pos + n
      /\ UNCHANGED <<input, cur_idx, phase, out, ends, cuts>>
  BY DEF Read
<1>1. /\ Len(out) \in Nat /\ Len(buf) \in Nat /\ Len(input) \in Nat /\ n \in Nat
      /\ pos \in Nat /\ Len(out) + Len(buf) = pos
  BY DEF ReaderTypeOK, BytesInPlace
<1> DEFINE new == SubSeq(input, pos + 1, pos + n)
<1>2. /\ new \in Seq(Bytes) /\ Len(new) = n
      /\ \A k \in 1..n : new[k] = input[pos + k]
  BY <1>0, <1>1, SubSeqProperties DEF ReaderTypeOK
<1>b. buf' = buf \o new /\ buf \in Seq(Bytes)
  BY DEF ReaderTypeOK, Read
<1> HIDE DEF new, ReaderInv
<1>3. /\ buf' \in Seq(Bytes) /\ Len(buf') = Len(buf) + n
      /\ \A k \in 1 .. Len(buf) : buf'[k] = buf[k]
      /\ \A k \in Len(buf) + 1 .. Len(buf) + n : buf'[k] = new[k - Len(buf)]
  <2>1. /\ buf \o new \in Seq(Bytes)
        /\ Len(buf \o new) = Len(buf) + Len(new)
        /\ \A k \in 1 .. Len(buf) + Len(new) :
              (buf \o new)[k] = IF k <= Len(buf) THEN buf[k] ELSE new[k - Len(buf)]
    BY <1>2, <1>b, ConcatProperties
  <2> QED
    BY <1>1, <1>2, <1>b, <2>1
<1> USE DEF ReaderInv
<1>4. ReaderTypeOK'
  BY <1>0, <1>1, <1>3 DEF ReaderTypeOK
<1>5. BytesInPlace'
  <2>1. \A k \in 1 .. Len(buf') : buf'[k] = input[Len(out) + k]
    <3> TAKE k \in 1 .. Len(buf')
    <3>1. CASE k <= Len(buf)
      BY <3>1, <1>1, <1>3 DEF BytesInPlace
    <3>2. CASE k > Len(buf)
      <4>1. k - Len(buf) \in 1..n /\ pos + (k - Len(buf)) = Len(out) + k
        <5>1. Len(buf') = Len(buf) + n
          BY <1>3
        <5>2. k \in Nat /\ k <= Len(buf) + n
          BY <1>1, <5>1
        <5> QED
          BY <3>2, <5>2, <1>1
      <4>2. buf'[k] = new[k - Len(buf)]
        BY <3>2, <1>1, <1>3
      <4> QED
        BY <4>1, <4>2, <1>2
    <3> QED
      BY <3>1, <3>2, <1>1, <1>3
  <2>2. Len(out) + Len(buf') = pos + n
    BY <1>1, <1>3
  <2> QED
    BY <2>1, <2>2, <1>0 DEF BytesInPlace
<1>6. Scanned' = Scanned /\ LineEnds' = LineEnds
  BY <1>0 DEF Scanned, LineEnds
<1>7. ScanBoundary' /\ DeliveredExactly'
  BY <1>0, <1>6 DEF ScanBoundary, DeliveredExactly
<1> QED
  BY <1>4, <1>5, <1>7

\* Taking a line off the front of the buffer.
LEMMA GetLineKeeps == ASSUME ReaderInv, GetLine PROVE ReaderInv'
<1> USE DEF ReaderInv
<1>p. PICK k \in 0 .. Len(buf), nl \in 1 .. Len(buf) :
            /\ SkipStopsAt(k)
            /\ TerminatorAt(k, nl)
            /\ out' = out \o SubSeq(buf, 1, nl)
            /\ ends' = ends \cup {Len(out) + nl}
            /\ buf' = SubSeq(buf, nl + 1, Len(buf))
            /\ cur_idx' = 0
  BY DEF GetLine, Rest, ScanFrom
<1>0. UNCHANGED <<input, pos, phase, cuts>>
  BY DEF GetLine
<1>1. /\ Len(out) \in Nat /\ Len(buf) \in Nat /\ Len(input) \in Nat /\ nl \in Nat
      /\ k \in Nat /\ pos \in Nat /\ cur_idx \in Nat /\ cur_idx <= k
      /\ Len(out) + Len(buf) = pos
  BY <1>p DEF ReaderTypeOK, SkipStopsAt, BytesInPlace
<1> DEFINE line == SubSeq(buf, 1, nl)
<1>2. line \in Seq(Bytes) /\ Len(line) = nl /\ \A i \in 1..nl : line[i] = buf[i]
  BY <1>1, SubSeqProperties DEF ReaderTypeOK
<1>3. /\ out' \in Seq(Bytes) /\ Len(out') = Len(out) + nl
      /\ \A i \in 1 .. Len(out) : out'[i] = out[i]
      /\ \A i \in Len(out) + 1 .. Len(out) + nl : out'[i] = line[i - Len(out)]
  BY <1>p, <1>1, <1>2, ConcatProperties, SMTT(30) DEF ReaderTypeOK
<1>4. /\ buf' \in Seq(Bytes) /\ Len(buf') = Len(buf) - nl
      /\ \A i \in 1 .. Len(buf) - nl : buf'[i] = buf[nl + i]
  <2>1. \A i \in nl + 1 .. Len(buf) : buf[i] \in Bytes
    BY <1>1 DEF ReaderTypeOK
  <2>2. /\ buf' \in Seq(Bytes)
        /\ Len(buf') = IF nl + 1 <= Len(buf) THEN Len(buf) - (nl + 1) + 1 ELSE 0
        /\ \A i \in 1 .. Len(buf) - (nl + 1) + 1 : buf'[i] = buf[(nl + 1) + i - 1]
    <3>1. PICK rest : rest = SubSeq(buf, nl + 1, Len(buf))
      OBVIOUS
    <3>2. buf \in Seq(Bytes) /\ nl + 1 \in Int /\ Len(buf) \in Int
      BY <1>1 DEF ReaderTypeOK
    <3>3. /\ rest \in Seq(Bytes)
          /\ Len(rest) = IF nl + 1 <= Len(buf) THEN Len(buf) - (nl + 1) + 1 ELSE 0
          /\ \A i \in 1 .. Len(buf) - (nl + 1) + 1 : rest[i] = buf[(nl + 1) + i - 1]
      BY <1>1, <2>1, <3>1, <3>2, SubSeqProperties
    <3> QED
      BY <1>p, <3>1, <3>3
  <2>3. Len(buf) - (nl + 1) + 1 = Len(buf) - nl /\ nl <= Len(buf)
    BY <1>1
  <2>4. \A i \in 1 .. Len(buf) - nl : (nl + 1) + i - 1 = nl + i
    BY <1>1
  <2> QED
    <3>1. Len(buf') = Len(buf) - nl
      BY <1>1, <2>2
    <3> QED
      BY <2>2, <2>3, <2>4, <3>1
<1> HIDE DEF line
<1>5. Len(out) + nl <= pos /\ Len(out) + nl \in 1 .. Len(input)
  BY <1>1 DEF ReaderTypeOK
<1>6. ReaderTypeOK'
  <2>1. cur_idx' \in 0 .. Len(buf') /\ ends' \subseteq 1 .. Len(input)
    <3>1. Len(buf') \in Nat
      BY <1>1, <1>4
    <3>2. cur_idx' = 0 /\ ends' = ends \cup {Len(out) + nl}
      BY <1>p
    <3>3. ends \subseteq 1 .. Len(input)
      BY DEF ReaderTypeOK
    <3>4. cur_idx' \in 0 .. Len(buf')
      BY <3>1, <3>2
    <3> QED
      BY <3>2, <3>3, <3>4, <1>5
  <2> QED
    BY <2>1, <1>0, <1>3, <1>4 DEF ReaderTypeOK
<1>7. BytesInPlace'
  <2>1. Len(out') + Len(buf') = pos
    <3>1. Len(out') = Len(out) + nl /\ Len(buf') = Len(buf) - nl
      BY <1>3, <1>4
    <3> QED
      BY <3>1, <1>1
  <2>2. \A i \in 1 .. Len(out') : out'[i] = input[i]
    <3> TAKE i \in 1 .. Len(out')
    <3>1. CASE i <= Len(out)
      BY <3>1, <1>1, <1>3 DEF BytesInPlace
    <3>2. CASE i > Len(out)
      <4>1. i - Len(out) \in 1..nl /\ i - Len(out) \in 1 .. Len(buf)
            /\ Len(out) + (i - Len(out)) = i
        BY <3>2, <1>1, <1>3
      <4>2. out'[i] = buf[i - Len(out)]
        BY <3>2, <4>1, <1>1, <1>2, <1>3
      <4> QED
        BY <4>1, <4>2 DEF BytesInPlace
    <3> QED
      BY <3>1, <3>2, <1>1, <1>3
  <2>3. \A i \in 1 .. Len(buf') : buf'[i] = input[Len(out') + i]
    <3> TAKE i \in 1 .. Len(buf')
    <3>1. nl + i \in 1 .. Len(buf) /\ Len(out) + (nl + i) = Len(out') + i
          /\ i \in 1 .. Len(buf) - nl
      BY <1>1, <1>3, <1>4
    <3> QED
      BY <3>1, <1>4 DEF BytesInPlace
  <2> QED
    BY <2>1, <2>2, <2>3, <1>0 DEF BytesInPlace
<1>8. Scanned' = Len(out) + nl /\ Scanned' > Scanned /\ Scanned \in Nat
  <2>1. cur_idx < nl
    BY <1>p, <1>1 DEF TerminatorAt
  <2>2. cur_idx' = 0
    BY <1>p
  <2> QED
    BY <1>1, <1>3, <2>1, <2>2 DEF Scanned
<1>9. input[Len(out) + nl] = NL /\ nl >= k + 2 /\ input[Len(out) + nl - 1] # NL
  <2>1. buf[nl] = NL /\ nl \in k+1 .. Len(buf) /\ nl # k+1
    BY <1>p, <1>1 DEF TerminatorAt, SkipStopsAt
  <2>2. nl - 1 \in k+1 .. nl-1 /\ nl - 1 \in 1 .. Len(buf)
    BY <1>1, <2>1
  <2>3. buf[nl-1] # NL
    BY <1>p, <2>2 DEF TerminatorAt
  <2>4. buf[nl-1] = input[Len(out) + (nl-1)]
    BY <2>2 DEF BytesInPlace
  <2>5. Len(out) + (nl-1) = Len(out) + nl - 1
    BY <1>1
  <2>6. buf[nl] = input[Len(out) + nl]
    BY DEF BytesInPlace
  <2> QED
    BY <1>1, <2>1, <2>3, <2>4, <2>5, <2>6
<1>10. ScanBoundary'
  <2>1. \A c \in cuts : c \in Nat /\ c <= Scanned
    BY <1>1 DEF ScanBoundary, ReaderTypeOK
  <2> QED
    BY <1>0, <1>8, <1>9, <2>1, <1>1 DEF ScanBoundary
<1>11. Len(out) + nl \in LineEnds /\ (Len(out) + nl) - 1 \notin cuts
  <2>1. Len(out) + nl \in 2 .. Len(input)
    BY <1>1, <1>5, <1>9
  <2>2. (Len(out) + nl) - 1 > Scanned
    BY <1>1, <1>9 DEF Scanned
  <2> QED
    BY <1>9, <2>1, <2>2, <1>1, <1>8 DEF LineEnds, ScanBoundary, ReaderTypeOK
<1>12. ASSUME NEW p \in LineEnds, p > Scanned, p < Len(out) + nl PROVE p - 1 \in cuts
  <2>1. nl - 1 \in 0 .. Len(buf) /\ p <= Len(out) + (nl - 1)
    BY <1>1, <1>12 DEF LineEnds
  <2>2. \A j \in k+1 .. nl-1 : buf[j] # NL
    BY <1>p DEF TerminatorAt
  <2> HIDE DEF ReaderInv
  <2> QED
    BY <1>p, <2>1, <2>2, <1>12, NothingBetween
<1>e. ends' = ends \cup {Len(out) + nl}
  BY <1>p
<1>13. DeliveredExactly'
  <2>1. LineEnds' = LineEnds /\ LineEnds \subseteq Nat
    BY <1>0, <1>1 DEF LineEnds
  <2>2. ASSUME NEW p \in LineEnds
        PROVE  p \in ends' <=> p <= Scanned' /\ p - 1 \notin cuts
    <3>1. p \in Nat
      BY <2>1
    <3>2. CASE p <= Scanned
      <4>1. p # Len(out) + nl /\ p <= Scanned'
        BY <3>1, <3>2, <1>1, <1>8
      <4> QED
        BY <1>e, <4>1, <3>2 DEF DeliveredExactly
    <3>3. CASE p > Scanned /\ p < Len(out) + nl
      BY <1>e, <3>1, <3>3, <1>1, <1>12 DEF DeliveredExactly
    <3>4. CASE p = Len(out) + nl
      BY <1>e, <3>4, <1>8, <1>11
    <3>5. CASE p > Len(out) + nl
      BY <1>e, <3>1, <3>5, <1>1, <1>8 DEF DeliveredExactly
    <3> QED
      BY <3>1, <3>2, <3>3, <3>4, <3>5, <1>1, <1>8
  <2>3. ends' \subseteq LineEnds
    BY <1>e, <1>11 DEF DeliveredExactly
  <2> QED
    BY <1>0, <2>1, <2>2, <2>3 DEF DeliveredExactly
<1> QED
  BY <1>6, <1>7, <1>10, <1>13

\* A scan that finds no terminator.
LEMMA NoLineKeeps == ASSUME ReaderInv, NoLine PROVE ReaderInv'
<1> USE DEF ReaderInv
<1> PICK k \in 0 .. Len(buf) :
            /\ SkipStopsAt(k)
            /\ \A j \in k+1 .. Len(buf) : buf[j] # NL
  BY DEF NoLine
<1>0. /\ cur_idx' = Len(buf) /\ cuts' = cuts \cup {pos} /\ phase' = "read"
      /\ UNCHANGED <<input, pos, buf, out, ends>>
  BY DEF NoLine
<1>1. /\ Len(out) \in Nat /\ Len(buf) \in Nat /\ Len(input) \in Nat /\ pos \in Nat
      /\ pos <= Len(input) /\ cur_idx \in Nat /\ cur_idx <= Len(buf)
      /\ cuts \subseteq Nat /\ Len(out) + Len(buf) = pos
  BY DEF ReaderTypeOK, BytesInPlace
<1>2. ReaderTypeOK' /\ BytesInPlace'
  <2>1. ReaderTypeOK'
    BY <1>0, <1>1 DEF ReaderTypeOK
  <2>2. BytesInPlace'
    BY <1>0 DEF BytesInPlace
  <2> QED
    BY <2>1, <2>2
<1>3. Scanned' = pos /\ Scanned <= pos /\ Scanned \in Nat
  BY <1>0, <1>1 DEF Scanned
<1>4. ScanBoundary'
  BY <1>0, <1>1, <1>3 DEF ScanBoundary
<1>5. ASSUME NEW p \in LineEnds, p > Scanned, p <= pos PROVE p - 1 \in cuts
  <2>1. Len(buf) \in 0 .. Len(buf) /\ p <= Len(out) + Len(buf)
    BY <1>1, <1>5
  <2> HIDE DEF ReaderInv
  <2> QED
    BY <2>1, <1>5, NothingBetween
<1>6. DeliveredExactly'
  <2>1. LineEnds' = LineEnds /\ LineEnds \subseteq Nat
    BY <1>0, <1>1 DEF LineEnds
  <2>2. ASSUME NEW p \in LineEnds
        PROVE  p \in ends' <=> p <= Scanned' /\ p - 1 \notin cuts'
    BY <2>1, <1>0, <1>1, <1>3, <1>5 DEF DeliveredExactly
  <2>3. ends' \subseteq LineEnds
    BY <1>0 DEF DeliveredExactly
  <2> QED
    BY <2>1, <2>2, <2>3 DEF DeliveredExactly
<1> QED
  BY <1>2, <1>4, <1>6

\* Every step of descriptor_read's two loops keeps the inductive invariant.
LEMMA NextReader == ReaderInv /\ [ReaderNext]_readerVars => ReaderInv'
<1> SUFFICES ASSUME ReaderInv, [ReaderNext]_readerVars PROVE ReaderInv'
  OBVIOUS
<1>1. CASE \E n \in 1 .. Len(input) : Read(n)
  BY <1>1, ReadKeeps
<1>2. CASE StopReading \/ UNCHANGED readerVars
  BY <1>2 DEF StopReading, readerVars, ReaderInv, ReaderTypeOK, BytesInPlace, ScanBoundary,
              DeliveredExactly, Scanned, LineEnds
<1>3. CASE GetLine
  BY <1>3, GetLineKeeps
<1>4. CASE NoLine
  BY <1>4, NoLineKeeps
<1> QED
  BY <1>1, <1>2, <1>3, <1>4 DEF ReaderNext

\* reader_get_next_line delivers exactly the non-empty lines whose terminator was
\* not the first byte of a scan, for every input and every way of reading it.
THEOREM ReaderDeliversExactly ==
    ReaderSpec => [](ReaderTypeOK /\ DeliveredExactly)
<1>1. ReaderInv => ReaderTypeOK /\ DeliveredExactly
  BY DEF ReaderInv
<1> QED
  BY <1>1, InitReader, NextReader, PTL DEF ReaderSpec

\* The byte-by-byte form of conservation is conservation.
LEMMA PointwiseConserves == ReaderTypeOK /\ BytesInPlace => Conservation
<1> SUFFICES ASSUME ReaderTypeOK, BytesInPlace PROVE Conservation
  OBVIOUS
<1>1. /\ Len(out) \in Nat /\ Len(buf) \in Nat /\ pos \in Nat /\ pos <= Len(input)
      /\ Len(out) + Len(buf) = pos
  BY DEF ReaderTypeOK, BytesInPlace
<1> DEFINE l == out \o buf
           r == SubSeq(input, 1, pos)
<1>2. /\ l \in Seq(Bytes) /\ Len(l) = pos
      /\ \A i \in 1..pos :
            l[i] = IF i <= Len(out) THEN out[i] ELSE buf[i - Len(out)]
  BY <1>1, ConcatProperties DEF ReaderTypeOK, BytesInPlace
<1>3. r \in Seq(Bytes) /\ Len(r) = pos /\ \A i \in 1..pos : r[i] = input[i]
  BY <1>1, SubSeqProperties DEF ReaderTypeOK
<1> HIDE DEF l, r
<1>4. \A i \in 1..pos : l[i] = r[i]
  <2> TAKE i \in 1..pos
  <2>1. CASE i <= Len(out)
    <3>1. i \in 1 .. Len(out)
      BY <2>1, <1>1
    <3>2. l[i] = out[i] /\ r[i] = input[i]
      BY <2>1, <1>2, <1>3
    <3> QED
      BY <3>1, <3>2 DEF BytesInPlace
  <2>2. CASE i > Len(out)
    <3>1. i - Len(out) \in 1 .. Len(buf) /\ Len(out) + (i - Len(out)) = i
      BY <2>2, <1>1
    <3>2. l[i] = buf[i - Len(out)] /\ r[i] = input[i]
      BY <2>2, <1>1, <1>2, <1>3
    <3> QED
      BY <3>1, <3>2 DEF BytesInPlace
  <2> QED
    BY <2>1, <2>2, <1>1
<1>5. l = r
  BY <1>1, <1>2, <1>3, <1>4, SeqEqual
<1> QED
  BY <1>5 DEF Conservation, l, r

\* No byte read from a source is lost, repeated or reordered between read(2) and
\* the rules, for every input and every way of reading it.
THEOREM BytesConserved ==
    ReaderSpec => []Conservation
<1>1. ReaderInv => Conservation
  BY PointwiseConserves DEF ReaderInv
<1> QED
  BY <1>1, InitReader, NextReader, PTL DEF ReaderSpec
=============================================================================
