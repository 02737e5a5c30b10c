-------------------------- MODULE Upgrade_proofs --------------------------
(***************************************************************************)
(* Proofs about Upgrade, for any connections and any number of upgrades.   *)
(* There is one right to install: the upload that was admitted has it,     *)
(* then the request, the upgrade until its script has printed its last     *)
(* line, and the event with that line (Right).  Without faults there is    *)
(* also one upgrade at a time, and gcb and the lock are its own            *)
(* (CalmTask).                                                             *)
(***************************************************************************)
EXTENDS Upgrade, TLAPS

Uploads(u) == conn[u] \in Images
Works(t) == task[t] \in {"unzip", "popen", "copy", "stuck"}

NoLast(s) == \A i \in 1 .. Len(s) : s[i] = "part"
OneLast(s) ==
    \A i, j \in 1 .. Len(s) : s[i] \in Last /\ s[j] \in Last => i = j

Right ==
    /\ stat = 0 => /\ \A u \in Conns : ~Uploads(u)
                   /\ sent = 0
                   /\ \A t \in Tasks : ~Works(t)
                   /\ NoLast(ev)
    /\ \A u \in Conns : Uploads(u) =>
        /\ \A v \in Conns : Uploads(v) => u = v
        /\ sent = 0
        /\ \A t \in Tasks : ~Works(t)
        /\ NoLast(ev)
    /\ sent = 1 => (\A t \in Tasks : ~Works(t)) /\ NoLast(ev)
    /\ \A t \in Tasks : Works(t) =>
        /\ \A k \in Tasks : Works(k) => t = k
        /\ NoLast(ev)
    /\ OneLast(ev)

CalmTask ==
    calm =>
        /\ \A t, k \in Tasks : task[t] # "free" /\ task[k] # "free" => t = k
        /\ sent = 1 => \A t \in Tasks : task[t] = "free"
        /\ gcb <=> \E t \in Tasks : task[t] # "free"
        /\ lock => \E t \in Tasks : task[t] \in {"copy", "reported"}
        /\ \A t \in Tasks : task[t] = "popen" => ~lock

\* Without faults an image is there to be installed, and webs is closed only
\* for one.
CalmRelease ==
    calm =>
        /\ zip \in Images => sent = 1 \/ \E t \in Tasks : task[t] = "unzip"
        /\ ReleaseComing

IInv == TypeOK /\ Right /\ CalmTask
-----------------------------------------------------------------------------
Lines == Last \cup {"part"}

\* A line that is added to a queue without a last one is the only last one.
LEMMA AppendLine ==
    ASSUME NEW s \in Seq(Lines), NEW line \in Lines, NoLast(s)
    PROVE  /\ Append(s, line) \in Seq(Lines)
           /\ OneLast(Append(s, line))
           /\ line = "part" => NoLast(Append(s, line))
<1>1. /\ Append(s, line) \in Seq(Lines)
      /\ Len(Append(s, line)) = Len(s) + 1
      /\ \A i \in 1 .. Len(s) : Append(s, line)[i] = s[i]
      /\ Append(s, line)[Len(s) + 1] = line
  OBVIOUS
<1>2. Len(s) \in Nat
  OBVIOUS
<1>3. \A i \in 1 .. Len(s) + 1 :
        Append(s, line)[i] \in Last => i = Len(s) + 1
  BY <1>1, <1>2 DEF NoLast, Last
<1> QED
  BY <1>1, <1>2, <1>3 DEF NoLast, OneLast

\* "part" is no last line: adding it changes nothing.
LEMMA AppendPart ==
    ASSUME NEW s \in Seq(Lines)
    PROVE  /\ Append(s, "part") \in Seq(Lines)
           /\ NoLast(s) => NoLast(Append(s, "part"))
           /\ OneLast(s) => OneLast(Append(s, "part"))
<1>1. /\ Append(s, "part") \in Seq(Lines)
      /\ Len(Append(s, "part")) = Len(s) + 1
      /\ \A i \in 1 .. Len(s) : Append(s, "part")[i] = s[i]
      /\ Append(s, "part")[Len(s) + 1] = "part"
      /\ Len(s) \in Nat
  BY DEF Lines
<1> QED
  BY <1>1 DEF NoLast, OneLast, Last

\* What is left of a queue when its first line has been taken.
LEMMA TailLine ==
    ASSUME NEW s \in Seq(Lines), s # <<>>
    PROVE  /\ Tail(s) \in Seq(Lines) /\ Head(s) \in Lines
           /\ NoLast(s) => NoLast(Tail(s)) /\ Head(s) = "part"
           /\ OneLast(s) => OneLast(Tail(s))
           /\ OneLast(s) /\ Head(s) \in Last => NoLast(Tail(s))
<1>1. /\ Tail(s) \in Seq(Lines) /\ Head(s) = s[1]
      /\ Len(s) \in Nat /\ Len(s) > 0 /\ Len(Tail(s)) = Len(s) - 1
      /\ \A i \in 1 .. Len(Tail(s)) : Tail(s)[i] = s[i + 1]
  OBVIOUS
<1>2. \A i \in 1 .. Len(s) : s[i] \in Lines
  OBVIOUS
<1>3. \A i \in 1 .. Len(Tail(s)) : i + 1 \in 1 .. Len(s)
  BY <1>1
<1>4. 1 \in 1 .. Len(s)
  BY <1>1
<1>5. NoLast(s) => NoLast(Tail(s)) /\ Head(s) = "part"
  BY <1>1, <1>3, <1>4 DEF NoLast
<1>6. ASSUME OneLast(s) PROVE OneLast(Tail(s))
  <2> SUFFICES ASSUME NEW i \in 1 .. Len(Tail(s)),
                      NEW j \in 1 .. Len(Tail(s)),
                      Tail(s)[i] \in Last, Tail(s)[j] \in Last
               PROVE  i = j
    BY DEF OneLast
  <2>1. i + 1 = j + 1
    BY <1>1, <1>3, <1>6 DEF OneLast
  <2> QED
    BY <2>1
<1>7. ASSUME OneLast(s), Head(s) \in Last PROVE NoLast(Tail(s))
  <2> SUFFICES ASSUME NEW i \in 1 .. Len(Tail(s)), Tail(s)[i] # "part"
               PROVE  FALSE
    BY DEF NoLast
  <2>1. i + 1 \in 1 .. Len(s) /\ s[i + 1] \in Last
    BY <1>1, <1>2, <1>3 DEF Lines
  <2>2. i + 1 = 1
    BY <1>1, <1>4, <1>7, <2>1 DEF OneLast
  <2> QED
    BY <2>2
<1> QED
  BY <1>1, <1>2, <1>4, <1>5, <1>6, <1>7

-----------------------------------------------------------------------------
\* Initially nothing is uploaded or installed.
LEMMA InvInit == Init => IInv
<1> SUFFICES ASSUME Init PROVE IInv
  OBVIOUS
<1>1. ev \in Seq(Lines) /\ Len(ev) = 0
  BY DEF Init
<1>2. NoLast(ev) /\ OneLast(ev)
  BY <1>1 DEF NoLast, OneLast
<1>3. TypeOK
  BY <1>1 DEF Init, TypeOK, Last, Images, Scripted, Lines
<1>4. Right
  BY <1>2 DEF Init, Right, Uploads, Works, Images, Scripted
<1>5. CalmTask
  BY DEF Init, CalmTask
<1> QED
  BY <1>3, <1>4, <1>5 DEF IInv

\* A step of webs keeps the invariant.
LEMMA WebsKeeps == IInv /\ WebsStep => IInv'
<1> SUFFICES ASSUME IInv, WebsStep PROVE IInv'
  OBVIOUS
<1> USE DEF websVars, bspVars, fileVars, rebootVars
<1>t. TypeOK /\ Right /\ CalmTask
  BY DEF IInv
<1>1. ASSUME NEW u \in Conns, NEW image \in Images, PartBegin(u, image)
      PROVE  IInv'
  <2>0. stat = 0
    BY <1>t, <1>1 DEF PartBegin, Admitted, TypeOK
  <2>1. TypeOK'
    BY <1>t, <1>1 DEF PartBegin, TypeOK
  <2>2. Right'
    BY <1>t, <1>1, <2>0 DEF PartBegin, Right, Uploads, Works, TypeOK
  <2>3. CalmTask'
    BY <1>t, <1>1 DEF PartBegin, CalmTask
  <2> QED
    BY <2>1, <2>2, <2>3 DEF IInv
<1>2. ASSUME NEW u \in Conns, PartBeginRefused(u) \/ RefusedEnd(u)
      PROVE  IInv'
  <2>1. TypeOK'
    BY <1>t, <1>2 DEF PartBeginRefused, RefusedEnd, TypeOK
  <2>2. \A v \in Conns : Uploads(v)' => Uploads(v)
    BY <1>t, <1>2 DEF PartBeginRefused, RefusedEnd, Uploads, TypeOK, Images, Scripted
  <2>3. Right'
    BY <1>t, <1>2, <2>2 DEF PartBeginRefused, RefusedEnd, Right, Works
  <2>4. CalmTask'
    BY <1>t, <1>2 DEF PartBeginRefused, RefusedEnd, CalmTask
  <2> QED
    BY <2>1, <2>3, <2>4 DEF IInv
<1>3. ASSUME NEW u \in Conns, PartBeginFails(u) PROVE IInv'
  <2>1. TypeOK'
    BY <1>t, <1>3 DEF PartBeginFails, TypeOK
  <2>2. Right'
    BY <1>t, <1>3 DEF PartBeginFails, Right, Uploads, Works
  <2>3. CalmTask'
    BY <1>t, <1>3 DEF PartBeginFails, CalmTask
  <2> QED
    BY <2>1, <2>2, <2>3 DEF IInv
<1>4. ASSUME NEW u \in Conns, PartEnd(u) \/ PartCut(u) PROVE IInv'
  <2>0. Uploads(u) /\ sent = 0
    BY <1>t, <1>4 DEF PartEnd, PartCut, Uploads, Right
  <2>1. TypeOK'
    BY <1>t, <1>4, <2>0 DEF PartEnd, PartCut, TypeOK, Images, Scripted
  <2>2. /\ \A v \in Conns : ~Uploads(v)'
        /\ \A t \in Tasks : ~Works(t)' /\ ~Works(t)
        /\ NoLast(ev) /\ OneLast(ev) /\ ev' = ev /\ stat' = stat /\ stat # 0
    BY <1>t, <1>4, <2>0
       DEF PartEnd, PartCut, Uploads, Works, TypeOK, Images, Scripted, Right
  <2>3. Right'
    BY <2>2 DEF Right
  <2>4. CalmTask'
    BY <1>t, <1>4 DEF PartEnd, PartCut, CalmTask
  <2> QED
    BY <2>1, <2>3, <2>4 DEF IInv
<1>5. CASE SubRecv
  <2>0. ev \in Seq(Lines) /\ ev # <<>>
    BY <1>t, <1>5 DEF TypeOK, Lines, SubRecv
  <2>1. TypeOK'
    BY <1>t, <1>5, <2>0, TailLine DEF SubRecv, TypeOK, Lines
  <2>2. ASSUME Head(ev) \in Last PROVE Right'
    <3>1. ~NoLast(ev) /\ OneLast(ev) /\ NoLast(Tail(ev))
      BY <1>t, <2>0, <2>2, TailLine DEF Right, Last
    <3>2. /\ \A u \in Conns : ~Uploads(u)
          /\ sent = 0
          /\ \A t \in Tasks : ~Works(t)
      BY <1>t, <3>1 DEF Right, TypeOK
    <3>3. OneLast(Tail(ev))
      BY <2>0, <3>1, TailLine
    <3> QED
      BY <1>5, <2>2, <3>1, <3>2, <3>3
         DEF SubRecv, Right, Uploads, Works, Releases
  <2>3. ASSUME Head(ev) \notin Last PROVE Right'
    <3>1. /\ NoLast(ev) => NoLast(Tail(ev))
          /\ OneLast(Tail(ev))
      BY <1>t, <2>0, TailLine DEF Right
    <3>2. stat' = stat /\ sent' = sent /\ conn' = conn /\ task' = task
          /\ ev' = Tail(ev)
      BY <1>5, <2>3 DEF SubRecv, Releases
    <3> QED
      BY <1>t, <3>1, <3>2 DEF Right, Uploads, Works
  <2>4. Right'
    BY <2>2, <2>3
  <2>5. CalmTask'
    BY <1>t, <1>5 DEF SubRecv, CalmTask
  <2> QED
    BY <2>1, <2>4, <2>5 DEF IInv
<1> QED
  BY <1>1, <1>2, <1>3, <1>4, <1>5 DEF WebsStep

\* A step of bsp keeps the invariant.
LEMMA BspKeeps == IInv /\ BspStep => IInv'
<1> SUFFICES ASSUME IInv, BspStep PROVE IInv'
  OBVIOUS
<1> USE DEF websVars, bspVars, fileVars, rebootVars
<1>t. TypeOK /\ Right /\ CalmTask
  BY DEF IInv
<1>1. ASSUME NEW t \in Tasks, UpgStart(t) PROVE IInv'
  <2>0. /\ sent = 1 /\ sent' = 0 /\ task[t] = "free" /\ gcb' = TRUE
        /\ task' = [task EXCEPT ![t] = "unzip"]
        /\ UNCHANGED <<calm, stat, conn, ev, lock>>
    BY <1>t, <1>1 DEF UpgStart, TypeOK
  <2>1. TypeOK'
    BY <1>t, <1>1, <2>0 DEF UpgStart, TypeOK
  <2>2. /\ \A u \in Conns : ~Uploads(u)
        /\ \A k \in Tasks : ~Works(k)
        /\ NoLast(ev) /\ OneLast(ev) /\ stat # 0
    BY <1>t, <2>0 DEF Right
  <2>3. \A k \in Tasks : Works(k)' => k = t
    BY <1>t, <2>0, <2>2 DEF Works, TypeOK
  <2>4. Right'
    BY <2>0, <2>2, <2>3 DEF Right, Uploads
  <2>5. CalmTask'
    BY <1>t, <2>0 DEF CalmTask, TypeOK
  <2> QED
    BY <2>1, <2>4, <2>5 DEF IInv
<1>2. ASSUME NEW t \in Tasks, Unzipped(t) \/ TaskFails(t) PROVE IInv'
  <2>0. /\ task[t] = "unzip"
        /\ \/ task' = [task EXCEPT ![t] = "popen"]
           \/ ~calm /\ task' = [task EXCEPT ![t] = "free"]
        /\ UNCHANGED <<calm, stat, conn, sent, gcb, ev, lock>>
    BY <1>2 DEF Unzipped, TaskFails, Unzip
  <2>1. TypeOK'
    BY <1>t, <1>2 DEF Unzipped, TaskFails, Unzip, TypeOK, Images, Scripted
  <2>2. \A k \in Tasks : Works(k)' => Works(k)
    BY <1>t, <2>0 DEF Works, TypeOK
  <2>3. Right'
    BY <1>t, <2>0, <2>2 DEF Right, Uploads
  <2>4. CalmTask'
    BY <1>t, <2>0 DEF CalmTask, TypeOK
  <2> QED
    BY <2>1, <2>3, <2>4 DEF IInv
<1>3. ASSUME NEW t \in Tasks, ScriptExit(t) PROVE IInv'
  <2>0. /\ task[t] = "exit" /\ task' = [task EXCEPT ![t] = "free"]
        /\ gcb' = FALSE
        /\ UNCHANGED <<calm, stat, conn, sent, ev, lock>>
    BY <1>3 DEF ScriptExit
  <2>1. TypeOK'
    BY <1>t, <1>3 DEF ScriptExit, TypeOK
  <2>2. \A k \in Tasks : Works(k)' <=> Works(k)
    BY <1>t, <2>0 DEF Works, TypeOK
  <2>3. Right'
    BY <1>t, <2>0, <2>2 DEF Right, Uploads
  <2>4. CalmTask'
    BY <1>t, <2>0 DEF CalmTask, TypeOK
  <2> QED
    BY <2>1, <2>3, <2>4 DEF IInv
<1>4. CASE RebootAsked \/ RebootCommand
  <2>1. TypeOK'
    BY <1>t, <1>4 DEF RebootAsked, RebootCommand, TypeOK
  <2>2. Right'
    BY <1>t, <1>4 DEF RebootAsked, RebootCommand, Right, Uploads, Works
  <2>3. CalmTask'
    BY <1>t, <1>4 DEF RebootAsked, RebootCommand, CalmTask
  <2> QED
    BY <2>1, <2>2, <2>3 DEF IInv
<1>5. CASE Reboot
  <2>1. ev' \in Seq(Lines) /\ Len(ev') = 0
    BY <1>5 DEF Reboot
  <2>2. NoLast(ev') /\ OneLast(ev')
    BY <2>1 DEF NoLast, OneLast
  <2>3. TypeOK'
    BY <1>t, <1>5, <2>1 DEF Reboot, TypeOK, Last, Images, Scripted, Lines
  <2>4. Right'
    BY <1>5, <2>2 DEF Reboot, Right, Uploads, Works, Images, Scripted
  <2>5. CalmTask'
    BY <1>5 DEF Reboot, CalmTask
  <2> QED
    BY <2>3, <2>4, <2>5 DEF IInv
<1> QED
  BY <1>1, <1>2, <1>3, <1>4, <1>5 DEF BspStep

\* A step of a script keeps the invariant.
LEMMA ScriptKeeps ==
    ASSUME NEW t \in Tasks, IInv, ScriptStep(t)
    PROVE  IInv'
<1> USE DEF websVars, bspVars, fileVars, rebootVars
<1>t. TypeOK /\ Right /\ CalmTask
  BY DEF IInv
<1>s. ev \in Seq(Lines)
  BY <1>t DEF TypeOK, Lines
<1>1. CASE NoScript(t)
  <2>0. /\ task[t] = "popen" /\ task' = [task EXCEPT ![t] = "exit"]
        /\ UNCHANGED <<calm, stat, conn, sent, gcb, ev, lock>>
    BY <1>1 DEF NoScript
  <2>1. TypeOK'
    BY <1>t, <1>1 DEF NoScript, TypeOK
  <2>2. \A k \in Tasks : Works(k)' => Works(k)
    BY <1>t, <2>0 DEF Works, TypeOK
  <2>3. Right'
    BY <1>t, <2>0, <2>2 DEF Right, Uploads
  <2>4. CalmTask'
    BY <1>t, <2>0 DEF CalmTask, TypeOK
  <2> QED
    BY <2>1, <2>3, <2>4 DEF IInv
<1>2. ASSUME NEW line \in Last, NEW to \in {"exit", "reported"},
             Works(t), Publish(line),
             task' = [task EXCEPT ![t] = to],
             UNCHANGED <<calm, stat, conn, sent, progress, gcb, zip, dir,
                         lock, asked, due, orphaned, late>>
      PROVE  TypeOK' /\ Right'
  <2>1. /\ \A u \in Conns : ~Uploads(u)
        /\ sent = 0 /\ NoLast(ev) /\ OneLast(ev) /\ stat # 0
        /\ \A k \in Tasks : Works(k) => k = t
    BY <1>t, <1>2 DEF Right, TypeOK
  <2>2. \A k \in Tasks : ~Works(k)'
    BY <1>t, <1>2, <2>1 DEF Works, TypeOK
  <2>3. ev' \in Seq(Lines) /\ OneLast(ev')
    BY <1>s, <1>2, <2>1, AppendLine DEF Publish, Lines
  <2>4. TypeOK'
    BY <1>t, <1>2, <2>3 DEF TypeOK, Lines
  <2>5. Right'
    BY <1>2, <2>1, <2>2, <2>3 DEF Right, Uploads
  <2> QED
    BY <2>4, <2>5
<1>3. CASE ScriptLocked(t)
  <2>1. TypeOK' /\ Right'
    BY <1>2, <1>3 DEF ScriptLocked, Works, Last
  <2>2. CalmTask'
    BY <1>t, <1>3 DEF ScriptLocked, CalmTask, TypeOK
  <2> QED
    BY <2>1, <2>2 DEF IInv
<1>4. CASE ScriptCopies(t)
  <2>0. /\ task[t] = "popen" /\ task' = [task EXCEPT ![t] = "copy"]
        /\ lock' = TRUE
        /\ UNCHANGED <<calm, stat, conn, sent, gcb, ev>>
    BY <1>4 DEF ScriptCopies
  <2>1. TypeOK'
    BY <1>t, <1>4 DEF ScriptCopies, TypeOK
  <2>2. \A k \in Tasks : Works(k)' <=> Works(k)
    BY <1>t, <2>0 DEF Works, TypeOK
  <2>3. Right'
    BY <1>t, <2>0, <2>2 DEF Right, Uploads
  <2>4. CalmTask'
    BY <1>t, <2>0 DEF CalmTask, TypeOK
  <2> QED
    BY <2>1, <2>3, <2>4 DEF IInv
<1>5. CASE ScriptPrints(t)
  <2>0. /\ Publish("part")
        /\ UNCHANGED <<calm, stat, conn, sent, gcb, task, lock, progress,
                       zip, dir, asked, due, orphaned, late>>
    BY <1>5 DEF ScriptPrints
  <2>1. /\ ev' \in Seq(Lines)
        /\ NoLast(ev) => NoLast(ev')
        /\ OneLast(ev) => OneLast(ev')
    BY <1>s, <2>0, AppendPart DEF Publish
  <2>2. TypeOK'
    BY <1>t, <2>0, <2>1 DEF TypeOK, Lines
  <2>3. Right'
    BY <1>t, <2>0, <2>1 DEF Right, Uploads, Works
  <2>4. CalmTask'
    BY <1>t, <2>0 DEF CalmTask
  <2> QED
    BY <2>2, <2>3, <2>4 DEF IInv
<1>6. CASE ScriptReports(t)
  <2>1. TypeOK' /\ Right'
    BY <1>2, <1>6 DEF ScriptReports, Works, Last
  <2>2. CalmTask'
    BY <1>t, <1>6 DEF ScriptReports, CalmTask, TypeOK
  <2> QED
    BY <2>1, <2>2 DEF IInv
<1>7. CASE ScriptEnds(t)
  <2>0. /\ task[t] = "reported" /\ task' = [task EXCEPT ![t] = "exit"]
        /\ lock' = FALSE
        /\ UNCHANGED <<calm, stat, conn, sent, gcb, ev>>
    BY <1>7 DEF ScriptEnds
  <2>1. TypeOK'
    BY <1>t, <1>7 DEF ScriptEnds, TypeOK
  <2>2. \A k \in Tasks : Works(k)' <=> Works(k)
    BY <1>t, <2>0 DEF Works, TypeOK
  <2>3. Right'
    BY <1>t, <2>0, <2>2 DEF Right, Uploads
  <2>4. CalmTask'
    BY <1>t, <2>0 DEF CalmTask, TypeOK
  <2> QED
    BY <2>1, <2>3, <2>4 DEF IInv
<1>8. CASE CopyFails(t)
  <2>0. /\ task[t] = "copy" /\ task' = [task EXCEPT ![t] = "stuck"] /\ ~calm
        /\ UNCHANGED <<calm, stat, conn, sent, gcb, ev, lock>>
    BY <1>8 DEF CopyFails
  <2>1. TypeOK'
    BY <1>t, <1>8 DEF CopyFails, TypeOK
  <2>2. \A k \in Tasks : Works(k)' <=> Works(k)
    BY <1>t, <2>0 DEF Works, TypeOK
  <2>3. Right'
    BY <1>t, <2>0, <2>2 DEF Right, Uploads
  <2>4. CalmTask'
    BY <2>0 DEF CalmTask
  <2> QED
    BY <2>1, <2>3, <2>4 DEF IInv
<1> QED
  BY <1>1, <1>3, <1>4, <1>5, <1>6, <1>7, <1>8 DEF ScriptStep

LEMMA InvStep == IInv /\ [Next]_vars => IInv'
<1>1. ASSUME IInv, UNCHANGED vars PROVE IInv'
  BY <1>1 DEF vars, IInv, TypeOK, Right, CalmTask, Uploads, Works
<1> QED
  BY <1>1, WebsKeeps, BspKeeps, ScriptKeeps DEF Next

LEMMA Invariance == Spec => []IInv
BY InvInit, InvStep, PTL DEF Spec

-----------------------------------------------------------------------------
(* Webs is opened again, and the device can be rebooted again              *)

HasLast(s) == \E i \in 1 .. Len(s) : s[i] \in Last

\* A queue has a last line once it is added, and until it is received.
LEMMA LastComes ==
    ASSUME NEW s \in Seq(Lines)
    PROVE  /\ \A line \in Last : HasLast(Append(s, line))
           /\ HasLast(s) => HasLast(Append(s, "part"))
           /\ HasLast(s) /\ Head(s) \notin Last => HasLast(Tail(s))
<1>1. ASSUME NEW line \in Last PROVE HasLast(Append(s, line))
  <2>1. /\ Len(s) + 1 \in 1 .. Len(Append(s, line))
        /\ Append(s, line)[Len(s) + 1] = line
    BY <1>1 DEF Lines
  <2> QED
    BY <1>1, <2>1 DEF HasLast
<1>2. ASSUME NEW i \in 1 .. Len(s), s[i] \in Last
      PROVE  HasLast(Append(s, "part"))
  <2>1. i \in 1 .. Len(Append(s, "part")) /\ Append(s, "part")[i] = s[i]
    BY DEF Lines
  <2> QED
    BY <1>2, <2>1 DEF HasLast
<1>3. ASSUME NEW i \in 1 .. Len(s), s[i] \in Last, Head(s) \notin Last
      PROVE  HasLast(Tail(s))
  <2>1. s # <<>> /\ i # 1 /\ i \in Nat
    BY <1>3
  <2>2. i - 1 \in 1 .. Len(Tail(s)) /\ Tail(s)[i - 1] = s[i]
    BY <2>1
  <2> QED
    BY <1>3, <2>2 DEF HasLast
<1> QED
  BY <1>1, <1>2, <1>3 DEF HasLast

\* A step of webs: only the last line of an install opens it.
LEMMA WebsReleases ==
    ASSUME IInv, CalmRelease, calm, WebsStep
    PROVE  CalmRelease'
<1> USE DEF CalmRelease, ReleaseComing, ScriptThere, websVars, bspVars, fileVars,
        rebootVars
<1>t. TypeOK /\ Right /\ CalmTask
  BY DEF IInv
<1>1. ASSUME NEW u \in Conns, NEW image \in Images, PartBegin(u, image)
      PROVE  CalmRelease'
  <2>1. sent = 0 /\ \A t \in Tasks : ~Works(t)
    BY <1>t, <1>1 DEF PartBegin, Admitted, TypeOK, Right
  <2>2. conn'[u] \in Images /\ zip' \notin Images
    BY <1>t, <1>1 DEF PartBegin, TypeOK, Images, Scripted
  <2> QED
    BY <1>1, <2>1, <2>2 DEF PartBegin, Works
<1>2. ASSUME NEW u \in Conns, PartBeginRefused(u) \/ RefusedEnd(u)
      PROVE  CalmRelease'
  <2>1. UNCHANGED <<calm, stat, zip, dir, sent, task, ev>>
    BY <1>2 DEF PartBeginRefused, RefusedEnd
  <2>2. conn[u] \in {"idle", "refused"} /\ conn'[u] \in {"idle", "refused"}
    BY <1>t, <1>2 DEF PartBeginRefused, RefusedEnd, TypeOK
  <2>3. \A v \in Conns : v = u \/ conn'[v] = conn[v]
    BY <1>t, <1>2 DEF PartBeginRefused, RefusedEnd, TypeOK
  <2>4. \A v \in Conns : /\ (conn'[v] \in Images) = (conn[v] \in Images)
                         /\ (conn'[v] \in Scripted) = (conn[v] \in Scripted)
    BY <2>2, <2>3 DEF Images, Scripted
  <2> QED
    BY <2>1, <2>4
<1>3. ASSUME NEW u \in Conns, PartEnd(u) PROVE CalmRelease'
  <2>1. sent' = 1
    BY <1>t, <1>3 DEF PartEnd, Right, Uploads
  <2> QED
    BY <2>1
<1>4. CASE SubRecv
  <2>0. ev \in Seq(Lines) /\ UNCHANGED <<calm, conn, sent, task, zip, dir>>
    BY <1>t, <1>4 DEF TypeOK, Lines, SubRecv
  <2>1. CASE Head(ev) \in Last
    BY <1>4, <2>0, <2>1 DEF SubRecv, Releases
  <2>2. CASE Head(ev) \notin Last
    <3>1. stat' = stat /\ (HasLast(ev) => HasLast(ev'))
      BY <1>4, <2>0, <2>2, LastComes DEF SubRecv, Releases
    <3> QED
      BY <2>0, <3>1 DEF HasLast
  <2> QED
    BY <2>1, <2>2
<1>5. \A u \in Conns : ~PartBeginFails(u) /\ ~PartCut(u)
  BY DEF PartBeginFails, PartCut
<1> QED
  BY <1>1, <1>2, <1>3, <1>4, <1>5 DEF WebsStep

\* A step of bsp: a request becomes an upgrade, and that the task of a script.
LEMMA BspReleases ==
    ASSUME IInv, CalmRelease, calm, BspStep
    PROVE  CalmRelease'
<1> USE DEF CalmRelease, ReleaseComing, ScriptThere, websVars, bspVars, fileVars,
        rebootVars
<1>t. TypeOK /\ Right /\ CalmTask
  BY DEF IInv
<1>1. ASSUME NEW t \in Tasks, UpgStart(t) PROVE CalmRelease'
  <2>1. task'[t] = "unzip"
    BY <1>t, <1>1 DEF UpgStart, TypeOK
  <2> QED
    BY <2>1
<1>2. ASSUME NEW t \in Tasks, Unzipped(t) PROVE CalmRelease'
  <2>1. task'[t] = "popen" /\ zip' \notin Images
    BY <1>t, <1>2 DEF Unzipped, Unzip, TypeOK, Images, Scripted
  <2> QED
    BY <2>1
<1>3. ASSUME NEW t \in Tasks, ScriptExit(t) PROVE CalmRelease'
  <2>1. \A k \in Tasks :
          task[k] \in {"unzip", "popen", "copy"} => task'[k] = task[k]
    BY <1>t, <1>3 DEF ScriptExit, TypeOK
  <2> QED
    BY <1>3, <2>1 DEF ScriptExit
<1>4. CASE RebootAsked \/ RebootCommand
  BY <1>4 DEF RebootAsked, RebootCommand
<1>5. CASE Reboot
  BY <1>5 DEF Reboot, Images, Scripted
<1>6. \A t \in Tasks : ~TaskFails(t)
  BY DEF TaskFails
<1> QED
  BY <1>1, <1>2, <1>3, <1>4, <1>5, <1>6 DEF BspStep

\* A step of the script: it prints its last line, and bsp passes it on.
LEMMA ScriptReleases ==
    ASSUME IInv, CalmRelease, calm, NEW t \in Tasks, ScriptStep(t)
    PROVE  CalmRelease'
<1> USE DEF CalmRelease, ReleaseComing, ScriptThere, websVars, bspVars, fileVars,
        rebootVars
<1>t. /\ TypeOK /\ CalmTask /\ ev \in Seq(Lines)
      /\ task[t] # "free" => gcb
  BY DEF IInv, TypeOK, Lines, CalmTask
<1>1. ~CopyFails(t) /\ ~ScriptLocked(t)
  BY <1>t DEF CopyFails, ScriptLocked, CalmTask
<1>6. CASE NoScript(t)
  <2>1. \A k \in Tasks : task[k] = "unzip" => task'[k] = "unzip"
    BY <1>t, <1>6 DEF NoScript, TypeOK
  <2>2. dir' = "none" /\ UNCHANGED <<calm, conn, sent, zip>>
    BY <1>6 DEF NoScript
  <2> QED
    BY <2>1, <2>2 DEF Images
<1>2. CASE ScriptCopies(t)
  <2>1. task'[t] = "copy" /\ \A k \in Tasks : k # t => task'[k] = task[k]
    BY <1>t, <1>2 DEF ScriptCopies, TypeOK
  <2> QED
    BY <1>2, <2>1 DEF ScriptCopies
<1>3. CASE ScriptPrints(t)
  <2>1. UNCHANGED <<task, calm, conn, stat, sent, zip, dir>>
    BY <1>3 DEF ScriptPrints
  <2>2. HasLast(ev) => HasLast(ev')
    BY <1>t, <1>3, LastComes DEF ScriptPrints, Publish
  <2> QED
    BY <2>1, <2>2 DEF HasLast
<1>4. CASE ScriptReports(t)
  <2>1. HasLast(ev')
    BY <1>t, <1>4, LastComes DEF ScriptReports, Publish, Last
  <2>2. \A k \in Tasks : task'[k] = task[k] \/ task'[k] = "reported"
    BY <1>t, <1>4 DEF ScriptReports, TypeOK
  <2> QED
    BY <1>4, <2>1, <2>2 DEF ScriptReports, HasLast
<1>5. CASE ScriptEnds(t)
  <2>1. \A k \in Tasks :
          task'[k] = task[k] \/ (task[k] = "reported" /\ task'[k] = "exit")
    BY <1>t, <1>5 DEF ScriptEnds, TypeOK
  <2> QED
    BY <1>5, <2>1 DEF ScriptEnds
<1> QED
  BY <1>1, <1>2, <1>3, <1>4, <1>5, <1>6 DEF ScriptStep

LEMMA ReleaseStep == IInv /\ CalmRelease /\ [Next]_vars => CalmRelease'
<1> SUFFICES ASSUME IInv, CalmRelease, [Next]_vars PROVE CalmRelease'
  OBVIOUS
<1>1. CASE UNCHANGED vars
  BY <1>1 DEF vars, CalmRelease, ReleaseComing, ScriptThere
<1>2. CASE ~calm /\ Next
  BY <1>2
     DEF CalmRelease, Next, WebsStep, BspStep, ScriptStep, PartBegin,
         PartBeginRefused, PartBeginFails, PartEnd, PartCut, RefusedEnd,
         SubRecv, UpgStart, Unzipped, TaskFails, Unzip, ScriptExit,
         RebootAsked, RebootCommand, Reboot, NoScript, ScriptLocked,
         ScriptCopies, CopyFails, ScriptPrints, ScriptReports, ScriptEnds
<1>3. CASE calm /\ Next
  BY <1>3, WebsReleases, BspReleases, ScriptReleases DEF Next
<1> QED
  BY <1>1, <1>2, <1>3

\* Only the end of an upgrade makes a task free, and it clears gcb; a task
\* that was not created is known as orphaned.
LEMMA RebootStep ==
    ASSUME TypeOK, RebootComing, [Next]_vars
    PROVE  RebootComing'
<1> USE DEF websVars, bspVars, fileVars, rebootVars
<1>1. ASSUME gcb', ~orphaned', \A t \in Tasks : task'[t] = "free" PROVE FALSE
  <2>1. ASSUME NEW t \in Tasks, UpgStart(t) PROVE FALSE
    BY <1>1, <2>1 DEF UpgStart, TypeOK
  <2>2. ASSUME NEW t \in Tasks, Unzipped(t) \/ ScriptStep(t) PROVE FALSE
    BY <1>1, <2>2
       DEF Unzipped, Unzip, ScriptStep, NoScript, ScriptLocked, ScriptCopies,
           CopyFails, ScriptPrints, ScriptReports, ScriptEnds, TypeOK
  <2>3. ~Reboot /\ \A t \in Tasks : ~ScriptExit(t) /\ ~TaskFails(t)
    BY <1>1 DEF Reboot, ScriptExit, TaskFails
  <2>4. UNCHANGED <<gcb, task, orphaned>>
    BY <2>1, <2>2, <2>3
       DEF Next, WebsStep, BspStep, vars, PartBegin, PartBeginRefused,
           PartBeginFails, PartEnd, PartCut, RefusedEnd, SubRecv,
           RebootAsked, RebootCommand
  <2> QED
    BY <1>1, <2>4 DEF RebootComing
<1> QED
  BY <1>1 DEF RebootComing

\* The check finds no upgrade; one that begins from then on is late.
LEMMA RefusedStep ==
    ASSUME IInv, RebootRefused, [Next]_vars
    PROVE  RebootRefused'
<1> USE DEF RebootRefused, websVars, bspVars, fileVars, rebootVars
<1>t. TypeOK /\ CalmTask
  BY DEF IInv
<1>1. ASSUME NEW t \in Tasks, UpgStart(t) PROVE RebootRefused'
  BY <1>t, <1>1 DEF UpgStart, TypeOK
<1>2. ASSUME NEW t \in Tasks, Unzipped(t) \/ TaskFails(t) PROVE RebootRefused'
  BY <1>t, <1>2 DEF Unzipped, TaskFails, Unzip, TypeOK
<1>3. ASSUME NEW t \in Tasks, ScriptExit(t) PROVE RebootRefused'
  BY <1>t, <1>3 DEF ScriptExit, TypeOK
<1>4. CASE RebootAsked
  BY <1>t, <1>4 DEF RebootAsked, MayReboot, CalmTask
<1>5. CASE RebootCommand
  BY <1>5 DEF RebootCommand
<1>6. CASE Reboot
  BY <1>6 DEF Reboot
<1>7. ASSUME NEW t \in Tasks, ScriptStep(t) PROVE RebootRefused'
  BY <1>t, <1>7
     DEF ScriptStep, NoScript, ScriptLocked, ScriptCopies, CopyFails,
         ScriptPrints, ScriptReports, ScriptEnds, TypeOK
<1>8. CASE WebsStep \/ UNCHANGED vars
  BY <1>8
     DEF WebsStep, vars, PartBegin, PartBeginRefused, PartBeginFails, PartEnd,
         PartCut, RefusedEnd, SubRecv
<1> QED
  BY <1>1, <1>2, <1>3, <1>4, <1>5, <1>6, <1>7, <1>8 DEF Next, BspStep

-----------------------------------------------------------------------------
\* The types of the variables, with at most one request waiting at bsp.
THEOREM TypeCorrect == Spec => []TypeOK
<1>1. IInv => TypeOK
  BY DEF IInv
<1> QED
  BY <1>1, Invariance, PTL

\* Whatever is lost or fails, nothing is unzipped over an image that is being
\* copied, and no other script copies with it.
THEOREM CopyAlone == Spec => []CopyUndisturbed
<1>1. IInv => CopyUndisturbed
  BY DEF IInv, Right, Works, CopyUndisturbed
<1> QED
  BY <1>1, Invariance, PTL

\* Without faults no script finds the lock of another one.
THEOREM LockIsFree == Spec => []LockFree
<1>1. IInv => LockFree
  BY DEF IInv, CalmTask, LockFree
<1> QED
  BY <1>1, Invariance, PTL

\* Without faults, while upg_stat of webs (http.c) keeps others out, the event
\* that will clear it is there or on its way, unless all there is is junk that
\* has no script: Released without a word of time.
THEOREM ReleaseIsComing == Spec => []ReleaseComing
<1>1. Init => CalmRelease
  BY DEF Init, CalmRelease, ReleaseComing, Images, Scripted
<1>2. CalmRelease => ReleaseComing
  BY DEF CalmRelease, ReleaseComing
<1> QED
  BY <1>1, <1>2, ReleaseStep, Invariance, PTL DEF Spec

\* While upg_runing of bsp (upg.c) keeps the device from a reboot, there is an
\* upgrade that is not over, unless the task of the last one was never created.
THEOREM RebootIsComing == Spec => []RebootComing
<1>1. Init => RebootComing
  BY DEF Init, RebootComing
<1> QED
  BY <1>1, RebootStep, TypeCorrect, PTL DEF Spec

\* Without faults, from the check of a reboot to the reboot itself, every
\* upgrade that is on began after the check.
THEOREM NoRebootDuring == Spec => []RebootRefused
<1>1. Init => RebootRefused
  BY DEF Init, RebootRefused
<1> QED
  BY <1>1, RefusedStep, Invariance, PTL DEF Spec
=============================================================================
