----------------------------- MODULE XLogProofs -----------------------------
(***************************************************************************)
(* Proofs about the log, for any number of lines.  The argument for the    *)
(* list is about age: the deleted lines are older than those the worker    *)
(* holds, and these older than those still listed; and a line that is      *)
(* linked behind another one never gets a successor.  The argument for     *)
(* what happens in the end follows the worker once around its loop.        *)
(***************************************************************************)
EXTENDS XLog, TLAPS

(* Links: what `next` may hold at any time.                                *)
Links ==
  /\ \A l \in Lines : next[l] # Null => l < next[l] /\ next[l] <= queued
  /\ \A l \in Lines : next[l] # Null => next[next[l]] = Null
  /\ \A l \in Lines : l > queued => next[l] = Null
  /\ tail # Null => \A l \in Lines : next[l] # tail

(* What is deleted is what was written, and it is older than what the      *)
(* worker holds; that is older than what is in the list.                   *)
Ages ==
  /\ \A l \in Reach(tail), m \in freed \cup Reach(batch) : m < l
  /\ \A l \in Reach(batch), f \in freed : f < l
  /\ freed = InFile

(* Between two lists the worker holds no line.                             *)
Holding == batch # Null => worker \in {"open", "write"}

DataInv == Links /\ Ages /\ Holding /\ Accounted /\ FileInOrder

(* A thread that was started has m_bFile set sooner or later, and is not   *)
(* replaced; a destructor that found it asleep waits for one more round.   *)
ThreadInv ==
  /\ worker # "none" => toFile \/ (ctl = "flag" /\ want = "on")
  /\ ctl = "flag" /\ want # "on" => worker = "none"
  /\ FirstNamingSafe
  /\ asleep => ctl \in {"destroying", "gone"}
  /\ asleep => worker \in {"sleep", "detach"} \/ tail = Null
-----------------------------------------------------------------------------
(* Facts about sequences and lists.                                        *)

LEMMA Appended ==
  ASSUME NEW S, NEW s \in Seq(S), NEW e \in S
  PROVE  /\ Append(s, e) \in Seq(S)
         /\ Len(Append(s, e)) = Len(s) + 1
         /\ \A i \in 1 .. Len(s) : Append(s, e)[i] = s[i]
         /\ Append(s, e)[Len(s) + 1] = e
         /\ Len(s) \in Nat
OBVIOUS

LEMMA SeqGrows ==
  ASSUME NEW m \in Nat, NEW n \in Nat, m <= n, NEW s \in Seq(1 .. m)
  PROVE  s \in Seq(1 .. n)
<1>1. 1 .. m \subseteq 1 .. n
  OBVIOUS
<1> QED
  BY <1>1

LEMMA ReachTyped ==
  ASSUME TypeOK, Links, NEW l \in 0 .. queued
  PROVE  Reach(l) \subseteq 1 .. queued
BY MaxLinesAssumption DEF TypeOK, Links, Reach, Lines, Null

(* Separate is a consequence of the ages.                                  *)
LEMMA AgesSeparate ==
  ASSUME TypeOK, DataInv
  PROVE  Separate
<1>1. \A l \in Reach(tail) : l \notin freed \cup Reach(batch)
  <2> SUFFICES ASSUME NEW l \in Reach(tail), l \in freed \cup Reach(batch)
               PROVE  FALSE
    OBVIOUS
  <2>1. l < l
    BY DEF DataInv, Ages
  <2>2. l \in Int
    BY ReachTyped DEF DataInv, TypeOK
  <2> QED
    BY <2>1, <2>2
<1>2. \A l \in Reach(batch) : l \notin freed
  <2> SUFFICES ASSUME NEW l \in Reach(batch), l \in freed
               PROVE  FALSE
    OBVIOUS
  <2>1. l < l
    BY DEF DataInv, Ages
  <2>2. l \in Int
    BY DEF TypeOK
  <2> QED
    BY <2>1, <2>2
<1> QED
  BY <1>1, <1>2 DEF Separate
-----------------------------------------------------------------------------
(* Typing.                                                                 *)

LEMMA TypeInit == Init => TypeOK
<1> SUFFICES ASSUME Init PROVE TypeOK
  OBVIOUS
<1>1. file \in Seq(1 .. queued)
  BY DEF Init
<1>2. next \in [Lines -> 0 .. MaxLines]
  BY MaxLinesAssumption DEF Init, Null
<1>3. destory \in BOOLEAN /\ toFile \in BOOLEAN /\ torn \in BOOLEAN /\ asleep \in BOOLEAN
  BY DEF Init
<1>4. /\ queued \in 0 .. MaxLines /\ tail \in 0 .. queued /\ batch \in 0 .. queued
      /\ freed \subseteq 1 .. queued /\ dropped \subseteq 1 .. queued
      /\ replaced \subseteq 1 .. queued
  BY MaxLinesAssumption DEF Init, Null
<1>5. /\ ctl = "idle" /\ want = "off" /\ worker = "none"
  BY DEF Init
<1> QED
  BY <1>1, <1>2, <1>3, <1>4, <1>5 DEF TypeOK

LEMMA TypeNext == TypeOK /\ Links /\ [Next]_vars => TypeOK'
<1> SUFFICES ASSUME TypeOK, Links, [Next]_vars
             PROVE  TypeOK'
  OBVIOUS
<1> USE MaxLinesAssumption DEF Null
<1>1. CASE Printf
  <2> DEFINE q == queued + 1
  <2>1. q \in 1 .. MaxLines /\ queued' = q /\ queued \in Nat /\ q \in Lines
    BY <1>1 DEF Printf, TypeOK, Lines
  <2>2. tail' \in 0 .. q /\ next' \in [Lines -> 0 .. MaxLines]
    <3>1. Linked(q) /\ tail \in 0 .. queued /\ next \in [Lines -> 0 .. MaxLines]
      BY <1>1 DEF Printf, TypeOK
    <3> tail <= queued /\ queued <= MaxLines
      BY <3>1, <2>1 DEF TypeOK
    <3>2. CASE tail = 0
      BY <3>1, <3>2, <2>1 DEF Linked
    <3>3. CASE tail # 0
      <4>1. tail \in Lines /\ next' = [next EXCEPT ![tail] = q] /\ tail' = tail
        BY <3>1, <3>3, <2>1 DEF Linked, Lines
      <4> QED
        BY <3>1, <4>1, <2>1 DEF Lines
    <3> QED
      BY <3>2, <3>3
  <2>3. file' \in Seq(1 .. q)
    BY <1>1, <2>1, SeqGrows DEF Printf, TypeOK
  <2>4. replaced' \subseteq 1 .. q
    <3>1. Reach(tail) \subseteq 1 .. queued /\ replaced \subseteq 1 .. queued
      BY ReachTyped DEF TypeOK
    <3>2. 1 .. queued \subseteq 1 .. q
      BY <2>1
    <3> QED
      BY <1>1, <3>1, <3>2 DEF Printf
  <2> QED
    BY <1>1, <2>1, <2>2, <2>3, <2>4 DEF Printf, TypeOK
<1>2. CASE WorkerCheck
  BY <1>2 DEF WorkerCheck, TypeOK, lists
<1>3. CASE WorkerWake
  BY <1>3 DEF WorkerWake, Wake, TypeOK, lists
<1>4. CASE WorkerDetach
  BY <1>4 DEF WorkerDetach, Detach, TypeOK
<1>5. CASE WorkerOpen
  <2>1. Reach(batch) \subseteq 1 .. queued
    BY ReachTyped DEF TypeOK
  <2>2. UNCHANGED <<ctl, want, destory, toFile, asleep, queued, tail, next, freed, file, replaced>>
    BY <1>5 DEF WorkerOpen
  <2>3. /\ batch' \in 0 .. queued
        /\ dropped' \subseteq 1 .. queued
    <3>1. batch' = batch \/ batch' = Null
      BY <1>5 DEF WorkerOpen
    <3>2. dropped' = dropped \/ dropped' = dropped \cup Reach(batch)
      BY <1>5 DEF WorkerOpen
    <3>3. queued \in 0 .. MaxLines /\ batch \in 0 .. queued /\ dropped \subseteq 1 .. queued
      BY DEF TypeOK
    <3>4. batch' \in 0 .. queued
      BY <3>1, <3>3
    <3>5. dropped' \subseteq 1 .. queued
      BY <2>1, <3>2, <3>3, Zenon
    <3> QED
      BY <3>4, <3>5
  <2>4. /\ worker' \in {"none", "check", "sleep", "detach", "open", "write", "done"}
        /\ torn' \in BOOLEAN
        /\ ctl' \in {"starting", "gone"} => worker' = "none"
    BY <1>5 DEF WorkerOpen, TypeOK
  <2> QED
    BY <2>2, <2>3, <2>4 DEF TypeOK
<1>6. CASE WorkerWrite
  <2>1. batch \in 1 .. queued /\ batch \in Lines
    BY <1>6 DEF WorkerWrite, TypeOK, Lines
  <2>2. next[batch] \in 0 .. queued
    BY <2>1 DEF Links, TypeOK
  <2>3. file' \in Seq(1 .. queued)
    BY <1>6, <2>1, Appended DEF WorkerWrite, TypeOK
  <2> QED
    BY <1>6, <2>1, <2>2, <2>3 DEF WorkerWrite, TypeOK
<1>7. CASE WorkerClose
  BY <1>7 DEF WorkerClose, TypeOK, lists
<1>8. CASE CtlCall
  BY <1>8 DEF CtlCall, Call, TypeOK, lists
<1>9. CASE CtlNamed
  BY <1>9 DEF CtlNamed, TypeOK, lists
<1>10. CASE CtlJoined
  BY <1>10 DEF CtlJoined, TypeOK, lists
<1>11. CASE CtlStart
  BY <1>11 DEF CtlStart, TypeOK, lists
<1>12. CASE CtlFlag
  BY <1>12 DEF CtlFlag, TypeOK, lists
<1>13. CASE CtlDestroy
  BY <1>13 DEF CtlDestroy, TypeOK, lists
<1>14. CASE UNCHANGED vars
  BY <1>14 DEF vars, TypeOK, lists
<1> QED
  BY <1>1, <1>2, <1>3, <1>4, <1>5, <1>6, <1>7, <1>8, <1>9, <1>10, <1>11, <1>12, <1>13, <1>14
     DEF Next, Worker, Control
-----------------------------------------------------------------------------
(* The list.                                                               *)

LEMMA DataInit == Init => DataInv
<1> SUFFICES ASSUME Init PROVE DataInv
  OBVIOUS
<1>1. Links
  BY MaxLinesAssumption DEF Init, Links, Lines, Null
<1>2. Reach(tail) = {} /\ Reach(batch) = {} /\ InFile = {}
  BY DEF Init, Reach, InFile
<1>3. Ages /\ Accounted
  BY <1>2 DEF Init, Ages, Accounted
<1>4. Holding /\ FileInOrder
  BY DEF Init, Holding, FileInOrder
<1> QED
  BY <1>1, <1>3, <1>4 DEF DataInv

(* A line is queued: it becomes the list, or the successor of its head.    *)
LEMMA DataPrintf ==
  ASSUME TypeOK, DataInv, Printf
  PROVE  DataInv'
<1> DEFINE q == queued + 1
<1>1. /\ q \in Lines /\ queued' = q /\ queued \in Nat
      /\ Linked(q)
      /\ replaced' = replaced \cup (Reach(tail) \ {tail})
      /\ UNCHANGED <<worker, batch, freed, file, dropped>>
  BY MaxLinesAssumption DEF Printf, TypeOK, Lines
<1>3. /\ next \in [Lines -> 0 .. MaxLines]
      /\ tail \in 0 .. queued /\ batch \in 0 .. queued
      /\ freed \subseteq 1 .. queued
      /\ Reach(batch) \subseteq 1 .. queued /\ Reach(tail) \subseteq 1 .. queued
  BY ReachTyped DEF TypeOK, DataInv
<1>4. /\ next' \in [Lines -> 0 .. MaxLines]
      /\ tail = 0 => tail' = q /\ next' = next
      /\ tail # 0 => /\ tail' = tail /\ tail \in Lines
                     /\ next' = [next EXCEPT ![tail] = q]
  BY <1>1, <1>3, MaxLinesAssumption DEF Linked, Lines, Null
<1> HIDE DEF q
<1>7. Links'
  <2>1. /\ \A l \in Lines : next[l] # 0 => l < next[l] /\ next[l] <= queued
        /\ \A l \in Lines : next[l] # 0 => next[next[l]] = 0
        /\ \A l \in Lines : l > queued => next[l] = 0
        /\ tail # 0 => \A l \in Lines : next[l] # tail
    BY DEF DataInv, Links, Null
  <2>2. CASE tail = 0
    BY <1>1, <1>3, <1>4, <2>1, <2>2, MaxLinesAssumption DEF Links, Lines, Null, q
  <2>3. CASE tail # 0
    <3>1. tail < q /\ q # tail /\ q \in Lines
      BY <1>1, <1>3 DEF q
    <3>2. \A l \in Lines : next'[l] = IF l = tail THEN q ELSE next[l]
      BY <1>3, <1>4, <2>3
    <3>3. next[q] = 0
      BY <1>1, <2>1 DEF q
    <3>4. \A l \in Lines : next'[l] # 0 => l < next'[l] /\ next'[l] <= queued'
      BY <1>1, <1>3, <2>1, <3>1, <3>2 DEF q, Lines
    <3>5. \A l \in Lines : next'[l] # 0 => next'[next'[l]] = 0
      <4> SUFFICES ASSUME NEW l \in Lines, next'[l] # 0
                   PROVE  next'[next'[l]] = 0
        OBVIOUS
      <4>1. CASE l = tail
        BY <3>1, <3>2, <3>3, <4>1
      <4>2. CASE l # tail
        <5>1. next'[l] = next[l] /\ next[l] # tail /\ next[l] \in Lines
          BY <1>3, <2>1, <2>3, <3>2, <4>2 DEF Lines
        <5> QED
          BY <2>1, <3>2, <5>1
      <4> QED
        BY <4>1, <4>2
    <3>6. \A l \in Lines : l > queued' => next'[l] = 0
      BY <1>1, <1>3, <2>1, <3>1, <3>2 DEF q, Lines
    <3>7. \A l \in Lines : next'[l] # tail'
      BY <1>4, <2>1, <2>3, <3>1, <3>2
    <3> QED
      BY <3>4, <3>5, <3>6, <3>7 DEF Links, Null
  <2> QED
    BY <2>2, <2>3
<1>8. Reach(batch)' = Reach(batch)
  <2>1. CASE tail = 0
    BY <1>1, <1>4, <2>1 DEF Reach
  <2>2. CASE batch = 0
    BY <1>1, <2>2 DEF Reach, Null
  <2>3. CASE tail # 0 /\ batch # 0
    <3>1. tail \in Reach(tail)
      BY <2>3 DEF Reach, Null
    <3>2. batch \in Reach(batch)
      BY <2>3 DEF Reach, Null
    <3>3. batch < tail
      BY <3>1, <3>2 DEF DataInv, Ages
    <3>4. batch \in Lines /\ batch # tail
      <4>1. batch \in Int /\ tail \in Int /\ batch <= queued /\ batch >= 1
        BY <1>1, <1>3, <2>3
      <4>2. queued <= MaxLines
        BY DEF TypeOK
      <4> QED
        BY <1>1, <3>3, <4>1, <4>2, MaxLinesAssumption DEF Lines
    <3>5. next'[batch] = next[batch]
      BY <1>3, <1>4, <2>3, <3>4
    <3> QED
      BY <1>1, <3>5 DEF Reach
  <2> QED
    BY <2>1, <2>2, <2>3
<1>9. \A l \in Reach(tail)' : l \in Reach(tail) \/ l = q
  <2>1. CASE tail = 0
    <3>1. next[q] = 0
      BY <1>1 DEF DataInv, Links, Null, q
    <3> QED
      BY <1>4, <2>1, <3>1 DEF Reach, Null
  <2>2. CASE tail # 0
    <3>1. tail' = tail /\ next'[tail] = q /\ tail \in Reach(tail)
      BY <1>3, <1>4, <2>2 DEF Reach, Null
    <3> QED
      BY <3>1 DEF Reach
  <2> QED
    BY <2>1, <2>2
<1>10. /\ q \in Reach(tail)'
       /\ tail # 0 => tail \in Reach(tail)'
       /\ \A l \in Reach(tail)' : l \in Reach(tail) => l = tail
  <2>1. \A l \in Reach(tail) : l # q
    BY <1>1, <1>3 DEF q
  <2>2. CASE tail = 0
    <3>1. Reach(tail) = {} /\ tail' = q /\ q # 0
      BY <1>1, <1>4, <2>2, MaxLinesAssumption DEF Reach, Null, q
    <3> QED
      BY <2>2, <3>1 DEF Reach, Null
  <2>3. CASE tail # 0
    <3>1. tail' = tail /\ next'[tail] = q /\ q # 0
      BY <1>1, <1>3, <1>4, <2>3 DEF q
    <3> QED
      BY <2>1, <2>3, <3>1 DEF Reach, Null
  <2> QED
    BY <2>2, <2>3
<1>11. Ages'
  <2>1. \A l \in Reach(tail)', m \in freed \cup Reach(batch) : m < l
    <3> SUFFICES ASSUME NEW l \in Reach(tail)', NEW m \in freed \cup Reach(batch)
                 PROVE  m < l
      OBVIOUS
    <3>1. m \in 1 .. queued
      BY <1>3
    <3>2. CASE l = q
      BY <1>1, <3>1, <3>2 DEF q
    <3>3. CASE l \in Reach(tail)
      BY <3>3 DEF DataInv, Ages
    <3> QED
      BY <1>9, <3>2, <3>3
  <2> QED
    BY <1>1, <1>8, <2>1 DEF DataInv, Ages, InFile
<1>12. Accounted'
  <2>1. InFile' = InFile /\ dropped' = dropped /\ Reach(batch)' = Reach(batch)
    BY <1>1, <1>8 DEF InFile
  <2>2. 1 .. queued' = 1 .. queued \cup {q} /\ q \notin 1 .. queued
    BY <1>1 DEF q
  <2>3. replaced' \cup Reach(tail)' = replaced \cup Reach(tail) \cup {q}
    BY <1>1, <1>9, <1>10 DEF Reach, Null
  <2>4. /\ Reach(tail) \cap Reach(batch) = {}
        /\ InFile \cap Reach(tail) = {}
    BY AgesSeparate DEF Separate, DataInv, Ages
  <2>5. /\ 1 .. queued = Reach(tail) \cup Reach(batch) \cup InFile \cup dropped \cup replaced
        /\ (dropped \cup replaced) \cap (Reach(tail) \cup Reach(batch) \cup InFile) = {}
    BY DEF DataInv, Accounted
  <2>6. (dropped \cup replaced') \cap (Reach(tail)' \cup Reach(batch) \cup InFile) = {}
    BY <1>1, <1>9, <1>10, <2>2, <2>4, <2>5
  <2>7. 1 .. queued' = Reach(tail)' \cup Reach(batch) \cup InFile \cup dropped \cup replaced'
    BY <2>2, <2>3, <2>5
  <2> QED
    BY <2>1, <2>6, <2>7 DEF Accounted
<1>13. FileInOrder' /\ Holding'
  BY <1>1 DEF DataInv, FileInOrder, Holding
<1> QED
  BY <1>7, <1>11, <1>12, <1>13 DEF DataInv

(* The list changes hands: the worker held none.                           *)
LEMMA DataDetach ==
  ASSUME TypeOK, DataInv, WorkerDetach
  PROVE  DataInv'
<1>1. /\ batch' = tail /\ tail' = Null /\ worker' = "open" /\ batch = Null
      /\ UNCHANGED <<queued, next, freed, file, replaced, dropped>>
  BY DEF WorkerDetach, Detach, DataInv, Holding
<1>2. FileInOrder' /\ Holding' /\ Links'
  BY <1>1 DEF DataInv, Links, Holding, FileInOrder
<1>3. Reach(batch)' = Reach(tail) /\ Reach(tail)' = {} /\ Reach(batch) = {} /\ InFile' = InFile
  BY <1>1 DEF Reach, InFile
<1>4. Ages'
  BY <1>1, <1>3 DEF DataInv, Ages
<1>5. Accounted'
  BY <1>1, <1>3 DEF DataInv, Accounted
<1> QED
  BY <1>2, <1>4, <1>5 DEF DataInv

(* The file opened, or did not: then the worker's lines are dropped.       *)
LEMMA DataOpen ==
  ASSUME TypeOK, DataInv, WorkerOpen
  PROVE  DataInv'
<1>1. UNCHANGED <<queued, tail, next, freed, file, replaced>>
  BY DEF WorkerOpen
<1>2. \/ batch' = batch /\ dropped' = dropped /\ worker' \in {"open", "write"}
      \/ batch' = Null /\ dropped' = dropped \cup Reach(batch)
  BY DEF WorkerOpen
<1>3. FileInOrder' /\ Links' /\ Holding'
  BY <1>1, <1>2 DEF DataInv, FileInOrder, Links, Holding
<1>4. /\ InFile' = InFile /\ Reach(tail)' = Reach(tail)
      /\ Reach(batch)' \cup dropped' = Reach(batch) \cup dropped
      /\ \/ Reach(batch)' = Reach(batch) /\ dropped' = dropped
         \/ Reach(batch)' = {}
  BY <1>1, <1>2 DEF Reach, InFile
<1>5. Ages'
  BY <1>1, <1>4 DEF DataInv, Ages
<1>6. Accounted'
  <2>1. /\ Reach(tail) \cap Reach(batch) = {}
        /\ InFile \cap Reach(batch) = {}
    BY AgesSeparate DEF Separate, DataInv, Ages
  <2>2. /\ 1 .. queued = Reach(tail) \cup Reach(batch) \cup InFile \cup dropped \cup replaced
        /\ (dropped \cup replaced) \cap (Reach(tail) \cup Reach(batch) \cup InFile) = {}
    BY DEF DataInv, Accounted
  <2>3. (dropped' \cup replaced) \cap (Reach(tail) \cup Reach(batch)' \cup InFile) = {}
    BY <1>4, <2>1, <2>2
  <2>4. 1 .. queued = Reach(tail) \cup Reach(batch)' \cup InFile \cup dropped' \cup replaced
    BY <1>4, <2>2
  <2> QED
    BY <1>1, <1>4, <2>3, <2>4 DEF Accounted
<1> QED
  BY <1>3, <1>5, <1>6 DEF DataInv

(* The oldest line the worker holds is written and deleted.                *)
LEMMA DataWrite ==
  ASSUME TypeOK, DataInv, WorkerWrite
  PROVE  DataInv'
<1>1. /\ file' = Append(file, batch) /\ freed' = freed \cup {batch} /\ batch' = next[batch]
      /\ UNCHANGED <<worker, queued, tail, next, replaced, dropped>>
      /\ worker = "write" /\ batch # Null
  BY DEF WorkerWrite
<1>2. /\ batch \in Lines /\ batch \in 1 .. queued
      /\ queued \in Nat
      /\ freed \subseteq 1 .. queued
  BY <1>1, MaxLinesAssumption DEF TypeOK, Lines, Null
<1>3. batch \in Reach(batch)
  BY <1>1 DEF Reach
<1>4. /\ Len(file) \in Nat
      /\ Len(file') = Len(file) + 1
      /\ \A i \in 1 .. Len(file) : file'[i] = file[i] /\ file[i] \in freed
      /\ file'[Len(file) + 1] = batch
  <2>1. /\ file \in Seq(1 .. queued)
        /\ \A i \in 1 .. Len(file) : file[i] \in freed
    BY DEF TypeOK, DataInv, Ages, InFile
  <2> QED
    BY <1>1, <1>2, <2>1, Appended
<1>5. Links' /\ Holding'
  BY <1>1 DEF DataInv, Links, Holding
<1>6. /\ Reach(batch) = Reach(batch)' \cup {batch}
      /\ \A l \in Reach(batch)' : batch < l
  <2>1. Reach(batch)' = IF next[batch] = Null THEN {} ELSE {next[batch], next[next[batch]]} \ {Null}
    BY <1>1 DEF Reach
  <2>2. CASE next[batch] = Null
    BY <1>1, <2>1, <2>2 DEF Reach
  <2>3. CASE next[batch] # Null
    <3>1. batch < next[batch] /\ next[next[batch]] = Null
      BY <1>2, <2>3 DEF DataInv, Links
    <3>2. Reach(batch)' = {next[batch]}
      BY <2>1, <2>3, <3>1
    <3> QED
      BY <1>1, <2>3, <3>1, <3>2 DEF Reach
  <2> QED
    BY <2>2, <2>3
<1>7. FileInOrder'
  <2> SUFFICES ASSUME NEW i \in 1 .. Len(file'), NEW j \in 1 .. Len(file'), i < j
               PROVE  file'[i] < file'[j]
    BY DEF FileInOrder
  <2>1. i \in 1 .. Len(file)
    BY <1>4
  <2>2. CASE j = Len(file) + 1
    BY <1>3, <1>4, <2>1, <2>2 DEF DataInv, Ages
  <2>3. CASE j # Len(file) + 1
    BY <1>4, <2>1, <2>3 DEF DataInv, FileInOrder
  <2> QED
    BY <2>2, <2>3
<1>8. InFile' = InFile \cup {batch}
  <2>1. \A i \in 1 .. Len(file') : i \in 1 .. Len(file) \/ i = Len(file) + 1
    BY <1>4
  <2>2. \A i \in 1 .. Len(file) : i \in 1 .. Len(file')
    BY <1>4
  <2>3. Len(file) + 1 \in 1 .. Len(file')
    BY <1>4
  <2> QED
    BY <1>4, <2>1, <2>2, <2>3 DEF InFile
<1>9. Reach(tail)' = Reach(tail)
  BY <1>1 DEF Reach
<1>10. Ages'
  BY <1>1, <1>3, <1>6, <1>8, <1>9 DEF DataInv, Ages
<1>11. Accounted'
  <2>1. Reach(batch)' \cup InFile' = Reach(batch) \cup InFile
    BY <1>6, <1>8
  <2> QED
    BY <1>1, <1>9, <2>1 DEF DataInv, Accounted
<1> QED
  BY <1>5, <1>7, <1>10, <1>11 DEF DataInv

LEMMA DataSame ==
  ASSUME DataInv, UNCHANGED lists, Holding'
  PROVE  DataInv'
<1>1. UNCHANGED <<queued, tail, next, batch, freed, file, replaced, dropped>>
  BY DEF lists
<1>2. FileInOrder' /\ Links'
  BY <1>1 DEF DataInv, FileInOrder, Links
<1>3. Reach(batch)' = Reach(batch) /\ Reach(tail)' = Reach(tail) /\ InFile' = InFile
  BY <1>1 DEF Reach, InFile
<1>4. Ages' /\ Accounted'
  BY <1>1, <1>3 DEF DataInv, Ages, Accounted
<1> QED
  BY <1>2, <1>4 DEF DataInv

LEMMA DataNext == TypeOK /\ DataInv /\ [Next]_vars => DataInv'
<1> SUFFICES ASSUME TypeOK, DataInv, [Next]_vars
             PROVE  DataInv'
  OBVIOUS
<1>1. CASE Printf
  BY <1>1, DataPrintf
<1>2. CASE WorkerDetach
  BY <1>2, DataDetach
<1>3. CASE WorkerOpen
  BY <1>3, DataOpen
<1>4. CASE WorkerWrite
  BY <1>4, DataWrite
<1>5. CASE WorkerCheck \/ WorkerWake \/ WorkerClose
  <2>1. UNCHANGED lists
    BY <1>5 DEF WorkerCheck, WorkerWake, WorkerClose
  <2>2. Holding'
    BY <1>5 DEF DataInv, Holding, WorkerCheck, WorkerWake, WorkerClose, lists
  <2> QED
    BY <2>1, <2>2, DataSame
<1>6. CASE Control
  <2>1. UNCHANGED lists
    BY <1>6 DEF Control, CtlCall, CtlNamed, CtlJoined, CtlStart, CtlFlag, CtlDestroy
  <2>2. worker' = worker \/ worker \notin {"open", "write"}
    BY <1>6 DEF Control, CtlCall, Call, CtlNamed, CtlJoined, CtlStart, CtlFlag, CtlDestroy, TypeOK
  <2>3. Holding'
    BY <2>1, <2>2 DEF DataInv, Holding, lists
  <2> QED
    BY <2>1, <2>3, DataSame
<1>7. CASE UNCHANGED vars
  <2>1. UNCHANGED lists /\ Holding'
    BY <1>7 DEF vars, lists, DataInv, Holding
  <2> QED
    BY <2>1, DataSame
<1> QED
  BY <1>1, <1>2, <1>3, <1>4, <1>5, <1>6, <1>7 DEF Next, Worker
-----------------------------------------------------------------------------
(* The threads.                                                            *)

LEMMA ThreadInit == Init => ThreadInv
BY DEF Init, ThreadInv, FirstNamingSafe

LEMMA ThreadNext == TypeOK /\ ThreadInv /\ [Next]_vars => ThreadInv'
<1> SUFFICES ASSUME TypeOK, ThreadInv, [Next]_vars
             PROVE  ThreadInv'
  OBVIOUS
<1>0. /\ ctl \in {"starting", "gone"} => worker = "none"
      /\ toFile \in BOOLEAN /\ asleep \in BOOLEAN /\ torn \in BOOLEAN
  BY DEF TypeOK
<1> USE <1>0 DEF ThreadInv, FirstNamingSafe
<1>1. CASE Printf
  <2>1. asleep = FALSE
    BY <1>1 DEF Printf, Alive
  <2> QED
    BY <1>1, <2>1 DEF Printf
<1>2. CASE WorkerCheck
  BY <1>2 DEF WorkerCheck, lists
<1>3. CASE WorkerWake
  BY <1>3 DEF WorkerWake, Wake, lists
<1>4. CASE WorkerDetach
  BY <1>4 DEF WorkerDetach, Detach
<1>5. CASE WorkerOpen
  BY <1>5 DEF WorkerOpen
<1>6. CASE WorkerWrite
  BY <1>6 DEF WorkerWrite
<1>7. CASE WorkerClose
  BY <1>7 DEF WorkerClose, lists
<1>8. CASE CtlCall
  BY <1>8 DEF CtlCall, Call, lists
<1>9. CASE CtlNamed
  BY <1>9 DEF CtlNamed, lists
<1>10. CASE CtlJoined
  BY <1>10 DEF CtlJoined, lists
<1>11. CASE CtlStart
  BY <1>11 DEF CtlStart, lists
<1>12. CASE CtlFlag
  BY <1>12 DEF CtlFlag, lists
<1>13. CASE CtlDestroy
  BY <1>13 DEF CtlDestroy, lists
<1>14. CASE UNCHANGED vars
  BY <1>14 DEF vars, lists
<1> QED
  BY <1>1, <1>2, <1>3, <1>4, <1>5, <1>6, <1>7, <1>8, <1>9, <1>10, <1>11, <1>12, <1>13, <1>14
     DEF Next, Worker, Control
-----------------------------------------------------------------------------
IndInv == TypeOK /\ DataInv /\ ThreadInv

(* The lists, the lines' ages and the threads' protocol (XLog.cpp) are     *)
(* kept by every step: what the theorems below rest on.                    *)
THEOREM LogInvariant == Spec => []IndInv
<1>1. Init => IndInv
  BY TypeInit, DataInit, ThreadInit DEF IndInv
<1>2. IndInv /\ [Next]_vars => IndInv'
  BY TypeNext, DataNext, ThreadNext DEF IndInv, DataInv
<1> QED
  BY <1>1, <1>2, PTL DEF Spec

(* XLog.cpp:252-284 and 435-445: every variable has its type, and no       *)
(* thread runs when m_worker is assigned or the log is gone.               *)
THEOREM LogTyped == Spec => []TypeOK
<1>1. IndInv => TypeOK
  BY DEF IndInv
<1> QED
  BY <1>1, LogInvariant, PTL

(* The thread that logs and the thread that writes share no line.          *)
THEOREM NoLineShared == Spec => []Separate
<1>1. IndInv => Separate
  BY AgesSeparate DEF IndInv
<1> QED
  BY <1>1, LogInvariant, PTL

(* Lines are written in the order in which they were logged.               *)
THEOREM WrittenInOrder == Spec => []FileInOrder
<1>1. IndInv => FileInOrder
  BY DEF IndInv, DataInv
<1> QED
  BY <1>1, LogInvariant, PTL

(* What printf queued (XLog.cpp:435-446) is listed, in the writer's hands  *)
(* or in the file, or it is one of the lines known to be lost: no line     *)
(* vanishes while the list changes hands.                                  *)
THEOREM LinesAccounted == Spec => []Accounted
<1>1. IndInv => Accounted
  BY DEF IndInv, DataInv
<1> QED
  BY <1>1, LogInvariant, PTL

(* After a destructor that found the writer asleep (XLog.cpp:252-261)      *)
(* every line is in the file, but for those replaced in the list and those *)
(* whose file did not open: neither the list nor the writer holds one.     *)
THEOREM AsleepLosesNothing == Spec => []AsleepWritesAll
<1>1. IndInv => AsleepWritesAll
  <2> SUFFICES ASSUME IndInv, ctl = "gone", asleep
               PROVE  1 .. queued = InFile \cup dropped \cup replaced
    BY DEF AsleepWritesAll
  <2>1. worker = "none"
    BY DEF IndInv, TypeOK
  <2>2. tail = Null /\ batch = Null
    BY <2>1 DEF IndInv, ThreadInv, DataInv, Holding
  <2>3. Reach(tail) = {} /\ Reach(batch) = {}
    BY <2>2 DEF Reach
  <2> QED
    BY <2>3 DEF IndInv, DataInv, Accounted
<1> QED
  BY <1>1, LogInvariant, PTL

(* The first call of SetEnableToFile does not race with the writer.        *)
THEOREM FirstNaming == Spec => []FirstNamingSafe
<1>1. IndInv => FirstNamingSafe
  BY DEF IndInv, ThreadInv
<1> QED
  BY <1>1, LogInvariant, PTL
-----------------------------------------------------------------------------
(* A worker that is waited for is there and has been told, and only one    *)
(* that was told leaves.                                                   *)
FlagInv ==
  /\ ctl \in {"joining", "destroying"} => destory /\ worker # "none"
  /\ worker = "done" => destory

(* Nobody takes back the flag before the worker has seen it.               *)
LEMMA FlagNext == TypeOK /\ FlagInv /\ [Next]_vars => FlagInv'
<1> SUFFICES ASSUME TypeOK, FlagInv, [Next]_vars
             PROVE  FlagInv'
  OBVIOUS
<1>0. (ctl \in {"starting", "gone"} => worker = "none") /\ destory \in BOOLEAN
  BY DEF TypeOK
<1> USE <1>0 DEF FlagInv
<1>1. CASE Printf
  BY <1>1 DEF Printf
<1>2. CASE WorkerCheck
  BY <1>2 DEF WorkerCheck, lists
<1>3. CASE WorkerWake \/ WorkerDetach
  BY <1>3 DEF WorkerWake, Wake, WorkerDetach, lists
<1>4. CASE WorkerOpen
  BY <1>4 DEF WorkerOpen
<1>5. CASE WorkerWrite \/ WorkerClose
  BY <1>5 DEF WorkerWrite, WorkerClose, lists
<1>6. CASE CtlCall
  BY <1>6 DEF CtlCall, Call, lists
<1>7. CASE CtlNamed
  BY <1>7 DEF CtlNamed, lists
<1>8. CASE CtlJoined
  BY <1>8 DEF CtlJoined, lists
<1>9. CASE CtlStart \/ CtlFlag
  BY <1>9 DEF CtlStart, CtlFlag, lists
<1>10. CASE CtlDestroy
  BY <1>10 DEF CtlDestroy, lists
<1>11. CASE UNCHANGED vars
  BY <1>11 DEF vars, lists
<1> QED
  BY <1>1, <1>2, <1>3, <1>4, <1>5, <1>6, <1>7, <1>8, <1>9, <1>10, <1>11
     DEF Next, Worker, Control

(* Line l is in the file.                                                  *)
Written(l) == \E i \in 1 .. Len(file) : file[i] = l

(* What a step of the worker does.                                         *)
WorkerStep ==
  \/ /\ worker = "check" /\ worker' = (IF destory THEN "done" ELSE "sleep")
     /\ UNCHANGED <<batch, tail, next, destory>>
  \/ /\ worker = "sleep" /\ worker' = (IF tail = Null THEN "check" ELSE "detach")
     /\ UNCHANGED <<batch, tail, next, destory>>
  \/ /\ worker = "detach" /\ worker' = "open"
     /\ batch' = tail /\ UNCHANGED <<next, destory>>
  \/ /\ worker = "open" /\ worker' = "write"
     /\ UNCHANGED <<batch, tail, next, destory>>
  \/ /\ worker = "open" /\ worker' = "check"
     /\ Reach(batch) \subseteq dropped'
     /\ UNCHANGED <<tail, next, destory>>
  \/ /\ worker = "write" /\ batch # Null /\ worker' = "write"
     /\ batch' = next[batch] /\ \E i \in 1 .. Len(file') : file'[i] = batch
     /\ UNCHANGED <<tail, next, destory>>
  \/ /\ worker = "write" /\ batch = Null /\ worker' = "check"
     /\ UNCHANGED <<batch, tail, next, destory>>

(* While the worker has something to do the others leave it and its list   *)
(* alone, and nobody takes back the flag.                                  *)
OtherStep ==
  /\ worker' = worker /\ (destory => destory')
  /\ batch' = batch
  /\ batch # Null => next'[batch] = next[batch]
  /\ tail # Null => tail' = tail

(* What the worker's steps wait for.                                       *)
CanWork == ~torn /\ worker \in {"check", "sleep", "detach", "open", "write"}

(* That is what writeToDisk does, unless it reads the name while it is     *)
(* being assigned.                                                         *)
LEMMA WorkerSteps ==
  ASSUME TypeOK, Worker, ~torn' PROVE WorkerStep
<1> USE DEF WorkerStep
<1>1. CASE WorkerCheck
  BY <1>1 DEF WorkerCheck, lists
<1>2. CASE WorkerWake
  BY <1>2 DEF WorkerWake, Wake, lists
<1>3. CASE WorkerDetach
  BY <1>3 DEF WorkerDetach, Detach
<1>4. CASE WorkerOpen
  BY <1>4 DEF WorkerOpen
<1>5. CASE WorkerWrite
  <2>1. file' = Append(file, batch) /\ file \in Seq(1 .. queued) /\ batch \in 1 .. queued
    BY <1>5 DEF WorkerWrite, TypeOK, Null
  <2>2. /\ Len(file) + 1 \in 1 .. Len(file') /\ file'[Len(file) + 1] = batch
    BY <2>1, Appended
  <2>3. \E i \in 1 .. Len(file') : file'[i] = batch
    BY <2>2
  <2>4. /\ worker = "write" /\ batch # Null /\ worker' = "write" /\ batch' = next[batch]
        /\ UNCHANGED <<next, tail, destory>>
    BY <1>5 DEF WorkerWrite
  <2>. QED BY <2>3, <2>4
<1>6. CASE WorkerClose
  BY <1>6 DEF WorkerClose, lists
<1> QED
  BY <1>1, <1>2, <1>3, <1>4, <1>5, <1>6 DEF Worker

(* printf writes into the tail of the list, which the worker does not      *)
(* hold.                                                                   *)
LEMMA OtherSteps ==
  ASSUME TypeOK, DataInv, FlagInv, CanWork, [Next]_vars, ~Worker
  PROVE  OtherStep
<1> USE DEF OtherStep, CanWork
<1>1. CASE Printf
  <2>1. UNCHANGED <<worker, destory, batch>> /\ Linked(queued + 1)
    BY <1>1 DEF Printf
  <2>2. tail # Null => tail' = tail
    BY <2>1 DEF Linked
  <2>3. ASSUME batch # Null PROVE next'[batch] = next[batch]
    <3>1. tail # batch
      <4>1. Reach(tail) \cap Reach(batch) = {}
        BY AgesSeparate DEF Separate
      <4>2. batch \in Reach(batch) /\ (tail # Null => tail \in Reach(tail))
        BY <2>3 DEF Reach
      <4>. QED BY <2>3, <4>1, <4>2
    <3>2. next \in [Lines -> 0 .. MaxLines]
      BY DEF TypeOK
    <3>3. next' = next \/ next' = [next EXCEPT ![tail] = queued + 1]
      BY <2>1 DEF Linked
    <3>4. batch \in Lines
      BY <2>3, MaxLinesAssumption DEF TypeOK, Lines, Null
    <3>. QED BY <3>1, <3>2, <3>3, <3>4
  <2>. QED BY <2>1, <2>2, <2>3
<1>2. CASE CtlCall
  BY <1>2 DEF CtlCall, Call, lists
<1>3. CASE CtlNamed
  <2>1. destory' = (destory \/ ctl' = "joining") /\ UNCHANGED <<worker, lists>>
    BY <1>3 DEF CtlNamed
  <2>2. destory => destory'
    BY <2>1
  <2>. QED BY <2>1, <2>2 DEF lists
<1>4. CASE CtlJoined \/ CtlFlag
  BY <1>4 DEF CtlJoined, CtlFlag, lists
<1>5. CASE CtlStart
  BY <1>5 DEF CtlStart, TypeOK
<1>6. CASE CtlDestroy
  BY <1>6 DEF CtlDestroy, lists
<1>7. CASE UNCHANGED vars
  BY <1>7 DEF vars, lists
<1> QED
  BY <1>1, <1>2, <1>3, <1>4, <1>5, <1>6, <1>7 DEF Next, Control

(* How much the worker still has to write.                                 *)
Two == worker = "write" /\ batch # Null /\ next[batch] # Null
One == worker = "write" /\ batch # Null /\ next[batch] = Null
Nothing == worker = "write" /\ batch = Null

(* A list has two lines at most, and every round writes one of them.       *)
LEMMA WritesDown ==
  ASSUME TypeOK, DataInv, FlagInv, CanWork, [Next]_vars, ~torn'
  PROVE  /\ Two => Two' \/ One'
         /\ One => One' \/ Nothing'
         /\ Nothing => Nothing' \/ (worker' = "check" /\ UNCHANGED <<tail, destory>>)
         /\ Worker => (Two => ~Two') /\ (One => ~One') /\ (Nothing => ~Nothing')
<1>0. worker = "write" /\ batch # Null => batch \in Lines
  BY MaxLinesAssumption DEF TypeOK, Lines, Null
<1>1. CASE Worker
  <2>1. WorkerStep
    BY <1>1, WorkerSteps
  <2>2. batch \in Lines /\ next[batch] # Null => next[next[batch]] = Null
    BY DEF DataInv, Links
  <2>. QED BY <1>0, <2>1, <2>2 DEF WorkerStep, Two, One, Nothing
<1>2. CASE ~Worker
  <2>1. OtherStep
    BY <1>2, OtherSteps
  <2>. QED BY <1>2, <2>1 DEF OtherStep, Two, One, Nothing
<1> QED
  BY <1>1, <1>2

(* Where a worker that is waited for is.                                   *)
Asked == ctl \in {"joining", "destroying"} /\ ~torn
Left == ctl \notin {"joining", "destroying"} \/ torn
AskedAt(w) == Asked /\ worker = w
AskedTwo == Asked /\ Two
AskedOne == Asked /\ One
AskedNothing == Asked /\ Nothing

(* What the end of the wait waits for.                                     *)
CanJoin == ~torn /\ ctl \in {"joining", "destroying"} /\ worker = "done"

(* A worker that is waited for goes from one place to the next.            *)
LEMMA AskedMoves ==
  ASSUME TypeOK, DataInv, FlagInv, [Next]_vars, ~Left'
  PROVE  /\ AskedAt("sleep") => AskedAt("sleep")' \/ AskedAt("detach")' \/ AskedAt("check")'
         /\ AskedAt("detach") => AskedAt("detach")' \/ AskedAt("open")'
         /\ AskedAt("open") => AskedAt("open")' \/ AskedAt("check")'
                               \/ AskedTwo' \/ AskedOne' \/ AskedNothing'
         /\ AskedTwo => AskedTwo' \/ AskedOne'
         /\ AskedOne => AskedOne' \/ AskedNothing'
         /\ AskedNothing => AskedNothing' \/ AskedAt("check")'
         /\ AskedAt("check") => AskedAt("check")' \/ AskedAt("done")'
         /\ AskedAt("done") => AskedAt("done")'
<1> USE DEF Asked, Left, AskedAt, AskedTwo, AskedOne, AskedNothing
<1>1. AskedAt("done") => AskedAt("done")'
  <2>1. ASSUME AskedAt("done") PROVE worker' = "done"
    <3>1. ~Worker
      BY <2>1 DEF Worker, WorkerCheck, WorkerWake, WorkerDetach, WorkerOpen, WorkerWrite, WorkerClose
    <3>2. CASE Printf \/ UNCHANGED vars
      BY <2>1, <3>2 DEF Printf, vars
    <3>3. CASE Control
      BY <2>1, <3>3 DEF Control, CtlCall, CtlNamed, CtlJoined, CtlStart, CtlFlag, CtlDestroy
    <3>. QED BY <3>1, <3>2, <3>3 DEF Next
  <2>. QED BY <2>1
<1>2. worker = "write" => Two \/ One \/ Nothing
  BY DEF Two, One, Nothing
<1>3. ASSUME CanWork
      PROVE  /\ worker = "sleep" => worker' \in {"sleep", "detach", "check"}
             /\ worker = "detach" => worker' \in {"detach", "open"}
             /\ worker = "open" => worker' \in {"open", "check", "write"}
             /\ worker = "check" /\ destory => worker' \in {"check", "done"}
  <2>1. CASE Worker
    BY <2>1, WorkerSteps DEF WorkerStep
  <2>2. CASE ~Worker
    BY <1>3, <2>2, OtherSteps DEF OtherStep
  <2>. QED BY <2>1, <2>2
<1>4. Asked => destory
  BY DEF FlagInv
<1>5. worker' = "write" => Two' \/ One' \/ Nothing'
  BY DEF Two, One, Nothing
<1>6. (AskedAt("sleep") \/ AskedAt("detach") \/ AskedAt("open") \/ AskedAt("check")) => CanWork
  BY DEF CanWork
<1>7. ASSUME Asked, worker = "write"
      PROVE  /\ Two => Two' \/ One'
             /\ One => One' \/ Nothing'
             /\ Nothing => Nothing' \/ worker' = "check"
  <2>1. CanWork
    BY <1>7 DEF CanWork
  <2>. QED BY <2>1, WritesDown
<1>8. Two \/ One \/ Nothing => worker = "write"
  BY DEF Two, One, Nothing
<1> HIDE DEF Left
<1>9. Asked'
  BY DEF Left
<1> QED
  BY <1>1, <1>3, <1>4, <1>5, <1>6, <1>7, <1>8, <1>9

(* And the worker's own step takes it on.                                  *)
LEMMA AskedSteps ==
  ASSUME TypeOK, DataInv, FlagInv, Worker, ~Left'
  PROVE  /\ AskedAt("sleep") => ~AskedAt("sleep")'
         /\ AskedAt("detach") => ~AskedAt("detach")'
         /\ AskedAt("open") => ~AskedAt("open")'
         /\ AskedTwo => ~AskedTwo'
         /\ AskedOne => ~AskedOne'
         /\ AskedNothing => ~AskedNothing'
         /\ AskedAt("check") => ~AskedAt("check")'
<1>1. WorkerStep
  BY WorkerSteps DEF Left
<1>2. /\ AskedAt("sleep") => ~AskedAt("sleep")'
      /\ AskedAt("detach") => ~AskedAt("detach")'
      /\ AskedAt("open") => ~AskedAt("open")'
      /\ AskedAt("check") => ~AskedAt("check")'
  BY <1>1 DEF WorkerStep, AskedAt
<1>3. ASSUME AskedTwo \/ AskedOne \/ AskedNothing
      PROVE  (Two => ~Two') /\ (One => ~One') /\ (Nothing => ~Nothing')
  <2>1. CanWork /\ ~torn'
    BY <1>3 DEF CanWork, AskedTwo, AskedOne, AskedNothing, Asked, Two, One, Nothing, Left
  <2>2. [Next]_vars
    BY DEF Next
  <2>. QED BY <2>1, <2>2, WritesDown
<1> QED
  BY <1>2, <1>3 DEF AskedTwo, AskedOne, AskedNothing

(* A step whose guard holds can be taken: ENABLED is a word the prover     *)
(* does not know.  Every action gives each primed variable a value,        *)
(* whatever the state.                                                     *)
GuardsSuffice ==
  /\ CanWork => ENABLED <<Worker>>_vars
  /\ CanJoin => ENABLED <<CtlJoined>>_vars

(* The invariants the next two theorems rest on.                           *)
LEMMA FlagInvariant == Spec => [](TypeOK /\ DataInv /\ FlagInv)
<1>1. Init => FlagInv
  BY DEF Init, FlagInv
<1>2. IndInv => TypeOK /\ DataInv
  BY DEF IndInv
<1> QED
  BY <1>1, <1>2, FlagNext, LogInvariant, PTL DEF Spec

(* SetEnableToFile and the destructor return (XLog.cpp:252-284): the       *)
(* worker writes what it holds, looks at the flag and leaves.              *)
THEOREM JoinsReturn == FairSpec /\ []GuardsSuffice => JoinReturns
<1> DEFINE Good == TypeOK /\ DataInv /\ FlagInv
           Sleeping == AskedAt("sleep")
           Detaching == AskedAt("detach")
           Opening == AskedAt("open")
           Checking == AskedAt("check")
           Waiting == AskedAt("done")
<1>1. Good /\ [Next]_vars =>
        /\ Sleeping => Sleeping' \/ Detaching' \/ Checking' \/ Left'
        /\ Detaching => Detaching' \/ Opening' \/ Left'
        /\ Opening => Opening' \/ Checking' \/ AskedTwo' \/ AskedOne' \/ AskedNothing' \/ Left'
        /\ AskedTwo => AskedTwo' \/ AskedOne' \/ Left'
        /\ AskedOne => AskedOne' \/ AskedNothing' \/ Left'
        /\ AskedNothing => AskedNothing' \/ Checking' \/ Left'
        /\ Checking => Checking' \/ Waiting' \/ Left'
        /\ Waiting => Waiting' \/ Left'
  BY AskedMoves
<1>2. Good /\ <<Worker>>_vars =>
        /\ Sleeping => ~Sleeping' \/ Left'
        /\ Detaching => ~Detaching' \/ Left'
        /\ Opening => ~Opening' \/ Left'
        /\ AskedTwo => ~AskedTwo' \/ Left'
        /\ AskedOne => ~AskedOne' \/ Left'
        /\ AskedNothing => ~AskedNothing' \/ Left'
        /\ Checking => ~Checking' \/ Left'
  <2>1. <<Worker>>_vars => Worker
    OBVIOUS
  <2>2. Good /\ Worker /\ ~Left' =>
          /\ Sleeping => ~Sleeping'
          /\ Detaching => ~Detaching'
          /\ Opening => ~Opening'
          /\ AskedTwo => ~AskedTwo'
          /\ AskedOne => ~AskedOne'
          /\ AskedNothing => ~AskedNothing'
          /\ Checking => ~Checking'
    BY AskedSteps
  <2> HIDE DEF Good, Sleeping, Detaching, Opening, Checking
  <2>. QED BY <2>1, <2>2
<1>3. /\ Sleeping \/ Detaching \/ Opening \/ Checking => CanWork
      /\ AskedTwo \/ AskedOne \/ AskedNothing => CanWork
      /\ Waiting => CanJoin
  BY DEF AskedAt, AskedTwo, AskedOne, AskedNothing, Two, One, Nothing, Asked, CanWork, CanJoin
<1>4. <<CtlJoined>>_vars => Left'
  BY DEF CtlJoined, Left
<1>5. Good => \/ Left \/ Sleeping \/ Detaching \/ Opening \/ Checking \/ Waiting
              \/ AskedTwo \/ AskedOne \/ AskedNothing
  BY DEF TypeOK, FlagInv, Left, AskedAt, AskedTwo, AskedOne, AskedNothing, Asked, Two, One, Nothing
<1>6. Left <=> ctl \notin {"joining", "destroying"} \/ torn
  BY DEF Left
<1>7. Spec => []Good
  BY FlagInvariant
<1> HIDE DEF Good, Sleeping, Detaching, Opening, Checking, Waiting
<1>8. FairSpec /\ []GuardsSuffice => [](Waiting => <>Left)
  BY <1>1, <1>3, <1>4, <1>7, PTL DEF FairSpec, Spec, GuardsSuffice
<1>9. FairSpec /\ []GuardsSuffice => [](Checking => <>Left)
  BY <1>1, <1>2, <1>3, <1>7, <1>8, PTL DEF FairSpec, Spec, GuardsSuffice
<1>10. FairSpec /\ []GuardsSuffice => [](AskedNothing => <>Left)
  BY <1>1, <1>2, <1>3, <1>7, <1>9, PTL DEF FairSpec, Spec, GuardsSuffice
<1>11. FairSpec /\ []GuardsSuffice => [](AskedOne => <>Left)
  BY <1>1, <1>2, <1>3, <1>7, <1>10, PTL DEF FairSpec, Spec, GuardsSuffice
<1>12. FairSpec /\ []GuardsSuffice => [](AskedTwo => <>Left)
  BY <1>1, <1>2, <1>3, <1>7, <1>11, PTL DEF FairSpec, Spec, GuardsSuffice
<1>13. FairSpec /\ []GuardsSuffice => [](Opening => <>Left)
  BY <1>1, <1>2, <1>3, <1>7, <1>9, <1>10, <1>11, <1>12, PTL DEF FairSpec, Spec, GuardsSuffice
<1>14. FairSpec /\ []GuardsSuffice => [](Detaching => <>Left)
  BY <1>1, <1>2, <1>3, <1>7, <1>13, PTL DEF FairSpec, Spec, GuardsSuffice
<1>15. FairSpec /\ []GuardsSuffice => [](Sleeping => <>Left)
  BY <1>1, <1>2, <1>3, <1>7, <1>9, <1>14, PTL DEF FairSpec, Spec, GuardsSuffice
<1> QED
  BY <1>5, <1>6, <1>7, <1>8, <1>9, <1>10, <1>11, <1>12, <1>13, <1>14, <1>15, PTL
  DEF JoinReturns, FairSpec

(* The first line of a list until it is written or given up: in the list   *)
(* while the worker is elsewhere or writes an earlier list, then held by   *)
(* the worker.                                                             *)
Settled(l) == Written(l) \/ l \in dropped \/ destory \/ torn
Heads(l) == tail = l /\ ~Settled(l)
HeadAt(l, w) == Heads(l) /\ worker = w
HeadTwo(l) == Heads(l) /\ Two
HeadOne(l) == Heads(l) /\ One
HeadNothing(l) == Heads(l) /\ Nothing
TakenAt(l, w) == batch = l /\ worker = w /\ ~Settled(l)

(* It stays first in the list until it is taken over, and then in the      *)
(* worker's until it is written.                                           *)
LEMMA HeadMoves ==
  ASSUME TypeOK, DataInv, FlagInv, NEW l \in Lines, [Next]_vars, ~Settled(l)'
  PROVE  /\ HeadAt(l, "open") => HeadAt(l, "open")' \/ HeadAt(l, "check")'
                                 \/ HeadTwo(l)' \/ HeadOne(l)' \/ HeadNothing(l)'
         /\ HeadTwo(l) => HeadTwo(l)' \/ HeadOne(l)'
         /\ HeadOne(l) => HeadOne(l)' \/ HeadNothing(l)'
         /\ HeadNothing(l) => HeadNothing(l)' \/ HeadAt(l, "check")'
         /\ HeadAt(l, "check") => HeadAt(l, "check")' \/ HeadAt(l, "sleep")'
         /\ HeadAt(l, "sleep") => HeadAt(l, "sleep")' \/ HeadAt(l, "detach")'
         /\ HeadAt(l, "detach") => HeadAt(l, "detach")' \/ TakenAt(l, "open")'
         /\ TakenAt(l, "open") => TakenAt(l, "open")' \/ TakenAt(l, "write")'
         /\ TakenAt(l, "write") => TakenAt(l, "write")'
<1>0. l # Null
  BY MaxLinesAssumption DEF Lines, Null
<1>1. ~torn' /\ ~destory' /\ l \notin dropped' /\ ~Written(l)'
  BY DEF Settled
<1>2. worker = "write" => Two \/ One \/ Nothing
  BY DEF Two, One, Nothing
<1>3. worker' = "write" => Two' \/ One' \/ Nothing'
  BY DEF Two, One, Nothing
<1>4. (Two \/ One \/ Nothing => worker = "write") /\ (Two' \/ One' \/ Nothing' => worker' = "write")
  BY DEF Two, One, Nothing
<1>5. ASSUME CanWork
      PROVE  /\ Two => Two' \/ One'
             /\ One => One' \/ Nothing'
             /\ Nothing => Nothing' \/ worker' = "check"
  BY <1>1, <1>5, WritesDown
<1>6. ASSUME CanWork, ~destory, tail = l
      PROVE  /\ worker \in {"open", "write", "check", "sleep"} => tail' = l
             /\ worker = "open" => worker' \in {"open", "check", "write"}
             /\ worker = "check" => worker' \in {"check", "sleep"}
             /\ worker = "sleep" => worker' \in {"sleep", "detach"}
             /\ worker = "detach" => (tail' = l /\ worker' = "detach") \/ (batch' = l /\ worker' = "open")
  <2>1. CASE Worker
    <3>1. WorkerStep
      BY <1>1, <2>1, WorkerSteps
    <3>2. tail # Null /\ tail = l /\ ~destory
      BY <1>0, <1>6
    <3>3. worker \in {"open", "write", "check", "sleep"} => tail' = l
      BY <3>1, <3>2 DEF WorkerStep
    <3>4. /\ worker = "open" => worker' \in {"open", "check", "write"}
          /\ worker = "check" => worker' \in {"check", "sleep"}
          /\ worker = "sleep" => worker' \in {"sleep", "detach"}
      BY <3>1, <3>2 DEF WorkerStep
    <3>5. worker = "detach" => batch' = l /\ worker' = "open"
      BY <3>1, <3>2 DEF WorkerStep
    <3>. QED BY <3>3, <3>4, <3>5
  <2>2. CASE ~Worker
    <3>1. worker' = worker /\ (tail # Null => tail' = tail)
      BY <1>6, <2>2, OtherSteps DEF OtherStep
    <3>2. tail' = l
      BY <1>0, <1>6, <3>1
    <3>3. worker' = worker
      BY <3>1
    <3>4. /\ worker = "open" => worker' \in {"open", "check", "write"}
          /\ worker = "check" => worker' \in {"check", "sleep"}
          /\ worker = "sleep" => worker' \in {"sleep", "detach"}
      BY <3>3
    <3>5. worker = "detach" => worker' = "detach"
      BY <3>3
    <3>. QED BY <3>2, <3>4, <3>5
  <2>. QED BY <2>1, <2>2
<1>7. ASSUME CanWork, batch = l
      PROVE  /\ worker = "open" => batch' = l /\ worker' \in {"open", "write"}
             /\ worker = "write" => batch' = l /\ worker' = "write"
  <2>1. CASE Worker
    <3>1. l \in Reach(batch)
      BY <1>0, <1>7 DEF Reach
    <3>. QED BY <1>0, <1>1, <1>7, <2>1, <3>1, WorkerSteps DEF WorkerStep, Written
  <2>2. CASE ~Worker
    BY <1>7, <2>2, OtherSteps DEF OtherStep
  <2>. QED BY <2>1, <2>2
<1>8. ASSUME NEW w \in {"open", "check", "sleep", "detach"}, HeadAt(l, w)
      PROVE  CanWork /\ ~destory /\ tail = l /\ worker = w
  BY <1>8 DEF HeadAt, Heads, Settled, CanWork
<1>9. ASSUME HeadTwo(l) \/ HeadOne(l) \/ HeadNothing(l)
      PROVE  CanWork /\ ~destory /\ tail = l /\ worker = "write"
  BY <1>4, <1>9 DEF HeadTwo, HeadOne, HeadNothing, Heads, Settled, CanWork
<1>10. ASSUME NEW w \in {"open", "write"}, TakenAt(l, w)
       PROVE  CanWork /\ batch = l /\ worker = w
  BY <1>10 DEF TakenAt, Settled, CanWork
<1>11. HeadAt(l, "open") => HeadAt(l, "open")' \/ HeadAt(l, "check")'
                            \/ HeadTwo(l)' \/ HeadOne(l)' \/ HeadNothing(l)'
  BY <1>3, <1>6, <1>8 DEF HeadAt, Heads, HeadTwo, HeadOne, HeadNothing
<1>12. /\ HeadTwo(l) => HeadTwo(l)' \/ HeadOne(l)'
       /\ HeadOne(l) => HeadOne(l)' \/ HeadNothing(l)'
       /\ HeadNothing(l) => HeadNothing(l)' \/ HeadAt(l, "check")'
  BY <1>5, <1>6, <1>9 DEF HeadAt, Heads, HeadTwo, HeadOne, HeadNothing
<1>13. /\ HeadAt(l, "check") => HeadAt(l, "check")' \/ HeadAt(l, "sleep")'
       /\ HeadAt(l, "sleep") => HeadAt(l, "sleep")' \/ HeadAt(l, "detach")'
       /\ HeadAt(l, "detach") => HeadAt(l, "detach")' \/ TakenAt(l, "open")'
  BY <1>6, <1>8 DEF HeadAt, Heads, TakenAt
<1>14. /\ TakenAt(l, "open") => TakenAt(l, "open")' \/ TakenAt(l, "write")'
       /\ TakenAt(l, "write") => TakenAt(l, "write")'
  BY <1>7, <1>10 DEF TakenAt
<1> QED
  BY <1>11, <1>12, <1>13, <1>14

(* And the worker's own step takes it on.                                  *)
LEMMA HeadSteps ==
  ASSUME TypeOK, DataInv, FlagInv, NEW l \in Lines, Worker, ~Settled(l)'
  PROVE  /\ HeadAt(l, "open") => ~HeadAt(l, "open")'
         /\ HeadTwo(l) => ~HeadTwo(l)'
         /\ HeadOne(l) => ~HeadOne(l)'
         /\ HeadNothing(l) => ~HeadNothing(l)'
         /\ HeadAt(l, "check") => ~HeadAt(l, "check")'
         /\ HeadAt(l, "sleep") => ~HeadAt(l, "sleep")'
         /\ HeadAt(l, "detach") => ~HeadAt(l, "detach")'
         /\ TakenAt(l, "open") => ~TakenAt(l, "open")'
         /\ ~TakenAt(l, "write")
<1>1. ~torn'
  BY DEF Settled
<1>2. WorkerStep
  BY <1>1, WorkerSteps
<1>3. /\ HeadAt(l, "open") => ~HeadAt(l, "open")'
      /\ HeadAt(l, "check") => ~HeadAt(l, "check")'
      /\ HeadAt(l, "sleep") => ~HeadAt(l, "sleep")'
      /\ HeadAt(l, "detach") => ~HeadAt(l, "detach")'
      /\ TakenAt(l, "open") => ~TakenAt(l, "open")'
  BY <1>2 DEF WorkerStep, HeadAt, TakenAt
<1>4. ASSUME HeadTwo(l) \/ HeadOne(l) \/ HeadNothing(l)
      PROVE  (Two => ~Two') /\ (One => ~One') /\ (Nothing => ~Nothing')
  <2>1. CanWork
    BY <1>4 DEF CanWork, HeadTwo, HeadOne, HeadNothing, Heads, Settled, Two, One, Nothing
  <2>2. [Next]_vars
    BY DEF Next
  <2>. QED BY <1>1, <2>1, <2>2, WritesDown
<1>5. ~TakenAt(l, "write")
  <2>1. SUFFICES ASSUME batch = l, worker = "write" PROVE FALSE
    BY DEF TakenAt
  <2>2. l # Null
    BY MaxLinesAssumption DEF Lines, Null
  <2>. QED BY <1>2, <2>1, <2>2 DEF WorkerStep, Settled, Written
<1> QED
  BY <1>3, <1>4, <1>5 DEF HeadTwo, HeadOne, HeadNothing

(* The first line of a list reaches the file (XLog.cpp:435-446, the loop   *)
(* of writeToDisk), unless the file does not open or the worker is being   *)
(* stopped.                                                                *)
THEOREM FirstLinesWritten == FairSpec /\ []GuardsSuffice => FirstLineWritten
<1>1. ASSUME NEW l \in Lines
      PROVE  FairSpec /\ []GuardsSuffice =>
               (tail = l /\ worker # "none"
                  ~> \/ \E i \in 1 .. Len(file) : file[i] = l
                     \/ l \in dropped \/ destory \/ torn)
  <2> DEFINE Good == TypeOK /\ DataInv /\ FlagInv
             Done == Settled(l)
             HO == HeadAt(l, "open")
             H2 == HeadTwo(l)
             H1 == HeadOne(l)
             H0 == HeadNothing(l)
             HC == HeadAt(l, "check")
             HS == HeadAt(l, "sleep")
             HD == HeadAt(l, "detach")
             TO == TakenAt(l, "open")
             TW == TakenAt(l, "write")
  <2>1. Good /\ [Next]_vars =>
          /\ HO => HO' \/ HC' \/ H2' \/ H1' \/ H0' \/ Done'
          /\ H2 => H2' \/ H1' \/ Done'
          /\ H1 => H1' \/ H0' \/ Done'
          /\ H0 => H0' \/ HC' \/ Done'
          /\ HC => HC' \/ HS' \/ Done'
          /\ HS => HS' \/ HD' \/ Done'
          /\ HD => HD' \/ TO' \/ Done'
          /\ TO => TO' \/ TW' \/ Done'
          /\ TW => TW' \/ Done'
    BY HeadMoves
  <2>2. Good /\ <<Worker>>_vars =>
          /\ HO => ~HO' \/ Done'
          /\ H2 => ~H2' \/ Done'
          /\ H1 => ~H1' \/ Done'
          /\ H0 => ~H0' \/ Done'
          /\ HC => ~HC' \/ Done'
          /\ HS => ~HS' \/ Done'
          /\ HD => ~HD' \/ Done'
          /\ TO => ~TO' \/ Done'
          /\ TW => Done'
    BY HeadSteps
  <2>3. HO \/ H2 \/ H1 \/ H0 \/ HC \/ HS \/ HD \/ TO \/ TW => CanWork
    BY DEF HeadAt, HeadTwo, HeadOne, HeadNothing, Heads, TakenAt, Settled, Two, One, Nothing, CanWork
  <2>4. Good /\ tail = l /\ worker # "none" =>
          Done \/ HO \/ H2 \/ H1 \/ H0 \/ HC \/ HS \/ HD
    BY DEF TypeOK, FlagInv, HeadAt, HeadTwo, HeadOne, HeadNothing, Heads, Settled, Two, One, Nothing
  <2>5. Done <=> \/ \E i \in 1 .. Len(file) : file[i] = l
                 \/ l \in dropped \/ destory \/ torn
    BY DEF Settled, Written
  <2>6. Spec => []Good
    BY FlagInvariant
  <2> HIDE DEF Good, Done, HO, H2, H1, H0, HC, HS, HD, TO, TW
  <2>7. FairSpec /\ []GuardsSuffice => [](TW => <>Done)
    BY <2>1, <2>2, <2>3, <2>6, PTL DEF FairSpec, Spec, GuardsSuffice
  <2>8. FairSpec /\ []GuardsSuffice => [](TO => <>Done)
    BY <2>1, <2>2, <2>3, <2>6, <2>7, PTL DEF FairSpec, Spec, GuardsSuffice
  <2>9. FairSpec /\ []GuardsSuffice => [](HD => <>Done)
    BY <2>1, <2>2, <2>3, <2>6, <2>8, PTL DEF FairSpec, Spec, GuardsSuffice
  <2>10. FairSpec /\ []GuardsSuffice => [](HS => <>Done)
    BY <2>1, <2>2, <2>3, <2>6, <2>9, PTL DEF FairSpec, Spec, GuardsSuffice
  <2>11. FairSpec /\ []GuardsSuffice => [](HC => <>Done)
    BY <2>1, <2>2, <2>3, <2>6, <2>10, PTL DEF FairSpec, Spec, GuardsSuffice
  <2>12. FairSpec /\ []GuardsSuffice => [](H0 => <>Done)
    BY <2>1, <2>2, <2>3, <2>6, <2>11, PTL DEF FairSpec, Spec, GuardsSuffice
  <2>13. FairSpec /\ []GuardsSuffice => [](H1 => <>Done)
    BY <2>1, <2>2, <2>3, <2>6, <2>12, PTL DEF FairSpec, Spec, GuardsSuffice
  <2>14. FairSpec /\ []GuardsSuffice => [](H2 => <>Done)
    BY <2>1, <2>2, <2>3, <2>6, <2>13, PTL DEF FairSpec, Spec, GuardsSuffice
  <2>15. FairSpec /\ []GuardsSuffice => [](HO => <>Done)
    BY <2>1, <2>2, <2>3, <2>6, <2>11, <2>12, <2>13, <2>14, PTL DEF FairSpec, Spec, GuardsSuffice
  <2> QED
    BY <2>4, <2>5, <2>6, <2>9, <2>10, <2>11, <2>12, <2>13, <2>14, <2>15, PTL DEF FairSpec
<1> QED
  BY <1>1 DEF FirstLineWritten
=============================================================================
