-------------------------------- MODULE XLog --------------------------------
(***************************************************************************)
(* The asynchronous log CxLog (LibXs/XLog.h, XLog.cpp).                    *)
(*                                                                         *)
(* printf, called by any thread under m_mutex, links a line into a list;   *)
(* a worker thread (writeToDisk) wakes up once a second, detaches the list *)
(* under the same mutex and writes it to the file.  SetEnableToFile and    *)
(* the destructor stop the worker through the flag m_bDestory and join it. *)
(*                                                                         *)
(* What runs under the mutex is one step.  The worker's look at m_tail,    *)
(* its file access and all of SetEnableToFile run without it and are steps *)
(* of their own.  A line is its number in the order of queueing; text,     *)
(* colours, levels and the daily file name are left out.                   *)
(***************************************************************************)
EXTENDS Integers, Sequences

CONSTANT MaxLines               \* the bound on lines ever queued

ASSUME MaxLinesAssumption == MaxLines \in Nat

Lines == 1 .. MaxLines
Null == 0                       \* NULL for a pointer to a CxLogLine

VARIABLES
  ctl,          \* where the controlling thread is
  want,         \* what it was called for
  worker,       \* where the worker thread is, "none" if m_worker is NULL
  destory,      \* m_bDestory
  toFile,       \* m_bFile
  queued,       \* number of lines queued so far
  tail,         \* m_tail, which is the HEAD of the list
  next,         \* CxLogLine::next
  batch,        \* the worker's _m_tail
  freed,        \* lines the worker has deleted
  file,         \* the lines in the file
  torn,         \* the file name was read while it was assigned
  replaced,     \* history: lines a later line took the place of in the list
  dropped,      \* history: lines detached for a file that did not open
  asleep        \* history: the destructor found the worker asleep

lists == <<queued, tail, next, batch, freed, file, replaced, dropped>>
vars == <<ctl, want, worker, destory, toFile, torn, asleep, lists>>

(* The last conjunct: nobody assigns m_worker or frees the log while the   *)
(* thread runs.                                                            *)
TypeOK ==
  /\ ctl \in {"idle", "naming", "joining", "starting", "flag", "destroying", "gone"}
  /\ want \in {"on", "off", "name"}
  /\ worker \in {"none", "check", "sleep", "detach", "open", "write", "done"}
  /\ destory \in BOOLEAN /\ toFile \in BOOLEAN /\ torn \in BOOLEAN /\ asleep \in BOOLEAN
  /\ queued \in 0 .. MaxLines
  /\ tail \in 0 .. queued
  /\ next \in [Lines -> 0 .. MaxLines]
  /\ batch \in 0 .. queued
  /\ freed \subseteq 1 .. queued
  /\ file \in Seq(1 .. queued)
  /\ replaced \subseteq 1 .. queued
  /\ dropped \subseteq 1 .. queued
  /\ ctl \in {"starting", "gone"} => worker = "none"

Init ==
  /\ ctl = "idle" /\ want = "off" /\ worker = "none"
  /\ destory = FALSE /\ toFile = FALSE /\ torn = FALSE /\ asleep = FALSE
  /\ queued = 0 /\ tail = Null /\ batch = Null
  /\ next = [l \in Lines |-> Null]
  /\ freed = {} /\ file = <<>> /\ replaced = {} /\ dropped = {}

(* The nodes of the list that begins at l, which never has a third one.    *)
Reach(l) == IF l = Null THEN {} ELSE {l, next[l]} \ {Null}

Alive == ctl \notin {"destroying", "gone"}
-----------------------------------------------------------------------------
(* Mutations of definitions below, used to validate the properties.        *)

\* The new line becomes the head of the list.
LinkedInFront(l) ==
  /\ tail' = l
  /\ next' = [next EXCEPT ![l] = tail]

\* The list is copied and not taken: m_tail is not reset.
DetachKeeps ==
  /\ batch' = tail
  /\ UNCHANGED tail

\* m_tail is reset before it is copied.
DetachSwapped == tail' = Null /\ batch' = Null

\* The empty list is checked for in a loop that does not look at m_bDestory.
WakeIgnoresFlag == worker' = IF tail = Null THEN "sleep" ELSE "detach"

\* The worker leaves as soon as it wakes up and finds m_bDestory set.
WakeLeaves ==
  worker' = IF destory THEN "done" ELSE IF tail = Null THEN "check" ELSE "detach"

\* SetEnableToFile starts the worker first and names the file afterwards.
CallStarts(w) ==
  /\ ctl' = "naming"
  /\ want' = w
  /\ worker' = IF w = "on" /\ worker = "none" THEN "check" ELSE worker

-----------------------------------------------------------------------------
(* printf, with m_bFile set: CxLogLine(str, m_tail) writes itself into     *)
(* m_tail->next, and m_tail stays where it is.  The line that m_tail->next *)
(* pointed to before is in no list any more.                               *)
Linked(l) ==
  IF tail = Null
  THEN tail' = l /\ UNCHANGED next
  ELSE next' = [next EXCEPT ![tail] = l] /\ UNCHANGED tail

Printf ==
  /\ ~torn /\ Alive
  /\ toFile
  /\ queued < MaxLines
  /\ queued' = queued + 1
  /\ Linked(queued + 1)
  /\ replaced' = replaced \cup (Reach(tail) \ {tail})
  /\ UNCHANGED <<ctl, want, worker, destory, toFile, torn, asleep,
                 batch, freed, file, dropped>>
-----------------------------------------------------------------------------
(* The worker thread, writeToDisk.                                         *)

\* while (!m_bDestory)
WorkerCheck ==
  /\ ~torn
  /\ worker = "check"
  /\ worker' = IF destory THEN "done" ELSE "sleep"
  /\ UNCHANGED <<ctl, want, destory, toFile, torn, asleep, lists>>

\* A second has passed; m_tail is read without the mutex.
Wake == worker' = IF tail = Null THEN "check" ELSE "detach"

WorkerWake ==
  /\ ~torn
  /\ worker = "sleep"
  /\ Wake
  /\ UNCHANGED <<ctl, want, destory, toFile, torn, asleep, lists>>

\* Under the mutex: the list is taken over.
Detach ==
  /\ batch' = tail
  /\ tail' = Null

WorkerDetach ==
  /\ ~torn
  /\ worker = "detach"
  /\ worker' = "open"
  /\ Detach
  /\ UNCHANGED <<ctl, want, destory, toFile, torn, asleep,
                 queued, next, freed, file, replaced, dropped>>

(* GetLogFilename and OpenFile.  The name is a std::string another thread  *)
(* may be assigning.  If the file does not open, the lines are forgotten.  *)
WorkerOpen ==
  /\ ~torn
  /\ worker = "open"
  /\ \/ /\ ctl # "naming"
        /\ worker' = "write"
        /\ UNCHANGED <<torn, batch, dropped>>
     \/ /\ ctl # "naming"
        /\ worker' = "check"
        /\ batch' = Null
        /\ dropped' = dropped \cup Reach(batch)
        /\ UNCHANGED torn
     \/ /\ ctl = "naming"
        /\ torn' = TRUE
        /\ UNCHANGED <<worker, batch, dropped>>
  /\ UNCHANGED <<ctl, want, destory, toFile, asleep,
                 queued, tail, next, freed, file, replaced>>

\* One round of the inner loop: write, step on, delete.
WorkerWrite ==
  /\ ~torn
  /\ worker = "write" /\ batch # Null
  /\ file' = Append(file, batch)
  /\ freed' = freed \cup {batch}
  /\ batch' = next[batch]
  /\ UNCHANGED <<ctl, want, worker, destory, toFile, torn, asleep,
                 queued, tail, next, replaced, dropped>>

\* fclose
WorkerClose ==
  /\ ~torn
  /\ worker = "write" /\ batch = Null
  /\ worker' = "check"
  /\ UNCHANGED <<ctl, want, destory, toFile, torn, asleep, lists>>
-----------------------------------------------------------------------------
(* The controlling thread: SetEnableToFile (on, off), SetEnableDaily and   *)
(* SetFilenamePrefix (name), and the destructor.                           *)

\* Both begin by assigning m_prefix, whether or not a worker is running.
Call(w) ==
  /\ ctl' = "naming"
  /\ want' = w
  /\ UNCHANGED worker

CtlCall ==
  /\ ~torn
  /\ ctl = "idle"
  /\ \E w \in {"on", "off", "name"} : Call(w)
  /\ UNCHANGED <<destory, toFile, torn, asleep, lists>>

\* The name is assigned; a running worker is asked to stop.
CtlNamed ==
  /\ ~torn
  /\ ctl = "naming"
  /\ ctl' = IF want = "name" THEN "idle"
            ELSE IF worker = "none" THEN "starting" ELSE "joining"
  /\ destory' = (destory \/ ctl' = "joining")
  /\ UNCHANGED <<want, worker, toFile, torn, asleep, lists>>

\* join returns; the destructor leaves the flag set.
CtlJoined ==
  /\ ~torn
  /\ ctl \in {"joining", "destroying"}
  /\ worker = "done"
  /\ worker' = "none"
  /\ ctl' = IF ctl = "joining" THEN "starting" ELSE "gone"
  /\ destory' = (ctl = "destroying")
  /\ UNCHANGED <<want, toFile, torn, asleep, lists>>

CtlStart ==
  /\ ~torn
  /\ ctl = "starting"
  /\ ctl' = "flag"
  /\ worker' = IF want = "on" THEN "check" ELSE worker
  /\ UNCHANGED <<want, destory, toFile, torn, asleep, lists>>

CtlFlag ==
  /\ ~torn
  /\ ctl = "flag"
  /\ ctl' = "idle"
  /\ toFile' = (want = "on")
  /\ UNCHANGED <<want, worker, destory, torn, asleep, lists>>

\* Mutation: the destructor does not join.
CtlDestroyAtOnce ==
  /\ ~torn
  /\ ctl = "idle"
  /\ destory' = TRUE
  /\ ctl' = "gone"
  /\ asleep' = (worker = "sleep")
  /\ UNCHANGED <<want, worker, toFile, torn, lists>>

CtlDestroy ==
  /\ ~torn
  /\ ctl = "idle"
  /\ destory' = TRUE
  /\ ctl' = IF worker = "none" THEN "gone" ELSE "destroying"
  /\ asleep' = (worker = "sleep")
  /\ UNCHANGED <<want, worker, toFile, torn, lists>>
-----------------------------------------------------------------------------
Worker ==
  \/ WorkerCheck \/ WorkerWake \/ WorkerDetach
  \/ WorkerOpen \/ WorkerWrite \/ WorkerClose

Control ==
  \/ CtlCall \/ CtlNamed \/ CtlJoined \/ CtlStart \/ CtlFlag \/ CtlDestroy

Next == Printf \/ Worker \/ Control

Spec == Init /\ [][Next]_vars

(* The worker is scheduled and its sleep ends; a call that has begun goes  *)
(* on.  Nothing is assumed of who logs and who calls.                      *)
FairSpec ==
  /\ Spec
  /\ WF_vars(Worker)
  /\ WF_vars(CtlNamed) /\ WF_vars(CtlJoined) /\ WF_vars(CtlStart) /\ WF_vars(CtlFlag)
-----------------------------------------------------------------------------
(* printf and the worker never touch the same line, and neither touches a  *)
(* line that was deleted: nodes reachable from m_tail, those reachable     *)
(* from the worker's list and the deleted ones are three different sets.   *)
Separate ==
  /\ Reach(tail) \cap Reach(batch) = {}
  /\ freed \cap (Reach(tail) \cup Reach(batch)) = {}

InFile == {file[i] : i \in 1 .. Len(file)}

(* A line that was queued is somewhere, and in one place: still listed, in *)
(* the worker's hands or in the file - or it is one of those that are      *)
(* known to be lost, because the file did not open for it or because a     *)
(* later line took its place; these are in none of the three.  No line     *)
(* gets lost between two threads.                                          *)
Accounted ==
  /\ 1 .. queued = Reach(tail) \cup Reach(batch) \cup InFile \cup dropped \cup replaced
  /\ (dropped \cup replaced) \cap (Reach(tail) \cup Reach(batch) \cup InFile) = {}

(* XLog.cpp:435, of the line just printed: "保存到准备写的队列中", it is    *)
(* saved into the queue of what is to be written.  So every line that was  *)
(* queued is still queued, with the worker or written, but for those whose *)
(* file did not open.                                                      *)
SavedToBeWritten ==
  1 .. queued \subseteq Reach(tail) \cup Reach(batch) \cup InFile \cup dropped

(* The file has the lines in the order they were logged, each once.        *)
FileInOrder ==
  \A i, j \in 1 .. Len(file) : i < j => file[i] < file[j]

(* If the destructor finds the worker asleep, every line is in the file    *)
(* when it returns, but for the lines whose file did not open and those    *)
(* replaced in the list before: the worker looks at the list once more     *)
(* before it sees the flag.  A destructor that finds the worker elsewhere  *)
(* may leave lines in the list.                                            *)
AsleepWritesAll ==
  ctl = "gone" /\ asleep => 1 .. queued = InFile \cup dropped \cup replaced

(* The name of the file is read while it is being assigned only if a       *)
(* second call finds a worker of an earlier one: the first call names the  *)
(* file before it starts the thread.                                       *)
FirstNamingSafe == torn => toFile

(* The first line of a list reaches the file, unless the file cannot be    *)
(* opened or the worker is being stopped.                                  *)
FirstLineWritten ==
  \A l \in Lines :
    tail = l /\ worker # "none"
      ~> \/ \E i \in 1 .. Len(file) : file[i] = l
         \/ l \in dropped \/ destory \/ torn

(* SetEnableToFile and the destructor return: a worker that is asked to    *)
(* stop does.                                                              *)
JoinReturns ==
  ctl \in {"joining", "destroying"} ~> ctl \notin {"joining", "destroying"} \/ torn
=============================================================================
