----------------------------- MODULE LinuxProcess -----------------------------
(***************************************************************************)
(* The TinyOS process under Linux: the scheduler's loop, the sleep that is *)
(* a select() over the descriptors registered with the IO manager, and the *)
(* alarm signal.                                                           *)
(*                                                                         *)
(* The scheduler runs one posted task after the other with signals enabled *)
(* and sleeps when it finds none.  It looks for a task with signals        *)
(* blocked; a signal that comes then is delivered when McuSleep.sleep      *)
(* enables them, before select() is called.                                *)
(***************************************************************************)
EXTENDS Naturals, Sequences

CONSTANTS
  NFiles,        \* N_FDS: the descriptors' owners are 0..(NFiles - 1)
  Width,         \* a descriptor is kept modulo Width, in a uint8_t
  Descriptors,   \* the descriptors the process can have
  Tasks

Files == 0..(NFiles - 1)
Nothing == 1     \* the entry of a file without a descriptor

ASSUME ProcessAssumption ==
  /\ NFiles \in Nat \ {0}
  /\ Width \in Nat /\ Width > Nothing
  /\ Descriptors \subseteq Nat

VARIABLES
  main,        \* where the process is
  taskQueue,   \* the posted tasks, in FIFO order
  sigalrm,     \* SIGALRM is pending
  watched,     \* map: the descriptor of each file
  pending      \* the files that select() found ready and that are still to be told

processVars == <<main, taskQueue, sigalrm, watched, pending>>

\* Task queues.
Queued(queue, task) == \E i \in 1..Len(queue) : queue[i] = task
NoTaskTwice(queue) == \A i, j \in 1..Len(queue) : queue[i] = queue[j] => i = j

ProcessTypeOK ==
  /\ main \in {"running", "enabled", "select", "dispatch"}
  /\ taskQueue \in Seq(Tasks) /\ NoTaskTwice(taskQueue)
  /\ sigalrm \in BOOLEAN
  /\ watched \in [Files -> 0..(Width - 1)]
  /\ pending \in SUBSET Files

-----------------------------------------------------------------------------
Posted(task) == Queued(taskQueue, task)

\* Faulty variant: a posted task is posted again.
PostTwice(queue, task) == Append(queue, task)

PostTo(queue, task) == IF Queued(queue, task) THEN queue ELSE Append(queue, task)

\* The scheduler is about to run the task.
Runs(task) == main = "running" /\ taskQueue # <<>> /\ Head(taskQueue) = task

\* IO.registerFileDescriptor and IO.unregisterFileDescriptor
registered(file, fd) == [watched EXCEPT ![file] = fd % Width]
\* Faulty variant: the map is indexed by the descriptor instead of the file.
UnregistersByDescriptor(file) ==
  [f \in Files \cup {watched[file]} |-> IF f = watched[file] THEN Nothing ELSE watched[f]]
unregistered(file) == [watched EXCEPT ![file] = Nothing]

\* The loop of waitForIO over the files: nfds, one more than the highest
\* descriptor, is a uint8_t like the descriptors.
nfds[n \in 0..NFiles] ==
  IF n = 0 THEN 0
  ELSE IF watched[n - 1] # Nothing /\ watched[n - 1] + 1 > nfds[n - 1]
    THEN (watched[n - 1] + 1) % Width ELSE nfds[n - 1]

\* The files whose descriptors select() looks at.
Selected == {f \in Files : watched[f] # Nothing /\ watched[f] < nfds[NFiles]}

-----------------------------------------------------------------------------
\* The scheduler finds no task, and sleep() enables the signals,
FallAsleep ==
  /\ main = "running"
  /\ taskQueue = <<>>
  /\ main' = "enabled"
  /\ UNCHANGED <<taskQueue, sigalrm, watched, pending>>

\* and calls select().
CallSelect ==
  /\ main = "enabled"
  /\ main' = "select"
  /\ UNCHANGED <<taskQueue, sigalrm, watched, pending>>

\* select() returns because the files in ready have input.
SelectReturns(ready) ==
  /\ main = "select"
  /\ Selected \cap ready # {}
  /\ pending' = Selected \cap ready
  /\ main' = "dispatch"
  /\ UNCHANGED <<taskQueue, sigalrm, watched>>

\* Faulty variant: waitForIO goes back to select().
TellsAndWaits(file) ==
  /\ main = "dispatch"
  /\ file \in pending
  /\ \A f \in pending : file <= f
  /\ pending' = pending \ {file}
  /\ main' = IF pending' = {} THEN "select" ELSE "dispatch"

\* Faulty variant: waitForIO ends with the first ready file.
TellsTheFirst(file) ==
  /\ main = "dispatch"
  /\ file \in pending
  /\ \A f \in pending : file <= f
  /\ pending' = {}
  /\ main' = "running"

\* waitForIO signals IO.receiveReady to the next file.
Tells(file) ==
  /\ main = "dispatch"
  /\ file \in pending
  /\ \A f \in pending : file <= f
  /\ pending' = pending \ {file}
  /\ main' = IF pending' = {} THEN "running" ELSE "dispatch"

\* The handler of SIGALRM posts the timer task; it interrupts select().
Alarm(task) ==
  /\ sigalrm
  /\ sigalrm' = FALSE
  /\ taskQueue' = PostTo(taskQueue, task)
  /\ main' = IF main = "select" THEN "running" ELSE main
  /\ UNCHANGED <<watched, pending>>
=============================================================================
