--------------------------- MODULE LinuxProcessProofs ---------------------------
(***************************************************************************)
(* Facts about the queue of posted tasks, for every set of tasks.          *)
(***************************************************************************)
EXTENDS LinuxProcess, TLAPS

LEMMA PostToQueue ==
  ASSUME NEW queue \in Seq(Tasks), NoTaskTwice(queue), NEW task \in Tasks
  PROVE  /\ PostTo(queue, task) \in Seq(Tasks)
         /\ NoTaskTwice(PostTo(queue, task))
         /\ \A t : Queued(PostTo(queue, task), t) <=> Queued(queue, t) \/ t = task
<1>1. CASE Queued(queue, task)
  BY <1>1 DEF PostTo
<1>2. CASE ~Queued(queue, task)
  <2> DEFINE longer == Append(queue, task)
  <2>1. PostTo(queue, task) = longer /\ longer \in Seq(Tasks)
    BY <1>2 DEF PostTo
  <2>2. /\ Len(longer) = Len(queue) + 1
        /\ longer[Len(queue) + 1] = task
        /\ \A i \in 1..Len(queue) : longer[i] = queue[i]
    OBVIOUS
  <2>3. NoTaskTwice(longer)
    BY <1>2, <2>2 DEF NoTaskTwice, Queued
  <2>4. \A t : Queued(longer, t) <=> Queued(queue, t) \/ t = task
    BY <2>2 DEF Queued
  <2>5. QED
    BY <2>1, <2>3, <2>4
<1>3. QED
  BY <1>1, <1>2

LEMMA TailQueue ==
  ASSUME NEW queue \in Seq(Tasks), NoTaskTwice(queue), queue # <<>>
  PROVE  /\ Tail(queue) \in Seq(Tasks)
         /\ NoTaskTwice(Tail(queue))
         /\ \A t : Queued(Tail(queue), t) <=> Queued(queue, t) /\ t # Head(queue)
<1>1. /\ Tail(queue) \in Seq(Tasks)
      /\ Len(queue) \in Nat \ {0}
      /\ Len(Tail(queue)) = Len(queue) - 1
      /\ \A i \in 1..Len(Tail(queue)) : Tail(queue)[i] = queue[i + 1]
      /\ Head(queue) = queue[1]
  OBVIOUS
<1>2. NoTaskTwice(Tail(queue))
  BY <1>1 DEF NoTaskTwice
<1>3. ASSUME NEW t, Queued(Tail(queue), t)
      PROVE  Queued(queue, t) /\ t # Head(queue)
  <2>1. PICK i \in 1..Len(Tail(queue)) : queue[i + 1] = t
    BY <1>1, <1>3 DEF Queued
  <2>2. i + 1 \in 1..Len(queue) /\ i + 1 # 1 /\ 1 \in 1..Len(queue)
    BY <1>1
  <2>3. QED
    BY <1>1, <2>1, <2>2 DEF Queued, NoTaskTwice
<1>4. ASSUME NEW t, Queued(queue, t), t # Head(queue)
      PROVE  Queued(Tail(queue), t)
  <2>1. PICK i \in 1..Len(queue) : queue[i] = t
    BY <1>4 DEF Queued
  <2>2. i - 1 \in 1..Len(Tail(queue)) /\ (i - 1) + 1 = i
    BY <1>1, <1>4, <2>1
  <2>3. QED
    BY <1>1, <2>1, <2>2 DEF Queued
<1>5. QED
  BY <1>1, <1>2, <1>3, <1>4
=============================================================================
