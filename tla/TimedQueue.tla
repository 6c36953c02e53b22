----------------------------- MODULE TimedQueue -----------------------------
(***************************************************************************)
(* The timed queue of the background worker: src/src/common/utility/       *)
(* TimedQueue.hpp with the UniqueList.hpp it keeps its elements in, and    *)
(* the flag of Exiting.cpp.                                                *)
(*                                                                         *)
(* queue(), remove(), stop() and one round of loop() run under m_lock and  *)
(* are one step each.  notify_one() comes after the unlock: a caller is    *)
(* between the two while it is counted in notices.  Time is discrete:      *)
(* "due" is what is left until an element expires, 0 once it has, and      *)
(* "timer" what is left of wait_for().  Elements that are due at the same  *)
(* tick are in the order in which they were queued, as the steady clock    *)
(* orders them.                                                            *)
(***************************************************************************)
EXTENDS Integers, Sequences

CONSTANTS MaxNotices   (* bound: callers that are between unlock and notify_one *)

ASSUME TimedQueueAssumption == MaxNotices \in Nat \ {0}

VARIABLES m_list,     (* elements [key, info, due], the first expires first     *)
          m_stop,
          exitHandler, (* of Exiting.cpp: "idle", "raised" or "done"            *)
          worker,     (* where the thread that runs loop() is                   *)
          timer,      (* what is left of its wait, or Forever                   *)
          current,    (* the element it took from the list                      *)
          notices

queueVars == <<m_list, m_stop, exitHandler, worker, timer, current, notices>>

Forever == -1
NoElement == [key |-> <<>>, info |-> 0, due |-> 0]

WorkerStates == {"loop", "asleep", "running", "returned", "crashed"}

InitQueue ==
    /\ m_list = <<>>
    /\ m_stop = FALSE
    /\ exitHandler = "idle"
    /\ worker = "loop"
    /\ timer = 0
    /\ current = NoElement
    /\ notices = 0

isExiting == exitHandler # "idle"

Elements == {m_list[i] : i \in DOMAIN m_list}
-----------------------------------------------------------------------------
(* UniqueList                                                              *)

Listed(list, key) == \E i \in DOMAIN list : list[i].key = key
find(list, key) == CHOOSE i \in DOMAIN list : list[i].key = key

Erased(list, key) ==
    IF Listed(list, key)
    THEN SubSeq(list, 1, find(list, key) - 1)
             \o SubSeq(list, find(list, key) + 1, Len(list))
    ELSE list

\* The place before the first element that expires strictly later.
Place(list, due) ==
    CHOOSE i \in 1 .. Len(list) + 1 :
        /\ \A j \in 1 .. i - 1 : list[j].due <= due
        /\ i <= Len(list) => list[i].due > due

\* insert(): the element of the same key goes, the new one comes.
Inserted(list, key, info, due) ==
    LET others == Erased(list, key)
        i == Place(others, due)
    IN  SubSeq(others, 1, i - 1) \o <<[key |-> key, info |-> info, due |-> due]>>
            \o SubSeq(others, i, Len(others))

\* A mutant of Updated: an element keeps the info it was first queued with.
NotUpdated(list, key, info) == list

Updated(list, key, info) ==
    [i \in DOMAIN list |->
        IF list[i].key = key THEN [list[i] EXCEPT !.info = info] ELSE list[i]]

\* A mutant of KeepsPlace: Mode::ReQueue.
NeverKeepsPlace(key, due) == FALSE

\* Mode::ForwardOnly, the only one in use: an element that is due no later
\* stays where it is.
KeepsPlace(key, due) == \E e \in Elements : e.key = key /\ e.due <= due
-----------------------------------------------------------------------------
(* queue(), remove() and stop(), as called by some other thread or by the  *)
(* worker itself, whose notify_one() finds nobody waiting                  *)

notifyOne(byWorker) ==
    /\ byWorker \/ notices < MaxNotices
    /\ notices' = IF byWorker THEN notices ELSE notices + 1

\* A mutant of stop: the worker is not notified.
StopSilently(byWorker) ==
    /\ m_list' = <<>>
    /\ m_stop' = TRUE
    /\ UNCHANGED notices

stop(byWorker) ==
    /\ m_list' = <<>>
    /\ m_stop' = TRUE
    /\ notifyOne(byWorker)

\* A mutant of MustNotify: only the first element of an empty list wakes.
MustNotifyWhenEmpty(list, key) == m_list = <<>>

MustNotify(list, key) == Head(list).key = key

\* When the process exits queue() stops the queue instead.  m_stop is only set
\* then, so that the test of it under the lock never decides.
queue(key, info, delay, byWorker) ==
    LET list == Inserted(m_list, key, info, delay) IN
    \/ isExiting /\ stop(byWorker)
    \/ /\ ~isExiting /\ ~m_stop /\ KeepsPlace(key, delay)
       /\ m_list' = Updated(m_list, key, info)
       /\ UNCHANGED <<m_stop, notices>>
    \/ /\ ~isExiting /\ ~m_stop /\ ~KeepsPlace(key, delay)
       /\ m_list' = list
       /\ UNCHANGED m_stop
       /\ IF MustNotify(list, key) THEN notifyOne(byWorker) ELSE UNCHANGED notices

\* remove(), of one key or of several in turn; the others stay.
remove(others) ==
    \/ isExiting /\ ~m_stop /\ stop(FALSE)
    \/ m_stop /\ UNCHANGED <<m_list, m_stop, notices>>
    \/ /\ ~isExiting /\ ~m_stop
       /\ m_list' = others
       /\ UNCHANGED <<m_stop, notices>>
-----------------------------------------------------------------------------
(* loop()                                                                  *)

Sleep(left) ==
    /\ worker' = "asleep"
    /\ timer' = left
    /\ UNCHANGED <<m_list, current>>

\* One round: return, wait for the first element to come, wait for it to
\* expire, or take it.
loop ==
    /\ worker = "loop"
    /\ \/ /\ isExiting \/ m_stop
          /\ worker' = "returned"
          /\ UNCHANGED <<m_list, timer, current>>
       \/ ~isExiting /\ ~m_stop /\ m_list = <<>> /\ Sleep(Forever)
       \/ /\ ~isExiting /\ ~m_stop /\ m_list # <<>>
          /\ \/ Head(m_list).due > 0 /\ Sleep(Head(m_list).due)
             \/ /\ Head(m_list).due = 0
                /\ m_list' = Tail(m_list)
                /\ current' = Head(m_list)
                /\ worker' = "running"
                /\ UNCHANGED timer
    /\ UNCHANGED <<m_stop, exitHandler, notices>>

Wake ==
    /\ worker' = IF worker = "asleep" THEN "loop" ELSE worker
    /\ timer' = 0

\* wait_for() returns when its time is over.
timedOut ==
    /\ worker = "asleep" /\ timer = 0
    /\ Wake
    /\ UNCHANGED <<m_list, m_stop, exitHandler, current, notices>>

\* A wait returns although nobody notified it.
spuriousWakeup ==
    /\ worker = "asleep" /\ timer # 0
    /\ Wake
    /\ UNCHANGED <<m_list, m_stop, exitHandler, current, notices>>

\* A caller's notify_one() reaches the worker, or nobody.
notifyArrives ==
    /\ notices > 0
    /\ notices' = notices - 1
    /\ IF worker = "asleep" THEN Wake ELSE UNCHANGED <<worker, timer>>
    /\ UNCHANGED <<m_list, m_stop, exitHandler, current>>

\* The worker has taken an element, but the process is exiting by now.
skipped ==
    /\ worker = "running" /\ isExiting
    /\ worker' = "loop"
    /\ current' = NoElement
    /\ UNCHANGED <<m_list, m_stop, exitHandler, timer, notices>>

\* The callback of loop() has returned.
finished ==
    /\ worker' = "loop"
    /\ current' = NoElement
    /\ UNCHANGED <<exitHandler, timer>>

\* The exit handler raises the flag, then stops the queue.
exitProcess ==
    /\ exitHandler = "idle"
    /\ exitHandler' = "raised"
    /\ UNCHANGED <<m_list, m_stop, worker, timer, current, notices>>

stopQueue ==
    /\ exitHandler = "raised"
    /\ exitHandler' = "done"
    /\ stop(FALSE)
    /\ UNCHANGED <<worker, timer, current>>

\* One tick of the steady clock passes.
Sooner(n) == IF n > 0 THEN n - 1 ELSE n

elapse ==
    /\ m_list' = [i \in DOMAIN m_list |-> [m_list[i] EXCEPT !.due = Sooner(@)]]
    /\ timer' = Sooner(timer)
    /\ UNCHANGED <<m_stop, exitHandler, worker, current, notices>>

\* Something counts down.
ClockMatters == timer > 0 \/ \E e \in Elements : e.due > 0
=============================================================================
