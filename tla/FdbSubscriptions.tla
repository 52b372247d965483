--------------------------- MODULE FdbSubscriptions ---------------------------
(***************************************************************************)
(* Change watches over FoundationDB.  After a commit, emit sets the watch  *)
(* keys of the event in a transaction of its own, and forgets it when that *)
(* fails.  A subscriber has a loop for each key: it reads the key and      *)
(* watches it, and when the watch fires or breaks it sets the debounce     *)
(* timer and watches again, after a delay if it broke.  The timer calls    *)
(* onInvalidate, and the subscriber reads its query again.                 *)
(*                                                                         *)
(* A watch fires when the key is not what it was when the watch was made:  *)
(* what is set between two watches fires neither.                          *)
(***************************************************************************)
EXTENDS Integers, FiniteSets

CONSTANTS WatchKey, MaxCommits

ASSUME WatchAssumption == MaxCommits \in Nat

VARIABLES
  committed,   \* how many events have been committed
  unsent,      \* the events whose keys are not set yet: [number, keys]
  marker,      \* the event that set each key last
  loop,        \* each loop: where it is, what it has seen, whether it is ready
  handle,      \* opening, open, failed or closed
  debounce,    \* the timer is set
  due,         \* the subscriber is to read
  readUpTo,    \* what it has read
  missed       \* history: since the last read, an event no read was to come for

watchVars == <<committed, unsent, marker, loop, handle, debounce, due, readUpTo, missed>>
storeVars == <<committed, unsent, marker>>

WatchInit ==
  /\ committed = 0 /\ unsent = {} /\ marker = [k \in WatchKey |-> 0]
  /\ loop = [k \in WatchKey |-> [at |-> "arming", seen |-> 0, ready |-> FALSE]]
  /\ handle = "opening" /\ debounce = FALSE
  /\ due = TRUE /\ readUpTo = 0 /\ missed = FALSE

CommitEvent ==
  /\ committed < MaxCommits
  /\ committed' = committed + 1
  /\ \E keys \in (SUBSET WatchKey) \ {{}} :
       unsent' = unsent \cup {[number |-> committed + 1, keys |-> keys]}
  /\ UNCHANGED <<marker, loop, handle, debounce, due, readUpTo, missed>>

\* Whether the subscriber is to read: some watch will tell it to, or it is told.
WillBeRead(keys) ==
  debounce \/ due \/ \E k \in keys : loop[k].at \in {"armed", "fired"}

Signal(e) ==
  /\ marker' = [k \in WatchKey |-> IF k \in e.keys THEN e.number ELSE marker[k]]
  /\ unsent' = unsent \ {e}
  /\ missed' = (missed \/ (e.number > readUpTo /\ ~ WillBeRead(e.keys)))
  /\ UNCHANGED <<committed, loop, handle, debounce, due, readUpTo>>

\* makeFdbChangeEmitterService: a signal that fails is caught and forgotten.
LoseSignal(e) ==
  /\ unsent' = unsent \ {e}
  /\ missed' = (missed \/ e.number > readUpTo)
  /\ UNCHANGED <<committed, marker, loop, handle, debounce, due, readUpTo>>

Emitted == \E e \in unsent : Signal(e) \/ LoseSignal(e)
-----------------------------------------------------------------------------
Running == handle \in {"opening", "open"}
Set(k, place) == loop' = [loop EXCEPT ![k].at = place]

\* scheduleInvalidate.
Schedule == debounce' = TRUE

\* getWatch: the key is read and watched.
Arm(k) ==
  /\ Running /\ loop[k].at = "arming"
  /\ loop' = [loop EXCEPT ![k] = [at |-> "armed", seen |-> marker[k], ready |-> TRUE]]
  /\ UNCHANGED <<storeVars, handle, debounce, due, readUpTo, missed>>

Fire(k) ==
  /\ Running /\ loop[k].at = "armed" /\ loop[k].seen # marker[k]
  /\ Set(k, "fired")
  /\ UNCHANGED <<storeVars, handle, debounce, due, readUpTo, missed>>

\* Bug: the loop watches again and tells nobody.
NoticeQuietly(k) ==
  /\ Running /\ loop[k].at = "fired"
  /\ Set(k, "arming")
  /\ UNCHANGED <<storeVars, debounce, handle, due, readUpTo, missed>>

Notice(k) ==
  /\ Running /\ loop[k].at = "fired"
  /\ Schedule /\ Set(k, "arming")
  /\ UNCHANGED <<storeVars, handle, due, readUpTo, missed>>

\* The watch, or making it, fails.  Before the first watch of the key it is the
\* opening that fails.
Break(k) ==
  /\ Running /\ loop[k].at \in {"arming", "armed"}
  /\ IF loop[k].ready
     THEN Schedule /\ Set(k, "sleeping") /\ UNCHANGED handle
     ELSE /\ handle' = "failed" /\ debounce' = FALSE
          /\ Set(k, "off")
  /\ UNCHANGED <<storeVars, due, readUpTo, missed>>

Wake(k) ==
  /\ Running /\ loop[k].at = "sleeping"
  /\ Set(k, "arming")
  /\ UNCHANGED <<storeVars, handle, debounce, due, readUpTo, missed>>

Progress(k) == Arm(k) \/ Fire(k) \/ Notice(k) \/ Wake(k)
-----------------------------------------------------------------------------
\* watchKeys returns when every loop has watched its key once; the subscriber
\* then reads for the first time.
WatchKeysReturns ==
  /\ handle = "opening" /\ \A k \in WatchKey : loop[k].ready
  /\ handle' = "open"
  /\ UNCHANGED <<storeVars, loop, debounce, due, readUpTo, missed>>

Debounce ==
  /\ Running /\ debounce
  /\ debounce' = FALSE /\ due' = TRUE
  /\ UNCHANGED <<storeVars, loop, handle, readUpTo, missed>>

Read ==
  /\ handle = "open" /\ due
  /\ due' = FALSE /\ readUpTo' = committed /\ missed' = FALSE
  /\ UNCHANGED <<storeVars, loop, handle, debounce>>

CloseHandle ==
  /\ handle = "open"
  /\ handle' = "closed" /\ debounce' = FALSE
  /\ loop' = [k \in WatchKey |-> [loop[k] EXCEPT !.at = "off"]]
  /\ UNCHANGED <<storeVars, due, readUpTo, missed>>

WatchNext ==
  \/ CommitEvent \/ Emitted
  \/ \E k \in WatchKey : Progress(k) \/ Break(k)
  \/ WatchKeysReturns \/ Debounce \/ Read \/ CloseHandle

\* The event loop runs what is ready: signals return, watches are made and
\* fire, timers go off.
WatchSpec ==
  /\ WatchInit /\ [][WatchNext]_watchVars
  /\ WF_watchVars(Emitted) /\ WF_watchVars(Debounce) /\ WF_watchVars(Read)
  /\ \A k \in WatchKey : WF_watchVars(Progress(k))
-----------------------------------------------------------------------------
\* A subscriber that is behind reads again, unless since its last read an event
\* was signalled while none of its keys was watched and no read was to come, or
\* a signal failed.
\* (FdbSubscriptions.ts:5-6: "lets subscribers watch dependency keys to know
\* when to rerun their query")
EveryChangeIsReadUnlessMissed ==
  (handle = "open" /\ readUpTo < committed) ~>
    (handle # "open" \/ readUpTo = committed \/ missed)

\* A read is to come: it is due or the timer is set, an event it has not read is unsent, or
\* a watch has fired or is about to.
ReadIsToCome ==
  \/ due \/ debounce
  \/ \E e \in unsent : e.number > readUpTo
  \/ \E k \in WatchKey : loop[k].at = "fired" \/ (loop[k].at = "armed" /\ loop[k].seen # marker[k])

\* No wake-up is lost: a subscriber that is behind has a read to come, wherever the event
\* was when its loops read their keys, watched them, slept and watched again, unless an event
\* was missed as above (FdbSubscriptions.ts, the loops of watchKeys and the debounce).
BehindHasAReadToCome == handle = "open" /\ readUpTo < committed /\ ~ missed => ReadIsToCome
=============================================================================
