----------------------------- MODULE TabAttention -----------------------------
(***************************************************************************)
(* The sound and the system notice of one browser with several tabs        *)
(* (src/apps/web/src/app/core/attention.service.ts): every tab is told of  *)
(* the same notification, one of them may act on it, and none does once a  *)
(* tab in focus has taken it.  The tabs agree by a lock per notification   *)
(* (Web Locks) and by the map rr.notify.handled in the local storage.      *)
(*                                                                         *)
(* A tab reads the storage through a copy that lags behind (seenMap) and   *)
(* writes the whole map, so that a mark made meanwhile by another tab may  *)
(* be overwritten (lost).  A lock is held HOLD_MS, which is longer than    *)
(* the copies lag.  Timers may be late by any time: browsers slow down     *)
(* tabs in the background.  Left out: the 20 s between two sounds, the 10  *)
(* s between two texts for screen readers, the two minutes after which a   *)
(* mark is dropped (nobody waits that long), browsers without locks.       *)
(***************************************************************************)
EXTENDS Integers, FiniteSets

CONSTANTS
  Tab,        \* tabs of one browser
  Notice      \* notifications that ask the person to act

VARIABLES
  focus,      \* the tab the person looks at, as a set of at most one
  sound, desktop,  \* the two settings of the device
  audible,    \* tabs whose audio a gesture has woken
  phase,      \* what a tab is doing about a notice
  lock,       \* holder of the lock of a notice, as a set of at most one
  store,      \* the map of handled notices in the local storage
  seenMap,    \* a tab's copy of it
  lost,       \* notices whose mark was overwritten
  taken,      \* notices taken by a tab in focus
  acted       \* tabs that have acted on a notice

settings      == <<sound, desktop, audible>>
marks         == <<store, seenMap, lost>>
attentionVars == <<focus, settings, phase, lock, marks, taken, acted>>

(* A tab in focus is claiming, then has claimed the lock or passed without *)
(* it; one in the background is waiting, asking, and acts if granted.      *)
TabPhase == {"away", "claiming", "claimed", "passed", "waiting", "asking", "granted",
          "holding", "done"}

AttentionTypeOK ==
  /\ focus \subseteq Tab /\ Cardinality(focus) <= 1
  /\ sound \in BOOLEAN /\ desktop \in BOOLEAN /\ audible \subseteq Tab
  /\ phase \in [Tab -> [Notice -> TabPhase]]
  /\ lock \in [Notice -> SUBSET Tab] /\ \A n \in Notice : Cardinality(lock[n]) <= 1
  /\ store \subseteq Notice /\ seenMap \in [Tab -> SUBSET Notice] /\ lost \subseteq Notice
  /\ taken \subseteq Notice /\ acted \in [Notice -> SUBSET Tab]

AttentionInit ==
  /\ focus = {}
  /\ sound \in BOOLEAN /\ desktop \in BOOLEAN /\ audible = {}
  /\ phase = [t \in Tab |-> [n \in Notice |-> "away"]]
  /\ lock = [n \in Notice |-> {}]
  /\ store = {} /\ seenMap = [t \in Tab |-> {}] /\ lost = {}
  /\ taken = {} /\ acted = [n \in Notice |-> {}]

Goes(t, n, p) == phase' = [phase EXCEPT ![t][n] = p]

Looking(t)      == t \in focus
Signals(t)      == IF (sound /\ t \in audible) \/ desktop THEN {t} ELSE {}
IsHandled(t, n) == n \in seenMap[t]

MarkHandled(t, n) ==
  LET map == seenMap[t] \cup {n}
  IN /\ seenMap' = [seenMap EXCEPT ![t] = map]
     /\ store' = map
     /\ lost' = lost \cup (store \ map)

(* The copy of a tab catches up with the storage.                          *)
CatchUp(t) ==
  /\ seenMap[t] # store
  /\ seenMap' = [seenMap EXCEPT ![t] = store]
  /\ UNCHANGED <<focus, settings, phase, lock, store, lost, taken, acted>>

(* A tab marks a notice of long ago, or one that is not looked at here:    *)
(* its whole map is written again.                                         *)
MarkAnother(t) ==
  /\ store # seenMap[t]
  /\ store' = seenMap[t] /\ lost' = lost \cup (store \ seenMap[t])
  /\ UNCHANGED <<focus, settings, phase, lock, seenMap, taken, acted>>

(* The person turns to a tab or away from all of them.                     *)
TurnTo ==
  /\ focus' \in {{}} \cup {{t} : t \in Tab} /\ focus' # focus
  /\ UNCHANGED <<settings, phase, lock, marks, taken, acted>>

(* A click or a key in a tab wakes its audio, if the sound is on.          *)
WakeAudio(t) ==
  /\ Looking(t) /\ sound /\ audible' = audible \cup {t}
  /\ UNCHANGED <<focus, sound, desktop, phase, lock, marks, taken, acted>>

(* The bell's two switches; the other tabs follow the storage event.       *)
SetSound(t) ==
  /\ Looking(t) /\ sound' = ~sound
  /\ audible' = IF sound' THEN audible \cup {t} ELSE audible
  /\ UNCHANGED <<focus, desktop, phase, lock, marks, taken, acted>>

SetDesktop(t) ==
  /\ Looking(t) /\ desktop' = ~desktop
  /\ UNCHANGED <<focus, sound, audible, phase, lock, marks, taken, acted>>

(* The tab shows the card the notice is about, in focus or in a window     *)
(* beside the one that is: the notice is read.                             *)
SeenHere(t, n) ==
  /\ phase[t][n] = "away"
  /\ MarkHandled(t, n)
  /\ Goes(t, n, "done")
  /\ UNCHANGED <<focus, settings, lock, taken, acted>>

(* notify, and claim up to its first await.                                *)
Notify(t, n) ==
  /\ phase[t][n] = "away"
  /\ Goes(t, n, IF ~sound /\ ~desktop THEN "done"
                ELSE IF Looking(t) THEN "claiming"
                ELSE IF t \notin audible /\ ~desktop THEN "done"
                ELSE "waiting")
  /\ UNCHANGED <<focus, settings, lock, marks, taken, acted>>

(* The wait of a tab in the background is over.                            *)
WaitOver(t, n) ==
  /\ phase[t][n] = "waiting"
  /\ Goes(t, n, IF IsHandled(t, n) \/ Looking(t) THEN "done" ELSE "asking")
  /\ UNCHANGED <<focus, settings, lock, marks, taken, acted>>

(* The browser answers locks.request(name, {ifAvailable}).                 *)
Answer(t, n) ==
  /\ phase[t][n] \in {"claiming", "asking"}
  /\ IF lock[n] = {}
     THEN /\ lock' = [lock EXCEPT ![n] = {t}]
          /\ Goes(t, n, IF phase[t][n] = "claiming" THEN "claimed" ELSE "granted")
     ELSE /\ Goes(t, n, IF phase[t][n] = "claiming" THEN "passed" ELSE "done")
          /\ UNCHANGED lock
  /\ UNCHANGED <<focus, settings, marks, taken, acted>>

(* The callback of a tab that was in focus when the notice arrived.        *)
TakeSilently(t, n) ==
  /\ phase[t][n] \in {"claimed", "passed"}
  /\ MarkHandled(t, n)
  /\ IF phase[t][n] = "claimed"
     THEN Goes(t, n, "holding") /\ taken' = taken \cup {n}
     ELSE Goes(t, n, "done") /\ UNCHANGED taken
  /\ UNCHANGED <<focus, settings, lock, acted>>

(* Mutant: whoever gets the lock acts, the mark is looked at before only.  *)
ActUnlooked(t, n) ==
  /\ phase[t][n] = "granted"
  /\ MarkHandled(t, n)
  /\ acted' = [acted EXCEPT ![n] = @ \cup Signals(t)]
  /\ Goes(t, n, "holding")
  /\ UNCHANGED <<focus, settings, lock, taken>>

(* The callback in the background: act, unless another tab already did.    *)
ActBehind(t, n) ==
  /\ phase[t][n] = "granted"
  /\ IF IsHandled(t, n)
     THEN /\ Goes(t, n, "done") /\ lock' = [lock EXCEPT ![n] = {}]
          /\ UNCHANGED <<marks, acted>>
     ELSE /\ MarkHandled(t, n)
          /\ acted' = [acted EXCEPT ![n] = @ \cup Signals(t)]
          /\ Goes(t, n, "holding") /\ UNCHANGED lock
  /\ UNCHANGED <<focus, settings, taken>>

(* HOLD_MS have passed: by then every copy has caught up with the mark.    *)
Release(t, n) ==
  /\ phase[t][n] = "holding"
  /\ n \in lost \/ \A u \in Tab : IsHandled(u, n)
  /\ Goes(t, n, "done") /\ lock' = [lock EXCEPT ![n] = {}]
  /\ UNCHANGED <<focus, settings, marks, taken, acted>>

AttentionNext ==
  \/ TurnTo
  \/ \E t \in Tab : CatchUp(t) \/ MarkAnother(t) \/ WakeAudio(t) \/ SetSound(t) \/ SetDesktop(t)
  \/ \E t \in Tab, n \in Notice :
       SeenHere(t, n) \/ Notify(t, n) \/ WaitOver(t, n) \/ Answer(t, n)
       \/ TakeSilently(t, n) \/ ActBehind(t, n) \/ Release(t, n)

-----------------------------------------------------------------------------
(* One tab per notice: two tabs never act on the same notice, however late *)
(* their timers are and whatever the person turns to meanwhile, and nobody *)
(* acts on one that a tab in focus was the first to take.  It is not so    *)
(* when two notices are marked at the same moment and one of the marks is  *)
(* overwritten: then only the hold keeps the tabs apart.                   *)
OneTabActs ==
  [][\A n \in Notice : n \notin lost' =>
       /\ Cardinality(acted'[n]) <= 1
       /\ n \in taken => acted'[n] = acted[n]]_attentionVars
=============================================================================
