------------------------ MODULE WriterTracker_proofs ------------------------
(***************************************************************************)
(* Proofs about tracker/writer.go for any number of logs, writers and      *)
(* flushers: the log a call has captured stays usable until the call ends, *)
(* although the compaction goroutine swaps, drops and closes logs.         *)
(*                                                                         *)
(* The four properties are not inductive by themselves.  WInv adds who     *)
(* keeps each log alive: a log that a write, a flush or a closer goroutine *)
(* uses is still in a list of the tracker, or somebody waits for its user. *)
(* The last part adds the mutexes: LInv says who holds pendingWritersLock,  *)
(* and what cannot change meanwhile.                                       *)
(***************************************************************************)
EXTENDS WriterLocks, TLAPS

\* The phases of the three calls that change the lists exclude each other:
\* one goroutine makes them all, and it makes none once Close has begun.
Phases ==
    /\ push.pc = "wait" => /\ rem.pc = "idle"
                           /\ activeWriter # NoLog
                           /\ push.old \in Pending
                           /\ wstate[push.old] = "open"
    /\ rem.pc = "idle" => rem.logs = {}
    /\ cl.pc # "open" => push.pc = "idle" /\ rem.pc = "idle" /\ activeWriter = NoLog

PendingDistinct ==
    \A i, j \in DOMAIN pendingWriters : pendingWriters[i] = pendingWriters[j] => i = j

\* A log is in one place only, and logs the tracker knows are open.
LogsHeld ==
    /\ PendingDistinct
    /\ Pending \cap rem.logs = {}
    /\ activeWriter # NoLog => /\ activeWriter \notin Pending \cup rem.logs
                               /\ wstate[activeWriter] = "open"
                               /\ closer[activeWriter] = "none"
    /\ cl.pc # "closed" => \A l \in Pending \cup rem.logs :
                              wstate[l] \in {"open", "frozen", "reader"}

\* A closer runs only for a log that is pending, or that a removal waits with;
\* the second barrier of Close waits for every one.
ClosersHeld ==
    \A l \in Logs :
        /\ closer[l] = "held" <=> push.pc = "wait" /\ push.old = l
        /\ closer[l] \in {"start", "sync"} =>
              /\ l \in Pending \/ (rem.pc = "wait" /\ l \in rem.logs /\ l \in rem.waitC)
              /\ cl.pc = "wait2" => l \in cl.waitC
              /\ cl.pc # "closed"

\* A write under way has captured the active log, or the one being swapped or
\* closed, and then PushNewLog or Close waits for it.  (A write that has not
\* appended its record yet is within the bound on versions.)
WritesHeld ==
    \A b \in Blocks :
        /\ (b \in ActiveWrites /\ wr[b].log # NoLog) =>
              \/ wr[b].log = activeWriter
              \/ push.pc = "wait" /\ wr[b].log = push.old /\ b \in push.waitW
              \/ /\ cl.pc = "wait1"
                 /\ b \in cl.waitW
                 /\ wr[b].log \in Pending
                 /\ wstate[wr[b].log] = "open"
                 /\ closer[wr[b].log] = "none"
        /\ wr[b].pc = "write" => ver[b] < MaxVersion

\* A log that a flush has still to sync is in the lists, or RemovePending waits
\* for the flush; so does the second barrier of Close.
FlushesHeld ==
    \A f \in Flushers :
        /\ fl[f].pc = "idle" => fl[f].todo = {}
        /\ \A l \in fl[f].todo :
              l \in Pending \/ l = activeWriter
                \/ (rem.pc = "wait" /\ l \in rem.logs /\ f \in rem.waitF)
        /\ cl.pc = "wait2" => (fl[f].pc = "flush" => f \in cl.waitF)
        /\ cl.pc = "closed" => fl[f].pc = "idle"

WInv ==
    /\ WTypeOK
    /\ Phases
    /\ LogsHeld
    /\ ClosersHeld
    /\ WritesHeld
    /\ FlushesHeld
    /\ WaitsForRunning

\* The abbreviations of the frame conditions.
USE DEF logvars, callvars, waitvars

-----------------------------------------------------------------------------
(* The list of pending logs as a set *)

\* A log that is appended to the list joins the pending ones and is not in the
\* list twice if it was not pending before.
LEMMA PendingAppend ==
    ASSUME pendingWriters \in Seq(Logs), NEW l \in Logs,
           pendingWriters' = Append(pendingWriters, l)
    PROVE  /\ Pending' = Pending \cup {l}
           /\ PendingDistinct /\ l \notin Pending => PendingDistinct'
<1>1. /\ DOMAIN pendingWriters = 1..Len(pendingWriters)
      /\ DOMAIN pendingWriters' = 1..(Len(pendingWriters) + 1)
      /\ Len(pendingWriters) \in Nat
      /\ \A i \in 1..Len(pendingWriters) : pendingWriters'[i] = pendingWriters[i]
      /\ pendingWriters'[Len(pendingWriters) + 1] = l
  OBVIOUS
<1> QED
  BY <1>1 DEF Pending, PendingDistinct

\* RemovePending takes a prefix of the list: the pending logs are split.
LEMMA PendingSplit ==
    ASSUME pendingWriters \in Seq(Logs), NEW n \in 1..Len(pendingWriters),
           pendingWriters' = SubSeq(pendingWriters, n + 1, Len(pendingWriters)),
           PendingDistinct
    PROVE  /\ pendingWriters' \in Seq(Logs)
           /\ Pending = Pending' \cup {pendingWriters[i] : i \in 1..n}
           /\ Pending' \cap {pendingWriters[i] : i \in 1..n} = {}
           /\ PendingDistinct'
<1> DEFINE len == Len(pendingWriters)
<1>1. len \in Nat /\ DOMAIN pendingWriters = 1..len
  OBVIOUS
<1>2. /\ pendingWriters' \in Seq(Logs)
      /\ DOMAIN pendingWriters' = 1..(len - n)
      /\ \A i \in 1..(len - n) : pendingWriters'[i] = pendingWriters[n + i]
  OBVIOUS
<1>3. \A k \in 1..len : k \in 1..n \/ (k - n \in 1..(len - n) /\ n + (k - n) = k)
  BY <1>1
<1> HIDE DEF len
<1>4. Pending = Pending' \cup {pendingWriters[i] : i \in 1..n}
  <2>1. ASSUME NEW l \in Pending PROVE l \in Pending' \cup {pendingWriters[i] : i \in 1..n}
    <3>1. PICK k \in 1..len : l = pendingWriters[k]
      BY <1>1 DEF Pending
    <3>2. CASE k \in 1..n
      BY <3>1, <3>2
    <3>3. CASE k - n \in 1..(len - n) /\ n + (k - n) = k
      <4>1. l = pendingWriters'[k - n]
        BY <1>2, <3>1, <3>3
      <4> QED
        BY <1>2, <3>3, <4>1 DEF Pending
    <3> QED
      BY <1>3, <3>2, <3>3
  <2>2. Pending' \cup {pendingWriters[i] : i \in 1..n} \subseteq Pending
    BY <1>1, <1>2 DEF Pending, len
  <2> QED
    BY <2>1, <2>2
<1>5. Pending' \cap {pendingWriters[i] : i \in 1..n} = {}
  BY <1>1, <1>2 DEF Pending, PendingDistinct, len
<1>6. ASSUME NEW i \in DOMAIN pendingWriters', NEW j \in DOMAIN pendingWriters',
             pendingWriters'[i] = pendingWriters'[j]
      PROVE  i = j
  BY <1>1, <1>2, <1>6 DEF PendingDistinct, len
<1> QED
  BY <1>2, <1>4, <1>5, <1>6 DEF PendingDistinct


\* Most steps leave the list alone.
LEMMA PendingSame ==
    UNCHANGED pendingWriters =>
        Pending' = Pending /\ (PendingDistinct => PendingDistinct')
  BY DEF Pending, PendingDistinct

\* What the four steps that change the list of pending logs do to it.
LEMMA PendingMoves ==
    ASSUME WInv
    PROVE  /\ \A l \in Logs : PushPending(l) =>
                 Pending' = Pending \cup {l} /\ PendingDistinct'
           /\ \A l \in Logs : PushSwap(l) =>
                 Pending' = Pending \cup {activeWriter} /\ PendingDistinct'
           /\ CloseStart =>
                 Pending' = Pending \cup ({activeWriter} \ {NoLog}) /\ PendingDistinct'
           /\ \A n \in 1..Len(pendingWriters) : RemoveStart(n) =>
                 /\ Pending = Pending' \cup rem'.logs
                 /\ Pending' \cap rem'.logs = {}
                 /\ PendingDistinct'
                 /\ pendingWriters' \in Seq(Logs)
<1> USE NoLogAssumption DEF WInv, WTypeOK, Phases, LogsHeld
<1>1. ASSUME NEW l \in Logs, PushPending(l)
      PROVE  Pending' = Pending \cup {l} /\ PendingDistinct'
  BY <1>1, PendingAppend DEF PushPending, PendingDistinct
<1>2. ASSUME NEW l \in Logs, PushSwap(l)
      PROVE  Pending' = Pending \cup {activeWriter} /\ PendingDistinct'
  BY <1>2, PendingAppend DEF PushSwap, PendingDistinct
<1>3. ASSUME CloseStart
      PROVE  Pending' = Pending \cup ({activeWriter} \ {NoLog}) /\ PendingDistinct'
  <2>1. CASE activeWriter = NoLog
    BY <1>3, <2>1, PendingSame DEF CloseStart, PendingDistinct
  <2>2. CASE activeWriter # NoLog
    BY <1>3, <2>2, PendingAppend DEF CloseStart, PendingDistinct
  <2> QED
    BY <2>1, <2>2
<1>4. ASSUME NEW n \in 1..Len(pendingWriters), RemoveStart(n)
      PROVE  /\ Pending = Pending' \cup rem'.logs
             /\ Pending' \cap rem'.logs = {}
             /\ PendingDistinct'
             /\ pendingWriters' \in Seq(Logs)
  BY <1>4, PendingSplit DEF RemoveStart, PendingDistinct
<1> HIDE DEF WInv
<1> QED
  BY <1>1, <1>2, <1>3, <1>4

-----------------------------------------------------------------------------
(* Every step preserves each part of the invariant *)

\* Types; a write that appends has room for one more version.
LEMMA WTypeOKStep ==
    ASSUME WInv, [WNext]_wvars
    PROVE  WTypeOK'
<1> USE NoLogAssumption, MaxVersionAssumption
    DEF WInv, WTypeOK, WritesHeld
<1>1. ASSUME NEW b \in Blocks, WriteStart(b) PROVE WTypeOK'
  BY <1>1 DEF WriteStart
<1>2. ASSUME NEW b \in Blocks, WriteAppend(b) PROVE WTypeOK'
  <2> DEFINE l == wr[b].log
  <2>1. l \in Logs /\ ver[b] + 1 \in 0..MaxVersion
    BY <1>2 DEF WriteAppend
  <2>2. /\ Append(entries[l], <<b, ver[b] + 1>>) \in Seq(Blocks \X Nat)
        /\ Len(Append(entries[l], <<b, ver[b] + 1>>)) = Len(entries[l]) + 1
    BY <2>1
  <2>3. entries' \in [Logs -> Seq(Blocks \X Nat)]
    BY <1>2, <2>1, <2>2 DEF WriteAppend
  <2>4. ver' \in [Blocks -> 0..MaxVersion]
    BY <1>2, <2>1 DEF WriteAppend
  <2>5. wr' \in [Blocks -> [pc : {"idle", "write", "count", "check"},
                            log : Logs \cup {NoLog}]]
    <3>1. [wr[b] EXCEPT !.pc = "count"]
             \in [pc : {"idle", "write", "count", "check"}, log : Logs \cup {NoLog}]
      <4>1. wr[b] \in [pc : {"idle", "write", "count", "check"}, log : Logs \cup {NoLog}]
        OBVIOUS
      <4> QED
        BY <4>1, Zenon
    <3> QED
      BY <1>2, <3>1, Zenon DEF WriteAppend
  <2>6. \A k \in Logs : synced[k] <= Len(entries'[k])
    <3> SUFFICES ASSUME NEW k \in Logs PROVE synced[k] <= Len(entries'[k])
      OBVIOUS
    <3>1. CASE k = l
      <4>1. entries'[k] = Append(entries[l], <<b, ver[b] + 1>>)
        BY <1>2, <2>1, <3>1 DEF WriteAppend
      <4>2. synced[k] <= Len(entries[l]) /\ Len(entries[l]) \in Nat /\ synced[k] \in Nat
        BY <3>1, <2>1
      <4> QED
        BY <4>1, <4>2, <2>2
    <3>2. CASE k # l
      BY <1>2, <2>1, <3>2 DEF WriteAppend
    <3> QED
      BY <3>1, <3>2
  <2> QED
    BY <1>2, <2>3, <2>4, <2>5, <2>6 DEF WriteAppend
<1>3. ASSUME NEW b \in Blocks, WriteRefused(b) PROVE WTypeOK'
  BY <1>3 DEF WriteRefused, WriteLeaves
<1>4. ASSUME NEW b \in Blocks, WriteCount(b) PROVE WTypeOK'
  <2>1. writeCount' \in Nat
    BY <1>4 DEF WriteCount
  <2> QED
    BY <1>4, <2>1 DEF WriteCount, WriteLeaves
<1>5. ASSUME NEW b \in Blocks, WriteReturn(b) PROVE WTypeOK'
  BY <1>5 DEF WriteReturn, IdleWrite
<1>6. ASSUME NEW f \in Flushers, FlushStart(f) PROVE WTypeOK'
  <2>1. Pending \cup ({activeWriter} \ {NoLog}) \subseteq Logs
    BY DEF Pending
  <2>2. (activeWriter # NoLog) \in BOOLEAN
    OBVIOUS
  <2>3. fl' \in [Flushers -> [pc : {"idle", "flush"}, active : BOOLEAN, todo : SUBSET Logs]]
    BY <1>6, <2>1, <2>2, Zenon DEF FlushStart
  <2> QED
    BY <1>6, <2>3 DEF FlushStart
<1>7. ASSUME NEW f \in Flushers, NEW l \in Logs, FlushLog(f, l) PROVE WTypeOK'
  <2>1. fl' \in [Flushers -> [pc : {"idle", "flush"}, active : BOOLEAN, todo : SUBSET Logs]]
    <3>1. [fl[f] EXCEPT !.todo = @ \ {l}]
             \in [pc : {"idle", "flush"}, active : BOOLEAN, todo : SUBSET Logs]
      <4>1. /\ fl[f] \in [pc : {"idle", "flush"}, active : BOOLEAN, todo : SUBSET Logs]
            /\ fl[f].todo \ {l} \in SUBSET Logs
        OBVIOUS
      <4> QED
        BY <4>1, Zenon
    <3> QED
      BY <1>7, <3>1, Zenon DEF FlushLog
  <2>2. synced' \in [Logs -> Nat] /\ \A k \in Logs : synced'[k] <= Len(entries[k])
    BY <1>7 DEF FlushLog, Fsync
  <2> QED
    BY <1>7, <2>1, <2>2 DEF FlushLog
<1>8. ASSUME NEW f \in Flushers, FlushReturn(f) PROVE WTypeOK'
  BY <1>8 DEF FlushReturn, FlushLeaves, IdleFlush
<1>9. ASSUME NEW l \in Logs, PushPending(l) PROVE WTypeOK'
  BY <1>9 DEF PushPending
<1>10. ASSUME NEW l \in Logs, MakeLogWriter(l) PROVE WTypeOK'
  BY <1>10 DEF MakeLogWriter, RunnerIdle
<1>11. ASSUME NEW l \in Logs, PushFirstLog(l) PROVE WTypeOK'
  BY <1>11 DEF PushFirstLog, RunnerIdle, NewWriter
<1>12. ASSUME NEW l \in Logs, PushSwap(l) PROVE WTypeOK'
  <2>1. ActiveWrites \subseteq Blocks /\ ActiveFlushes \subseteq Flushers
    BY DEF ActiveWrites, ActiveFlushes
  <2> QED
    BY <1>12, <2>1 DEF PushSwap, NewWriter
<1>13. ASSUME NEW l \in Logs, CloserFreeze(l) PROVE WTypeOK'
  BY <1>13 DEF CloserFreeze
<1>14. ASSUME NEW l \in Logs, CloserSync(l) PROVE WTypeOK'
  <2>1. synced' \in [Logs -> Nat] /\ \A k \in Logs : synced'[k] <= Len(entries[k])
    BY <1>14 DEF CloserSync, Fsync
  <2> QED
    BY <1>14, <2>1 DEF CloserSync, CloserLeaves
<1>15. ASSUME NEW n \in 1..Len(pendingWriters), RemoveStart(n) PROVE WTypeOK'
  <2>1. Flushes \subseteq Flushers /\ Closers \subseteq Logs
    BY DEF Flushes, Closers
  <2>2. pendingWriters' \in Seq(Logs)
    BY <1>15, PendingMoves
  <2>3. {pendingWriters[i] : i \in 1..n} \subseteq Logs
    BY <1>15 DEF RemoveStart
  <2> QED
    BY <1>15, <2>1, <2>2, <2>3 DEF RemoveStart
<1>16. ASSUME PushReturn PROVE WTypeOK'
  BY <1>16 DEF PushReturn, IdlePush
<1>17. ASSUME RemoveReturn PROVE WTypeOK'
  BY <1>17 DEF RemoveReturn
<1>18. ASSUME NEW l \in Logs, CloseRemoved(l) PROVE WTypeOK'
  <2>1. rem' \in [pc : {"idle", "wait", "done"}, logs : SUBSET Logs,
                  waitF : SUBSET Flushers, waitC : SUBSET Logs]
    BY <1>18 DEF CloseRemoved, IdleRem
  <2>2. /\ entries' \in [Logs -> Seq(Blocks \X Nat)]
        /\ synced' \in [Logs -> Nat]
        /\ wstate' \in [Logs -> {"none", "created", "open", "frozen", "reader", "closed"}]
    BY <1>18 DEF CloseRemoved
  <2>3. \A k \in Logs : synced'[k] <= Len(entries'[k])
    BY <1>18 DEF CloseRemoved
  <2> QED
    BY <1>18, <2>1, <2>2, <2>3 DEF CloseRemoved
<1>19. ASSUME CloseStart PROVE WTypeOK'
  <2>1. ActiveWrites \subseteq Blocks /\ ActiveFlushes \subseteq Flushers
    BY DEF ActiveWrites, ActiveFlushes
  <2>2. pendingWriters' \in Seq(Logs) /\ writeCount' \in Nat
    <3>1. CASE activeWriter = NoLog
      BY <1>19, <3>1 DEF CloseStart
    <3>2. CASE activeWriter # NoLog
      <4>1. Append(pendingWriters, activeWriter) \in Seq(Logs)
        BY <3>2
      <4>2. pendingWriters' = Append(pendingWriters, activeWriter) /\ writeCount' = 0
        BY <1>19, <3>2, Zenon DEF CloseStart
      <4> QED
        BY <4>1, <4>2
    <3> QED
      BY <3>1, <3>2
  <2>3. cl' \in [pc : {"open", "wait1", "wait2", "closed"}, waitW : SUBSET Blocks,
                 waitF : SUBSET Flushers, waitC : SUBSET Logs]
    BY <1>19, <2>1 DEF CloseStart
  <2> QED
    BY <1>19, <2>2, <2>3 DEF CloseStart
<1>20. ASSUME CloseBarrier PROVE WTypeOK'
  <2>1. Flushes \subseteq Flushers /\ Closers \subseteq Logs
    BY DEF Flushes, Closers
  <2> QED
    BY <1>20, <2>1 DEF CloseBarrier
<1>21. ASSUME CloseReturn PROVE WTypeOK'
  BY <1>21 DEF CloseReturn
<1>22. ASSUME UNCHANGED wvars PROVE WTypeOK'
  BY <1>22 DEF wvars
<1> HIDE DEF WInv, WTypeOK, WritesHeld
<1> QED
  BY <1>1, <1>2, <1>3, <1>4, <1>5, <1>6, <1>7, <1>8, <1>9, <1>10, <1>11, <1>12, <1>13, <1>14,
     <1>15, <1>16, <1>17, <1>18, <1>19, <1>20, <1>21, <1>22
  DEF WNext, WriteStep, FlushStep, CloserStep, RunnerStep, CloseStep, Closed

\* One goroutine pushes, removes and closes: a call of it ends before the next.
LEMMA PhasesStep ==
    ASSUME WInv, [WNext]_wvars
    PROVE  Phases'
<1> USE NoLogAssumption, PendingSame
    DEF WInv, WTypeOK, Phases, LogsHeld, ClosersHeld
<1>1. ASSUME NEW b \in Blocks, WriteStart(b) PROVE Phases'
  BY <1>1 DEF WriteStart
<1>2. ASSUME NEW b \in Blocks, WriteAppend(b) PROVE Phases'
  BY <1>2 DEF WriteAppend
<1>3. ASSUME NEW b \in Blocks, WriteRefused(b) PROVE Phases'
  BY <1>3 DEF WriteRefused, WriteLeaves
<1>4. ASSUME NEW b \in Blocks, WriteCount(b) PROVE Phases'
  BY <1>4 DEF WriteCount, WriteLeaves
<1>5. ASSUME NEW b \in Blocks, WriteReturn(b) PROVE Phases'
  BY <1>5 DEF WriteReturn, IdleWrite
<1>6. ASSUME NEW f \in Flushers, FlushStart(f) PROVE Phases'
  BY <1>6 DEF FlushStart
<1>7. ASSUME NEW f \in Flushers, NEW l \in Logs, FlushLog(f, l) PROVE Phases'
  BY <1>7 DEF FlushLog, Fsync
<1>8. ASSUME NEW f \in Flushers, FlushReturn(f) PROVE Phases'
  BY <1>8 DEF FlushReturn, FlushLeaves, IdleFlush
<1>9. ASSUME NEW l \in Logs, PushPending(l) PROVE Phases'
  BY <1>9, PendingMoves DEF PushPending
<1>10. ASSUME NEW l \in Logs, MakeLogWriter(l) PROVE Phases'
  BY <1>10 DEF MakeLogWriter, RunnerIdle
<1>11. ASSUME NEW l \in Logs, PushFirstLog(l) PROVE Phases'
  BY <1>11 DEF PushFirstLog, RunnerIdle, NewWriter
<1>12. ASSUME NEW l \in Logs, PushSwap(l) PROVE Phases'
  BY <1>12, PendingMoves DEF PushSwap, RunnerIdle, NewWriter
<1>13. ASSUME NEW l \in Logs, CloserFreeze(l) PROVE Phases'
  BY <1>13 DEF CloserFreeze
<1>14. ASSUME NEW l \in Logs, CloserSync(l) PROVE Phases'
  BY <1>14 DEF CloserSync, CloserLeaves, Fsync
<1>15. ASSUME NEW n \in 1..Len(pendingWriters), RemoveStart(n) PROVE Phases'
  BY <1>15, PendingMoves DEF RemoveStart, RunnerIdle
<1>16. ASSUME PushReturn PROVE Phases'
  BY <1>16 DEF PushReturn, IdlePush
<1>17. ASSUME RemoveReturn PROVE Phases'
  BY <1>17 DEF RemoveReturn
<1>18. ASSUME NEW l \in Logs, CloseRemoved(l) PROVE Phases'
  BY <1>18 DEF CloseRemoved, IdleRem
<1>19. ASSUME CloseStart PROVE Phases'
  BY <1>19, PendingMoves DEF CloseStart, RunnerIdle
<1>20. ASSUME CloseBarrier PROVE Phases'
  BY <1>20 DEF CloseBarrier
<1>21. ASSUME CloseReturn PROVE Phases'
  BY <1>21 DEF CloseReturn
<1>22. ASSUME UNCHANGED wvars PROVE Phases'
  BY <1>22 DEF wvars
<1> HIDE DEF WInv, WTypeOK, Phases, LogsHeld, ClosersHeld
<1> QED
  BY <1>1, <1>2, <1>3, <1>4, <1>5, <1>6, <1>7, <1>8, <1>9, <1>10, <1>11, <1>12, <1>13, <1>14,
     <1>15, <1>16, <1>17, <1>18, <1>19, <1>20, <1>21, <1>22
  DEF WNext, WriteStep, FlushStep, CloserStep, RunnerStep, CloseStep, Closed

\* A new log comes from outside the lists, a swapped one moves from active to
\* pending, a removed one from pending to the removal.
LEMMA LogsHeldStep ==
    ASSUME WInv, [WNext]_wvars
    PROVE  LogsHeld'
<1> USE NoLogAssumption, PendingSame
    DEF WInv, WTypeOK, Phases, LogsHeld, ClosersHeld, WritesHeld
<1>1. ASSUME NEW b \in Blocks, WriteStart(b) PROVE LogsHeld'
  BY <1>1 DEF WriteStart
<1>2. ASSUME NEW b \in Blocks, WriteAppend(b) PROVE LogsHeld'
  BY <1>2 DEF WriteAppend
<1>3. ASSUME NEW b \in Blocks, WriteRefused(b) PROVE LogsHeld'
  BY <1>3 DEF WriteRefused, WriteLeaves
<1>4. ASSUME NEW b \in Blocks, WriteCount(b) PROVE LogsHeld'
  BY <1>4 DEF WriteCount, WriteLeaves
<1>5. ASSUME NEW b \in Blocks, WriteReturn(b) PROVE LogsHeld'
  BY <1>5 DEF WriteReturn, IdleWrite
<1>6. ASSUME NEW f \in Flushers, FlushStart(f) PROVE LogsHeld'
  BY <1>6 DEF FlushStart
<1>7. ASSUME NEW f \in Flushers, NEW l \in Logs, FlushLog(f, l) PROVE LogsHeld'
  BY <1>7 DEF FlushLog, Fsync
<1>8. ASSUME NEW f \in Flushers, FlushReturn(f) PROVE LogsHeld'
  BY <1>8 DEF FlushReturn, FlushLeaves, IdleFlush
<1>9. ASSUME NEW l \in Logs, PushPending(l) PROVE LogsHeld'
  <2>1. Pending' = Pending \cup {l} /\ PendingDistinct'
    BY <1>9, PendingMoves
  <2>2. l \notin rem.logs /\ cl.pc = "open"
    BY <1>9 DEF PushPending
  <2>3. Pending' \cap rem'.logs = {}
    BY <1>9, <2>1, <2>2 DEF PushPending
  <2>4. \A k \in Pending' \cup rem'.logs : wstate'[k] \in {"open", "frozen", "reader"}
    BY <1>9, <2>1, <2>2 DEF PushPending
  <2> QED
    BY <1>9, <2>1, <2>3, <2>4 DEF PushPending
<1>10. ASSUME NEW l \in Logs, MakeLogWriter(l) PROVE LogsHeld'
  BY <1>10 DEF MakeLogWriter, RunnerIdle
<1>11. ASSUME NEW l \in Logs, PushFirstLog(l) PROVE LogsHeld'
  <2>1. l \notin Pending \cup rem.logs /\ closer[l] = "none"
    BY <1>11 DEF PushFirstLog, RunnerIdle, NewWriter
  <2> QED
    BY <1>11, <2>1 DEF PushFirstLog, NewWriter
<1>12. ASSUME NEW l \in Logs, PushSwap(l) PROVE LogsHeld'
  <2>1. Pending' = Pending \cup {activeWriter} /\ PendingDistinct'
    BY <1>12, PendingMoves
  <2>2. l \notin Pending \cup rem.logs /\ l # activeWriter /\ closer[l] = "none"
    BY <1>12 DEF PushSwap, RunnerIdle, NewWriter
  <2> QED
    BY <1>12, <2>1, <2>2 DEF PushSwap, RunnerIdle, NewWriter
<1>13. ASSUME NEW l \in Logs, CloserFreeze(l) PROVE LogsHeld'
  BY <1>13 DEF CloserFreeze
<1>14. ASSUME NEW l \in Logs, CloserSync(l) PROVE LogsHeld'
  BY <1>14 DEF CloserSync, CloserLeaves, Fsync
<1>15. ASSUME NEW n \in 1..Len(pendingWriters), RemoveStart(n) PROVE LogsHeld'
  BY <1>15, PendingMoves DEF RemoveStart, RunnerIdle
<1>16. ASSUME PushReturn PROVE LogsHeld'
  BY <1>16 DEF PushReturn, IdlePush
<1>17. ASSUME RemoveReturn PROVE LogsHeld'
  BY <1>17 DEF RemoveReturn
<1>18. ASSUME NEW l \in Logs, CloseRemoved(l) PROVE LogsHeld'
  BY <1>18 DEF CloseRemoved, IdleRem
<1>19. ASSUME CloseStart PROVE LogsHeld'
  BY <1>19, PendingMoves DEF CloseStart, RunnerIdle
<1>20. ASSUME CloseBarrier PROVE LogsHeld'
  BY <1>20 DEF CloseBarrier
<1>21. ASSUME CloseReturn PROVE LogsHeld'
  BY <1>21 DEF CloseReturn
<1>22. ASSUME UNCHANGED wvars PROVE LogsHeld'
  BY <1>22 DEF wvars
<1> HIDE DEF WInv, WTypeOK, Phases, LogsHeld, ClosersHeld, WritesHeld
<1> QED
  BY <1>1, <1>2, <1>3, <1>4, <1>5, <1>6, <1>7, <1>8, <1>9, <1>10, <1>11, <1>12, <1>13, <1>14,
     <1>15, <1>16, <1>17, <1>18, <1>19, <1>20, <1>21, <1>22
  DEF WNext, WriteStep, FlushStep, CloserStep, RunnerStep, CloseStep, Closed

\* RemovePending and Close take every closer there is into their barrier.
LEMMA ClosersHeldStep ==
    ASSUME WInv, [WNext]_wvars
    PROVE  ClosersHeld'
<1> USE NoLogAssumption, PendingSame
    DEF WInv, WTypeOK, Phases, LogsHeld, ClosersHeld, Closers
<1>1. ASSUME NEW b \in Blocks, WriteStart(b) PROVE ClosersHeld'
  BY <1>1 DEF WriteStart
<1>2. ASSUME NEW b \in Blocks, WriteAppend(b) PROVE ClosersHeld'
  BY <1>2 DEF WriteAppend
<1>3. ASSUME NEW b \in Blocks, WriteRefused(b) PROVE ClosersHeld'
  BY <1>3 DEF WriteRefused, WriteLeaves
<1>4. ASSUME NEW b \in Blocks, WriteCount(b) PROVE ClosersHeld'
  BY <1>4 DEF WriteCount, WriteLeaves
<1>5. ASSUME NEW b \in Blocks, WriteReturn(b) PROVE ClosersHeld'
  BY <1>5 DEF WriteReturn, IdleWrite
<1>6. ASSUME NEW f \in Flushers, FlushStart(f) PROVE ClosersHeld'
  BY <1>6 DEF FlushStart
<1>7. ASSUME NEW f \in Flushers, NEW l \in Logs, FlushLog(f, l) PROVE ClosersHeld'
  BY <1>7 DEF FlushLog, Fsync
<1>8. ASSUME NEW f \in Flushers, FlushReturn(f) PROVE ClosersHeld'
  BY <1>8 DEF FlushReturn, FlushLeaves, IdleFlush
<1>9. ASSUME NEW l \in Logs, PushPending(l) PROVE ClosersHeld'
  BY <1>9, PendingMoves DEF PushPending
<1>10. ASSUME NEW l \in Logs, MakeLogWriter(l) PROVE ClosersHeld'
  BY <1>10 DEF MakeLogWriter, RunnerIdle
<1>11. ASSUME NEW l \in Logs, PushFirstLog(l) PROVE ClosersHeld'
  BY <1>11 DEF PushFirstLog, RunnerIdle, NewWriter
<1>12. ASSUME NEW l \in Logs, PushSwap(l) PROVE ClosersHeld'
  <2>1. Pending' = Pending \cup {activeWriter} /\ PendingDistinct'
    BY <1>12, PendingMoves
  <2> QED
    BY <1>12, <2>1 DEF PushSwap, RunnerIdle
<1>13. ASSUME NEW l \in Logs, CloserFreeze(l) PROVE ClosersHeld'
  BY <1>13 DEF CloserFreeze
<1>14. ASSUME NEW l \in Logs, CloserSync(l) PROVE ClosersHeld'
  BY <1>14 DEF CloserSync, CloserLeaves, Fsync
<1>15. ASSUME NEW n \in 1..Len(pendingWriters), RemoveStart(n) PROVE ClosersHeld'
  BY <1>15, PendingMoves DEF RemoveStart, RunnerIdle
<1>16. ASSUME PushReturn PROVE ClosersHeld'
  BY <1>16 DEF PushReturn, IdlePush
<1>17. ASSUME RemoveReturn PROVE ClosersHeld'
  BY <1>17 DEF RemoveReturn
<1>18. ASSUME NEW l \in Logs, CloseRemoved(l) PROVE ClosersHeld'
  BY <1>18 DEF CloseRemoved, IdleRem
<1>19. ASSUME CloseStart PROVE ClosersHeld'
  BY <1>19, PendingMoves DEF CloseStart, RunnerIdle
<1>20. ASSUME CloseBarrier PROVE ClosersHeld'
  BY <1>20 DEF CloseBarrier
<1>21. ASSUME CloseReturn PROVE ClosersHeld'
  BY <1>21 DEF CloseReturn
<1>22. ASSUME UNCHANGED wvars PROVE ClosersHeld'
  BY <1>22 DEF wvars
<1> HIDE DEF WInv, WTypeOK, Phases, LogsHeld, ClosersHeld, Closers
<1> QED
  BY <1>1, <1>2, <1>3, <1>4, <1>5, <1>6, <1>7, <1>8, <1>9, <1>10, <1>11, <1>12, <1>13, <1>14,
     <1>15, <1>16, <1>17, <1>18, <1>19, <1>20, <1>21, <1>22
  DEF WNext, WriteStep, FlushStep, CloserStep, RunnerStep, CloseStep, Closed

\* PushNewLog and Close take every write there is into their barrier.
LEMMA WritesHeldStep ==
    ASSUME WInv, [WNext]_wvars
    PROVE  WritesHeld'
<1> USE NoLogAssumption, PendingSame
    DEF WInv, WTypeOK, Phases, LogsHeld, ClosersHeld, WritesHeld, WaitsForRunning,
        ActiveWrites
<1>1. ASSUME NEW b \in Blocks, WriteStart(b) PROVE WritesHeld'
  BY <1>1 DEF WriteStart
<1>2. ASSUME NEW b \in Blocks, WriteAppend(b) PROVE WritesHeld'
  BY <1>2 DEF WriteAppend
<1>3. ASSUME NEW b \in Blocks, WriteRefused(b) PROVE WritesHeld'
  BY <1>3 DEF WriteRefused, WriteLeaves
<1>4. ASSUME NEW b \in Blocks, WriteCount(b) PROVE WritesHeld'
  BY <1>4 DEF WriteCount, WriteLeaves
<1>5. ASSUME NEW b \in Blocks, WriteReturn(b) PROVE WritesHeld'
  BY <1>5 DEF WriteReturn, IdleWrite
<1>6. ASSUME NEW f \in Flushers, FlushStart(f) PROVE WritesHeld'
  BY <1>6 DEF FlushStart
<1>7. ASSUME NEW f \in Flushers, NEW l \in Logs, FlushLog(f, l) PROVE WritesHeld'
  BY <1>7 DEF FlushLog, Fsync
<1>8. ASSUME NEW f \in Flushers, FlushReturn(f) PROVE WritesHeld'
  BY <1>8 DEF FlushReturn, FlushLeaves, IdleFlush
<1>9. ASSUME NEW l \in Logs, PushPending(l) PROVE WritesHeld'
  BY <1>9, PendingMoves DEF PushPending
<1>10. ASSUME NEW l \in Logs, MakeLogWriter(l) PROVE WritesHeld'
  BY <1>10 DEF MakeLogWriter, RunnerIdle
<1>11. ASSUME NEW l \in Logs, PushFirstLog(l) PROVE WritesHeld'
  BY <1>11 DEF PushFirstLog, RunnerIdle, NewWriter
<1>12. ASSUME NEW l \in Logs, PushSwap(l) PROVE WritesHeld'
  BY <1>12, PendingMoves DEF PushSwap, RunnerIdle, NewWriter
<1>13. ASSUME NEW l \in Logs, CloserFreeze(l) PROVE WritesHeld'
  BY <1>13 DEF CloserFreeze
<1>14. ASSUME NEW l \in Logs, CloserSync(l) PROVE WritesHeld'
  BY <1>14 DEF CloserSync, CloserLeaves, Fsync
<1>15. ASSUME NEW n \in 1..Len(pendingWriters), RemoveStart(n) PROVE WritesHeld'
  BY <1>15, PendingMoves DEF RemoveStart, RunnerIdle
<1>16. ASSUME PushReturn PROVE WritesHeld'
  BY <1>16 DEF PushReturn, IdlePush
<1>17. ASSUME RemoveReturn PROVE WritesHeld'
  BY <1>17 DEF RemoveReturn
<1>18. ASSUME NEW l \in Logs, CloseRemoved(l) PROVE WritesHeld'
  BY <1>18 DEF CloseRemoved, IdleRem
<1>19. ASSUME CloseStart PROVE WritesHeld'
  BY <1>19, PendingMoves DEF CloseStart, RunnerIdle
<1>20. ASSUME CloseBarrier PROVE WritesHeld'
  BY <1>20 DEF CloseBarrier
<1>21. ASSUME CloseReturn PROVE WritesHeld'
  BY <1>21 DEF CloseReturn
<1>22. ASSUME UNCHANGED wvars PROVE WritesHeld'
  BY <1>22 DEF wvars
<1> HIDE DEF WInv, WTypeOK, Phases, LogsHeld, ClosersHeld, WritesHeld, WaitsForRunning,
             ActiveWrites
<1> QED
  BY <1>1, <1>2, <1>3, <1>4, <1>5, <1>6, <1>7, <1>8, <1>9, <1>10, <1>11, <1>12, <1>13, <1>14,
     <1>15, <1>16, <1>17, <1>18, <1>19, <1>20, <1>21, <1>22
  DEF WNext, WriteStep, FlushStep, CloserStep, RunnerStep, CloseStep, Closed

\* So do RemovePending and Close with every flush.
LEMMA FlushesHeldStep ==
    ASSUME WInv, [WNext]_wvars
    PROVE  FlushesHeld'
<1> USE NoLogAssumption, PendingSame
    DEF WInv, WTypeOK, Phases, LogsHeld, FlushesHeld, WaitsForRunning, Flushes
<1>1. ASSUME NEW b \in Blocks, WriteStart(b) PROVE FlushesHeld'
  BY <1>1 DEF WriteStart
<1>2. ASSUME NEW b \in Blocks, WriteAppend(b) PROVE FlushesHeld'
  BY <1>2 DEF WriteAppend
<1>3. ASSUME NEW b \in Blocks, WriteRefused(b) PROVE FlushesHeld'
  BY <1>3 DEF WriteRefused, WriteLeaves
<1>4. ASSUME NEW b \in Blocks, WriteCount(b) PROVE FlushesHeld'
  BY <1>4 DEF WriteCount, WriteLeaves
<1>5. ASSUME NEW b \in Blocks, WriteReturn(b) PROVE FlushesHeld'
  BY <1>5 DEF WriteReturn, IdleWrite
<1>6. ASSUME NEW f \in Flushers, FlushStart(f) PROVE FlushesHeld'
  BY <1>6 DEF FlushStart
<1>7. ASSUME NEW f \in Flushers, NEW l \in Logs, FlushLog(f, l) PROVE FlushesHeld'
  BY <1>7 DEF FlushLog, Fsync
<1>8. ASSUME NEW f \in Flushers, FlushReturn(f) PROVE FlushesHeld'
  BY <1>8 DEF FlushReturn, FlushLeaves, IdleFlush
<1>9. ASSUME NEW l \in Logs, PushPending(l) PROVE FlushesHeld'
  BY <1>9, PendingMoves DEF PushPending
<1>10. ASSUME NEW l \in Logs, MakeLogWriter(l) PROVE FlushesHeld'
  BY <1>10 DEF MakeLogWriter, RunnerIdle
<1>11. ASSUME NEW l \in Logs, PushFirstLog(l) PROVE FlushesHeld'
  BY <1>11 DEF PushFirstLog, RunnerIdle, NewWriter
<1>12. ASSUME NEW l \in Logs, PushSwap(l) PROVE FlushesHeld'
  BY <1>12, PendingMoves DEF PushSwap, RunnerIdle, NewWriter
<1>13. ASSUME NEW l \in Logs, CloserFreeze(l) PROVE FlushesHeld'
  BY <1>13 DEF CloserFreeze
<1>14. ASSUME NEW l \in Logs, CloserSync(l) PROVE FlushesHeld'
  BY <1>14 DEF CloserSync, CloserLeaves, Fsync
<1>15. ASSUME NEW n \in 1..Len(pendingWriters), RemoveStart(n) PROVE FlushesHeld'
  BY <1>15, PendingMoves DEF RemoveStart, RunnerIdle
<1>16. ASSUME PushReturn PROVE FlushesHeld'
  BY <1>16 DEF PushReturn, IdlePush
<1>17. ASSUME RemoveReturn PROVE FlushesHeld'
  BY <1>17 DEF RemoveReturn
<1>18. ASSUME NEW l \in Logs, CloseRemoved(l) PROVE FlushesHeld'
  BY <1>18 DEF CloseRemoved, IdleRem
<1>19. ASSUME CloseStart PROVE FlushesHeld'
  BY <1>19, PendingMoves DEF CloseStart, RunnerIdle
<1>20. ASSUME CloseBarrier PROVE FlushesHeld'
  BY <1>20 DEF CloseBarrier
<1>21. ASSUME CloseReturn PROVE FlushesHeld'
  BY <1>21 DEF CloseReturn
<1>22. ASSUME UNCHANGED wvars PROVE FlushesHeld'
  BY <1>22 DEF wvars
<1> HIDE DEF WInv, WTypeOK, Phases, LogsHeld, FlushesHeld, WaitsForRunning, Flushes
<1> QED
  BY <1>1, <1>2, <1>3, <1>4, <1>5, <1>6, <1>7, <1>8, <1>9, <1>10, <1>11, <1>12, <1>13, <1>14,
     <1>15, <1>16, <1>17, <1>18, <1>19, <1>20, <1>21, <1>22
  DEF WNext, WriteStep, FlushStep, CloserStep, RunnerStep, CloseStep, Closed

\* An operation leaves the barriers in the step in which it ends.
LEMMA WaitsForRunningStep ==
    ASSUME WInv, [WNext]_wvars
    PROVE  WaitsForRunning'
<1> USE NoLogAssumption, PendingSame
    DEF WInv, WTypeOK, Phases, LogsHeld, ClosersHeld, WaitsForRunning, FlushesHeld,
        ActiveWrites, ActiveFlushes, Flushes, Closers
<1>1. ASSUME NEW b \in Blocks, WriteStart(b) PROVE WaitsForRunning'
  BY <1>1 DEF WriteStart
<1>2. ASSUME NEW b \in Blocks, WriteAppend(b) PROVE WaitsForRunning'
  BY <1>2 DEF WriteAppend
<1>3. ASSUME NEW b \in Blocks, WriteRefused(b) PROVE WaitsForRunning'
  BY <1>3 DEF WriteRefused, WriteLeaves
<1>4. ASSUME NEW b \in Blocks, WriteCount(b) PROVE WaitsForRunning'
  BY <1>4 DEF WriteCount, WriteLeaves
<1>5. ASSUME NEW b \in Blocks, WriteReturn(b) PROVE WaitsForRunning'
  BY <1>5 DEF WriteReturn, IdleWrite
<1>6. ASSUME NEW f \in Flushers, FlushStart(f) PROVE WaitsForRunning'
  BY <1>6 DEF FlushStart
<1>7. ASSUME NEW f \in Flushers, NEW l \in Logs, FlushLog(f, l) PROVE WaitsForRunning'
  BY <1>7 DEF FlushLog, Fsync
<1>8. ASSUME NEW f \in Flushers, FlushReturn(f) PROVE WaitsForRunning'
  BY <1>8 DEF FlushReturn, FlushLeaves, IdleFlush
<1>9. ASSUME NEW l \in Logs, PushPending(l) PROVE WaitsForRunning'
  BY <1>9, PendingMoves DEF PushPending
<1>10. ASSUME NEW l \in Logs, MakeLogWriter(l) PROVE WaitsForRunning'
  BY <1>10 DEF MakeLogWriter, RunnerIdle
<1>11. ASSUME NEW l \in Logs, PushFirstLog(l) PROVE WaitsForRunning'
  BY <1>11 DEF PushFirstLog, RunnerIdle, NewWriter
<1>12. ASSUME NEW l \in Logs, PushSwap(l) PROVE WaitsForRunning'
  BY <1>12, PendingMoves DEF PushSwap, RunnerIdle, NewWriter
<1>13. ASSUME NEW l \in Logs, CloserFreeze(l) PROVE WaitsForRunning'
  BY <1>13 DEF CloserFreeze
<1>14. ASSUME NEW l \in Logs, CloserSync(l) PROVE WaitsForRunning'
  BY <1>14 DEF CloserSync, CloserLeaves, Fsync
<1>15. ASSUME NEW n \in 1..Len(pendingWriters), RemoveStart(n) PROVE WaitsForRunning'
  BY <1>15, PendingMoves DEF RemoveStart, RunnerIdle
<1>16. ASSUME PushReturn PROVE WaitsForRunning'
  BY <1>16 DEF PushReturn, IdlePush
<1>17. ASSUME RemoveReturn PROVE WaitsForRunning'
  BY <1>17 DEF RemoveReturn
<1>18. ASSUME NEW l \in Logs, CloseRemoved(l) PROVE WaitsForRunning'
  BY <1>18 DEF CloseRemoved, IdleRem
<1>19. ASSUME CloseStart PROVE WaitsForRunning'
  BY <1>19, PendingMoves DEF CloseStart, RunnerIdle
<1>20. ASSUME CloseBarrier PROVE WaitsForRunning'
  BY <1>20 DEF CloseBarrier
<1>21. ASSUME CloseReturn PROVE WaitsForRunning'
  BY <1>21 DEF CloseReturn
<1>22. ASSUME UNCHANGED wvars PROVE WaitsForRunning'
  BY <1>22 DEF wvars
<1> HIDE DEF WInv, WTypeOK, Phases, LogsHeld, ClosersHeld, WaitsForRunning, FlushesHeld,
             ActiveWrites, ActiveFlushes, Flushes, Closers
<1> QED
  BY <1>1, <1>2, <1>3, <1>4, <1>5, <1>6, <1>7, <1>8, <1>9, <1>10, <1>11, <1>12, <1>13, <1>14,
     <1>15, <1>16, <1>17, <1>18, <1>19, <1>20, <1>21, <1>22
  DEF WNext, WriteStep, FlushStep, CloserStep, RunnerStep, CloseStep, Closed

-----------------------------------------------------------------------------
(* The results *)

LEMMA WInitInv == WInit => WInv
<1> SUFFICES ASSUME WInit PROVE WInv
  OBVIOUS
<1> USE NoLogAssumption, MaxVersionAssumption
        DEF WInit, IdleWrite, IdleFlush, IdlePush, IdleRem, IdleClose
<1>1. Pending = {}
  BY DEF Pending
<1>2. WTypeOK
  <2>1. fl \in [Flushers -> [pc : {"idle", "flush"}, active : BOOLEAN, todo : SUBSET Logs]]
    BY Zenon
  <2>2. /\ pendingWriters \in Seq(Logs)
        /\ entries \in [Logs -> Seq(Blocks \X Nat)]
        /\ \A l \in Logs : synced[l] <= Len(entries[l])
    OBVIOUS
  <2> QED
    BY <2>1, <2>2 DEF WTypeOK
<1>3. Phases /\ LogsHeld /\ ClosersHeld
  BY <1>1 DEF Phases, LogsHeld, PendingDistinct, ClosersHeld
<1>4. WritesHeld /\ FlushesHeld /\ WaitsForRunning
  BY DEF WritesHeld, FlushesHeld, WaitsForRunning, ActiveWrites, ActiveFlushes, Flushes
<1> QED
  BY <1>2, <1>3, <1>4 DEF WInv

LEMMA WStepInv == WInv /\ [WNext]_wvars => WInv'
  BY WTypeOKStep, PhasesStep, LogsHeldStep, ClosersHeldStep, WritesHeldStep, FlushesHeldStep,
     WaitsForRunningStep
  DEF WInv

\* The invariant holds in every reachable state.
LEMMA WInvariant == WSafeSpec => []WInv
  BY WInitInv, WStepInv, PTL DEF WSafeSpec

\* Every variable of the tracker keeps its type, and no log has more fsynced
\* records than records.
THEOREM WTypeCorrect == WSafeSpec => []WTypeOK
<1>1. WInv => WTypeOK
  BY DEF WInv
<1> QED
  BY <1>1, WInvariant, PTL

\* Whoever PushNewLog, RemovePending or Close waits for is under way and waits
\* at no barrier itself.
THEOREM WaitsCorrect == WSafeSpec => []WaitsForRunning
<1>1. WInv => WaitsForRunning
  BY DEF WInv
<1> QED
  BY <1>1, WInvariant, PTL

\* A write that is under way has a log that is open for writing.
LEMMA AcceptedByInv == WInv => NoWriteRefused
<1> SUFFICES ASSUME WInv, NEW b \in Blocks, wr[b].pc = "write", wr[b].log # NoLog
             PROVE  wstate[wr[b].log] = "open"
  BY DEF NoWriteRefused
<1> QED
  BY DEF WInv, WritesHeld, ActiveWrites, Phases, LogsHeld

\* WriteBlocks never meets a log that has been closed for writing under it.
THEOREM WritesAccepted == WSafeSpec => []NoWriteRefused
  BY AcceptedByInv, WInvariant, PTL

\* Neither a closer nor a flush nor a write has a log that is removed.
LEMMA UnusedByInv == WInv => NoUseAfterRemove
<1> SUFFICES ASSUME WInv, NEW l \in Logs,
                    wstate[l] = "closed" \/ (rem.pc = "done" /\ l \in rem.logs)
             PROVE  /\ closer[l] = "none"
                    /\ \A f \in Flushers : l \notin fl[f].todo
                    /\ \A b \in Blocks : wr[b].pc = "write" => wr[b].log # l
  BY DEF NoUseAfterRemove
<1> USE NoLogAssumption DEF WInv, WTypeOK, Phases, LogsHeld
<1>1. closer[l] = "none"
  BY DEF ClosersHeld
<1>2. ASSUME NEW f \in Flushers PROVE l \notin fl[f].todo
  BY DEF FlushesHeld
<1>3. ASSUME NEW b \in Blocks, wr[b].pc = "write" PROVE wr[b].log # l
  BY <1>3 DEF WritesHeld, ActiveWrites
<1> QED
  BY <1>1, <1>2, <1>3

\* A log that RemovePending has returned for is used by no flush, write or
\* closer; nor is one that has been closed.
THEOREM RemovedUnused == WSafeSpec => []NoUseAfterRemove
  BY UnusedByInv, WInvariant, PTL

\* Once PushNewLog has returned, no step changes the records of the log it has
\* swapped out, until the log is removed.
THEOREM SwappedCorrect == WSafeSpec => SwappedLogsFrozen
<1> DEFINE Frozen == \A l \in Logs : (l \in Pending /\ l # push.old /\ cl.pc = "open")
                                        => entries'[l] = entries[l]
<1>1. WInv /\ [WNext]_wvars => [Frozen]_wvars
  <2> SUFFICES ASSUME WInv, WNext, NEW k \in Logs, k \in Pending, k # push.old, cl.pc = "open"
               PROVE  entries'[k] = entries[k]
    BY DEF wvars
  <2> USE NoLogAssumption DEF WInv, WTypeOK, LogsHeld
  <2>1. ASSUME NEW b \in Blocks, WriteAppend(b) PROVE entries'[k] = entries[k]
    <3>1. wr[b].log # k
      BY <2>1 DEF WriteAppend, WritesHeld, ActiveWrites
    <3> QED
      BY <2>1, <3>1 DEF WriteAppend
  <2>2. ASSUME NEW l \in Logs, MakeLogWriter(l) PROVE entries'[k] = entries[k]
    BY <2>2 DEF MakeLogWriter
  <2>3. ASSUME NEW l \in Logs, CloseRemoved(l) PROVE entries'[k] = entries[k]
    BY <2>3 DEF CloseRemoved
  <2>4. CASE UNCHANGED entries
    BY <2>4
  <2> HIDE DEF WInv, WTypeOK, LogsHeld
  <2> QED
    BY <2>1, <2>2, <2>3, <2>4
    DEF WNext, WriteStep, FlushStep, CloserStep, RunnerStep, CloseStep, Closed, WriteStart,
        WriteRefused, WriteCount, WriteReturn, FlushStart, FlushLog, FlushReturn, PushPending,
        PushFirstLog, PushSwap, NewWriter, CloserFreeze, CloserSync, RemoveStart, PushReturn,
        RemoveReturn, CloseStart, CloseBarrier, CloseReturn, wvars
<1> QED
  BY <1>1, WInvariant, PTL DEF WSafeSpec, SwappedLogsFrozen

-----------------------------------------------------------------------------
(* The mutexes: WriterLocks implements WriterTracker, and no call waits for  *)
(* another that waits for it.                                                *)

\* Who holds pendingWritersLock between steps, and what that freezes: a Flush
\* between the two locks has the list as it still is, and Close has not begun.
LInv ==
    /\ pendingWritersLock \in Flushers \cup {Nobody, CloseCall}
    /\ fcall \in [Flushers -> [past : {"none", "pending", "both"}, logs : SUBSET Logs]]
    /\ pendingWritersLock = CloseCall <=> cl.pc = "wait1"
    /\ \A f \in Flushers :
          /\ fcall[f].past = "pending" <=> pendingWritersLock = f
          /\ fcall[f].past = "pending" => fcall[f].logs = Pending /\ cl.pc = "open"
          /\ fcall[f].past = "both" <=> fl[f].pc = "flush"

\* Flush copies the list under one lock and looks at the active log under the
\* other; together this is the one step that WriterTracker takes.
LEMMA FlushIsAtomic ==
    ASSUME WTypeOK, LInv, NEW f \in Flushers, LFlushActive(f)
    PROVE  FlushStart(f)
<1>1. fcall[f].logs = Pending /\ cl.pc = "open" /\ fl[f].pc = "idle"
  BY DEF LFlushActive, LInv, WTypeOK
<1> QED
  BY <1>1 DEF LFlushActive, FlushStart

\* Every step with the locks is a step without them, or changes only the locks.
LEMMA LocksStep == WTypeOK /\ LInv /\ [LNext]_lvars => [WNext]_wvars
<1> SUFFICES ASSUME WTypeOK, LInv, LNext PROVE [WNext]_wvars
  BY DEF lvars
<1>1. ASSUME NEW f \in Flushers, LFlushPending(f) PROVE UNCHANGED wvars
  BY <1>1 DEF LFlushPending
<1>2. ASSUME NEW f \in Flushers, LFlushActive(f) PROVE WNext
  BY <1>2, FlushIsAtomic DEF WNext
<1>3. ASSUME NEW f \in Flushers, LFlushStep(f) PROVE WNext
  BY <1>3 DEF LFlushStep, WNext, FlushStep
<1>4. ASSUME NEW b \in Blocks, WriteStart(b) \/ WriteStep(b) PROVE WNext
  BY <1>4 DEF WNext
<1>5. ASSUME NEW l \in Logs, PushPending(l) \/ PushFirstLog(l) \/ PushSwap(l)
                             \/ MakeLogWriter(l) \/ CloserStep(l)
      PROVE  WNext
  BY <1>5 DEF WNext
<1>6. ASSUME NEW n \in 1..Len(pendingWriters), RemoveStart(n) PROVE WNext
  BY <1>6 DEF WNext
<1>7. CASE RunnerStep \/ CloseStart \/ CloseBarrier \/ CloseReturn \/ Closed
  BY <1>7 DEF WNext, CloseStep
<1> QED
  BY <1>1, <1>2, <1>3, <1>4, <1>5, <1>6, <1>7
  DEF LNext, LFlush, Section, LCloseStart, LCloseStep, LCloseBarrier

\* A step that leaves the list, the flushes, the phase of Close and the locks
\* alone leaves LInv alone.
LEMMA LInvFrame ==
    ASSUME LInv, cl'.pc = cl.pc, \A f \in Flushers : fl'[f].pc = fl[f].pc,
           UNCHANGED <<pendingWriters, lockvars>>
    PROVE  LInv'
  BY DEF LInv, lockvars, Pending

\* While the lock is free no Flush is between the locks, and the list may change.
LEMMA LInvSection ==
    ASSUME LInv, Free, cl'.pc = "wait1" <=> cl.pc = "wait1",
           UNCHANGED <<fl, lockvars>>
    PROVE  LInv'
<1>1. \A f \in Flushers : fcall[f].past # "pending"
  BY HoldersAssumption DEF LInv, Free
<1> QED
  BY <1>1 DEF LInv, lockvars

LEMMA LInvStep == WTypeOK /\ LInv /\ [LNext]_lvars => LInv'
<1> SUFFICES ASSUME WTypeOK, LInv, [LNext]_lvars PROVE LInv'
  OBVIOUS
<1>1. ASSUME NEW f \in Flushers, LFlushPending(f) PROVE LInv'
  <2>1. fcall'[f] = [past |-> "pending", logs |-> Pending] /\ fcall[f].past = "none"
        /\ \A g \in Flushers \ {f} : fcall'[g] = fcall[g] /\ fcall[g].past # "pending"
    BY <1>1, HoldersAssumption DEF LFlushPending, LInv, Free
  <2>2. Pending \subseteq Logs /\ UNCHANGED <<Pending, fl, cl>> /\ cl.pc = "open"
    BY <1>1 DEF LFlushPending, wvars, Pending, WTypeOK
  <2>3. fcall' \in [Flushers -> [past : {"none", "pending", "both"}, logs : SUBSET Logs]]
    BY <1>1, <2>2 DEF LFlushPending, LInv
  <2> QED
    BY <1>1, <2>1, <2>2, <2>3, HoldersAssumption DEF LFlushPending, LInv
<1>2. ASSUME NEW f \in Flushers, LFlushActive(f) PROVE LInv'
  <2>1. fcall'[f].past = "both" /\ fl'[f].pc = "flush" /\ pendingWritersLock = f
        /\ \A g \in Flushers \ {f} :
              fcall'[g] = fcall[g] /\ fl'[g] = fl[g] /\ fcall[g].past # "pending"
    BY <1>2 DEF LFlushActive, LInv, WTypeOK
  <2>2. UNCHANGED cl /\ pendingWritersLock' = Nobody
    BY <1>2 DEF LFlushActive, waitvars
  <2>3. fcall' \in [Flushers -> [past : {"none", "pending", "both"}, logs : SUBSET Logs]]
    BY <1>2 DEF LFlushActive, LInv
  <2> QED
    BY <2>1, <2>2, <2>3, HoldersAssumption DEF LInv
<1>3. ASSUME NEW f \in Flushers, LFlushStep(f) PROVE LInv'
  <2>1. CASE \E l \in Logs : FlushLog(f, l) /\ UNCHANGED fcall
    BY <1>3, <2>1, LInvFrame DEF LFlushStep, FlushLog, lockvars, waitvars, WTypeOK
  <2>2. CASE FlushReturn(f) /\ fcall' = [fcall EXCEPT ![f] = NoCall]
    <3>1. fcall'[f].past = "none" /\ fl'[f].pc = "idle" /\ fcall[f].past # "pending"
          /\ \A g \in Flushers \ {f} : fcall'[g] = fcall[g] /\ fl'[g] = fl[g]
      BY <1>3, <2>2 DEF LFlushStep, FlushReturn, IdleFlush, NoCall, LInv, WTypeOK
    <3>2. cl'.pc = cl.pc /\ UNCHANGED <<pendingWriters, pendingWritersLock>>
      BY <1>3, <2>2 DEF LFlushStep, FlushReturn, FlushLeaves, WTypeOK
    <3>3. fcall' \in [Flushers -> [past : {"none", "pending", "both"}, logs : SUBSET Logs]]
      BY <2>2 DEF LInv, NoCall
    <3> QED
      BY <3>1, <3>2, <3>3 DEF LInv, Pending
  <2> QED
    BY <1>3, <2>1, <2>2 DEF LFlushStep
<1>4. ASSUME NEW b \in Blocks, WriteStart(b) \/ WriteStep(b), UNCHANGED lockvars PROVE LInv'
  <2>1. cl'.pc = cl.pc /\ UNCHANGED <<pendingWriters, fl>>
    BY <1>4 DEF WriteStart, WriteStep, WriteAppend, WriteRefused, WriteCount, WriteReturn,
                WriteLeaves, waitvars, WTypeOK
  <2> QED
    BY <1>4, <2>1, LInvFrame
<1>5. ASSUME NEW l \in Logs, Section(PushPending(l)) \/ Section(PushFirstLog(l))
                             \/ Section(PushSwap(l))
      PROVE  LInv'
  <2>1. Free /\ UNCHANGED <<cl, fl, lockvars>>
    BY <1>5 DEF Section, PushPending, PushFirstLog, PushSwap, callvars, waitvars
  <2> QED
    BY <2>1, LInvSection
<1>6. ASSUME NEW l \in Logs, MakeLogWriter(l) \/ CloserStep(l), UNCHANGED lockvars PROVE LInv'
  <2>1. cl'.pc = cl.pc /\ UNCHANGED <<pendingWriters, fl>>
    BY <1>6 DEF MakeLogWriter, CloserStep, CloserFreeze, CloserSync, CloserLeaves, callvars,
                waitvars, WTypeOK
  <2> QED
    BY <1>6, <2>1, LInvFrame
<1>7. ASSUME NEW n \in 1..Len(pendingWriters), Section(RemoveStart(n)) PROVE LInv'
  BY <1>7, LInvSection DEF Section, RemoveStart, callvars
<1>8. CASE RunnerStep /\ UNCHANGED lockvars
  <2>1. cl'.pc = cl.pc /\ UNCHANGED <<pendingWriters, fl>>
    BY <1>8 DEF RunnerStep, PushReturn, RemoveReturn, CloseRemoved, callvars
  <2> QED
    BY <1>8, <2>1, LInvFrame
<1>9. CASE LCloseStart
  <2>1. cl'.pc = "wait1" /\ UNCHANGED <<fl, fcall>> /\ pendingWritersLock' = CloseCall
    BY <1>9 DEF LCloseStart, CloseStart, callvars
  <2>2. \A f \in Flushers : fcall[f].past # "pending"
    BY <1>9, HoldersAssumption DEF LCloseStart, LInv, Free
  <2> QED
    BY <2>1, <2>2, HoldersAssumption DEF LInv
<1>10. CASE LCloseBarrier
  <2>1. cl.pc = "wait1" /\ cl'.pc = "wait2" /\ UNCHANGED <<fl, fcall>>
        /\ pendingWritersLock' = Nobody
    BY <1>10 DEF LCloseBarrier, CloseBarrier, callvars
  <2>2. \A f \in Flushers : fcall[f].past # "pending"
    BY <2>1, HoldersAssumption DEF LInv
  <2> QED
    BY <2>1, <2>2, HoldersAssumption DEF LInv
<1>11. CASE Section(CloseReturn)
  <2>1. Free /\ cl.pc = "wait2" /\ cl'.pc = "closed" /\ UNCHANGED <<fl, lockvars>>
    BY <1>11 DEF Section, CloseReturn, callvars, WTypeOK
  <2> QED
    BY <2>1, LInvSection
<1>12. CASE UNCHANGED lvars
  BY <1>12, LInvFrame DEF lvars, wvars
<1> QED
  BY <1>1, <1>2, <1>3, <1>4, <1>5, <1>6, <1>7, <1>8, <1>9, <1>10, <1>11, <1>12
  DEF LNext, LFlush, LCloseStep, Closed, lvars

LEMMA LInitInv == LInit => LInv
  BY HoldersAssumption DEF LInit, WInit, LInv, NoCall, IdleClose, IdleFlush

LEMMA LInvariant == LSafeSpec => [](WInv /\ LInv)
<1>1. LInit => WInv /\ LInv
  BY LInitInv, WInitInv DEF LInit
<1>2. WInv /\ LInv /\ [LNext]_lvars => (WInv /\ LInv)'
  <2>1. WInv => WTypeOK
    BY DEF WInv
  <2> QED
    BY <2>1, LocksStep, LInvStep, WStepInv
<1> QED
  BY <1>1, <1>2, PTL DEF LSafeSpec

\* With pendingWritersLock as a variable and Flush in two steps, every step of
\* the tracker is one of WriterTracker or a stutter: what is proved with locked
\* sections as single steps holds of the calls as they are written.
THEOREM LocksImplement == LSafeSpec => WSafeSpec
<1>1. LInit => WInit
  BY DEF LInit
<1>2. WInv /\ LInv /\ [LNext]_lvars => [WNext]_wvars
  BY LocksStep DEF WInv
<1> QED
  BY <1>1, <1>2, LInvariant, PTL DEF LSafeSpec, WSafeSpec

\* Whoever PushNewLog, RemovePending or Close waits for is under way, waits for
\* nobody and needs no lock any more; Close holds pendingWritersLock exactly at
\* its first barrier.
THEOREM NobodyStuck == LSafeSpec => []NoCircularWait
<1>1. WInv /\ LInv => NoCircularWait
  BY DEF WInv, LInv, NoCircularWait, WaitsForRunning, ActiveFlushes, Flushes
<1> QED
  BY <1>1, LInvariant, PTL
=============================================================================
