------------------------------ MODULE SlotProofs ------------------------------
(***************************************************************************)
(* Proofs about the two halves of api/agent/slots.go, for every set of     *)
(* containers and calls: the manager's statistics are exact and its        *)
(* launchers belong to the queue on the map (SlotQueueMgr), and the queue  *)
(* hands a slot out once (SlotQueue implements SlotHandout).  The two      *)
(* specifications share no state.                                          *)
(***************************************************************************)
EXTENDS SlotQueueMgr, SlotQueue, FiniteSetTheorems, TLAPS

-----------------------------------------------------------------------------
(* The manager.                                                            *)

(* A tracker is counted in the state it has entered and in the one it has   *)
(* not left.                                                                *)
Occupies(t, s) ==
  \/ step[t] \in {"rest", "exit"} /\ st[t] = s
  \/ step[t] \in {"enter", "exit"} /\ old[t] = s
Occupants(q, s) == {t \in Trackers : queue[t] = q /\ Occupies(t, s)}

StatsExact == \A q \in Queues, s \in Counted : stats[q][s] = Cardinality(Occupants(q, s))

(* A move goes from one state to another, never from Done nor past the      *)
(* first counted state, and its tracker has a queue.                        *)
Moving ==
  \A t \in Trackers :
    /\ queue[t] = NoQueue => st[t] = "None" /\ step[t] = "rest"
    /\ step[t] # "rest" => /\ old[t] # st[t] /\ old[t] # "Done" /\ st[t] # "None"
                           /\ old[t] = "None" => st[t] \in Counted

(* The container a launcher is about, and the queue on the map. *)
OneLauncher ==
  /\ hot <= made
  /\ \A q \in Queues : /\ q > made => launcher[q] = "none"
                       /\ launcher[q] \in {"update", "token"} => launching[q] \in Containers
  /\ \A r \in fresh : queue[r] \in Queues /\ \A o \in fresh : o = r

MgrInv == MgrTypeOK /\ StatsExact /\ Moving /\ OneLauncher /\ LauncherOfMapped

(* A move begins: the tracker stays counted where it was. *)
LEMMA MoveBegins ==
  ASSUME MgrInv, NEW t \in Trackers, NEW s \in States, NEW qs,
         st' = [st EXCEPT ![t] = s], old' = [old EXCEPT ![t] = st[t]],
         step' = [step EXCEPT ![t] = "enter"], step[t] = "rest",
         queue' = qs, qs = queue \/ (st[t] = "None" /\ \E q \in Queues : qs = [queue EXCEPT ![t] = q]),
         qs[t] # NoQueue, stats' = stats,
         s # st[t], s # "None", st[t] # "Done", st[t] = "None" => s \in Counted
  PROVE  StatsExact' /\ Moving'
<1>1. /\ st'[t] = s /\ old'[t] = st[t] /\ step'[t] = "enter"
      /\ \A o \in Trackers : o # t => /\ st'[o] = st[o] /\ old'[o] = old[o] /\ step'[o] = step[o]
                                      /\ queue'[o] = queue[o]
  BY DEF MgrInv, MgrTypeOK
<1>2. Moving'
  BY <1>1 DEF MgrInv, Moving
<1>3. ASSUME NEW q \in Queues, NEW c \in Counted PROVE Occupants(q, c)' = Occupants(q, c)
  <2>1. ASSUME NEW o \in Trackers PROVE (queue[o] = q /\ Occupies(o, c))' <=> queue[o] = q /\ Occupies(o, c)
    <3>1. CASE o # t
      BY <1>1, <3>1 DEF Occupies
    <3>2. CASE o = t
      <4>1. Occupies(t, c)' <=> Occupies(t, c)
        BY <1>1 DEF Occupies
      <4>2. st[t] = "None" => ~Occupies(t, c)
        BY DEF Occupies, Counted, ReqStates, CtrStates
      <4> QED BY <3>2, <4>1, <4>2
    <3> QED BY <3>1, <3>2
  <2> QED BY <2>1 DEF Occupants
<1>4. StatsExact'
  BY <1>3 DEF MgrInv, StatsExact
<1> QED BY <1>2, <1>4

(* What no step of a tracker touches. *)
LEMMA LaunchersAlone ==
  ASSUME MgrInv, UNCHANGED <<hot, made, fresh, launcher, launching>>,
         \A r \in fresh : queue'[r] = queue[r]
  PROVE  OneLauncher' /\ LauncherOfMapped'
  BY DEF MgrInv, OneLauncher, LauncherOfMapped

LEMMA TrackersAlone ==
  ASSUME MgrInv, UNCHANGED tvars
  PROVE  StatsExact' /\ Moving'
<1>1. UNCHANGED <<stats, queue, st, old, step>>
  BY DEF tvars
<1>2. \A q, s : Occupants(q, s)' = Occupants(q, s)
  BY <1>1 DEF Occupants, Occupies
<1> QED BY <1>1, <1>2 DEF MgrInv, StatsExact, Moving

(* UpdateState of a request or of a container that has its queue. *)
LEMMA UpdateStateInv ==
  ASSUME MgrInv, NEW t \in Trackers, NEW s \in States, UpdateState(t, s),
         queue[t] # NoQueue, s # st[t], s # "None", st[t] # "Done",
         st[t] = "None" => s \in Counted,
         UNCHANGED <<hot, made, fresh, stats, queue, launcher, launching, signalled>>
  PROVE  MgrInv'
<1>1. StatsExact' /\ Moving'
  BY MoveBegins DEF UpdateState
<1>2. OneLauncher' /\ LauncherOfMapped'
  BY LaunchersAlone
<1>3. MgrTypeOK'
  BY DEF MgrInv, MgrTypeOK, UpdateState
<1> QED BY <1>1, <1>2, <1>3 DEF MgrInv

LEMMA RequestMovesInv ==
  ASSUME MgrInv, NEW r \in Requests, WaitForSlot(r) \/ Exec(r) \/ EndRequest(r)
  PROVE  MgrInv'
<1>1. r \in Trackers
  BY DEF Trackers
<1>2. UNCHANGED <<hot, made, fresh, stats, queue, launcher, launching, signalled>>
  BY DEF WaitForSlot, Exec, EndRequest, lvars
<1>3. PICK s \in {"rWait", "rExec", "Done"} :
        /\ UpdateState(r, s) /\ s # st[r] /\ st[r] # "Done"
        /\ st[r] = "None" => s = "rWait"
        /\ st[r] = "None" => queue[r] # NoQueue
  BY DEF WaitForSlot, Exec, EndRequest, ReqStates
<1>4. s \in States /\ s # "None" /\ (st[r] = "None" => s \in Counted)
  BY <1>3 DEF States, Counted, ReqStates
<1>5. queue[r] # NoQueue
  BY <1>1, <1>3 DEF MgrInv, Moving
<1> QED BY <1>1, <1>2, <1>3, <1>4, <1>5, UpdateStateInv

LEMMA MoveCtrInv == ASSUME MgrInv, NEW k \in Containers, MoveCtr(k) PROVE MgrInv'
<1>1. k \in Trackers
  BY DEF Trackers
<1>2. UNCHANGED <<hot, made, fresh, stats, queue, launcher, launching, signalled>>
  BY DEF MoveCtr, lvars
<1>3. PICK s \in {"cStart", "cIdle", "cBusy", "Done"} :
        UpdateState(k, s) /\ s # st[k] /\ st[k] # "Done" /\ st[k] # "None"
  BY DEF MoveCtr
<1>4. s \in States /\ s # "None" /\ queue[k] # NoQueue
  BY <1>3 DEF States, Counted, CtrStates, MoveCtr
<1> QED BY <1>1, <1>2, <1>3, <1>4, UpdateStateInv

(* One occupant more, or one less. *)
LEMMA OccupantsFinite ==
  ASSUME NEW q, NEW s
  PROVE  IsFiniteSet(Occupants(q, s)) /\ Cardinality(Occupants(q, s)) \in Nat
<1>1. IsFiniteSet(Trackers)
  BY MgrAssumption, FS_Union DEF Trackers
<1>2. Occupants(q, s) \subseteq Trackers
  BY DEF Occupants
<1> QED BY <1>1, <1>2, FS_Subset, FS_CardinalityType

(* enterRequestState and exitRequestState keep the statistics exact, and    *)
(* never take one from zero.                                                *)
LEMMA EnterThenExitInv == ASSUME MgrInv, NEW t \in Trackers, EnterThenExit(t) PROVE MgrInv'
<1>1. UNCHANGED <<hot, made, fresh, queue, st, old, launcher, launching, signalled>>
  BY DEF EnterThenExit, lvars
<1>2. /\ step \in [Trackers -> {"rest", "enter", "exit"}] /\ queue[t] \in Queues
      /\ st[t] \in States /\ old[t] \in States /\ old[t] # st[t]
      /\ stats \in [Queues -> [Counted -> Nat]]
  BY DEF MgrInv, MgrTypeOK, Moving, EnterThenExit
<1>3. OneLauncher' /\ LauncherOfMapped'
  BY <1>1, LaunchersAlone
<1>4. PICK s \in States, n \in {1, -1}, to \in {"exit", "rest"} :
        /\ Add(queue[t], s, n) /\ step' = [step EXCEPT ![t] = to]
        /\ \/ n = 1 /\ s = st[t] /\ step[t] = "enter" /\ to = "exit"
           \/ n = -1 /\ s = old[t] /\ step[t] = "exit" /\ to = "rest"
  BY <1>2 DEF EnterThenExit
<1>5. step'[t] = to /\ \A o \in Trackers : o # t => step'[o] = step[o]
  BY <1>2, <1>4
<1>6. Moving'
  BY <1>1, <1>4, <1>5 DEF MgrInv, Moving
<1>7. ASSUME NEW q \in Queues, NEW c \in Counted, q # queue[t] \/ c # s
      PROVE  Occupants(q, c)' = Occupants(q, c)
  <2>1. ASSUME NEW o \in Trackers PROVE (queue[o] = q /\ Occupies(o, c))' <=> queue[o] = q /\ Occupies(o, c)
    <3>1. CASE o # t
      BY <1>1, <1>5, <3>1 DEF Occupies
    <3>2. CASE o = t
      BY <1>1, <1>4, <1>5, <1>7, <3>2 DEF Occupies
    <3> QED BY <3>1, <3>2
  <2> QED BY <2>1 DEF Occupants
<1>8. CASE s \notin Counted
  <2>1. stats' = stats
    BY <1>4, <1>8 DEF Add
  <2>2. StatsExact'
    BY <1>7, <1>8, <2>1 DEF MgrInv, StatsExact
  <2>3. MgrTypeOK'
    BY <1>1, <1>2, <1>4, <2>1 DEF MgrInv, MgrTypeOK
  <2> QED BY <1>3, <1>6, <2>2, <2>3 DEF MgrInv
<1>9. CASE s \in Counted
  <2> DEFINE q == queue[t]
  <2>0. q \in Queues
    BY <1>2
  <2>1. /\ stats'[q][s] = stats[q][s] + n
        /\ \A p \in Queues, c \in Counted : p # q \/ c # s => stats'[p][c] = stats[p][c]
        /\ stats[q][s] \in Nat
    BY <1>2, <1>4, <1>9 DEF Add
  <2>2. stats[q][s] = Cardinality(Occupants(q, s))
    BY <1>2, <1>9 DEF MgrInv, StatsExact
  <2>3. IsFiniteSet(Occupants(q, s)) /\ Cardinality(Occupants(q, s)) \in Nat
    BY OccupantsFinite
  <2>4. \A o \in Trackers : o # t => (Occupies(o, s)' <=> Occupies(o, s))
    BY <1>1, <1>5 DEF Occupies
  <2>5. stats'[q][s] = Cardinality(Occupants(q, s)') /\ stats'[q][s] \in Nat
    <3>1. CASE n = 1
      <4>1. Occupies(t, s)' /\ ~Occupies(t, s)
        BY <1>1, <1>2, <1>4, <1>5, <3>1 DEF Occupies
      <4>2. Occupants(q, s)' = Occupants(q, s) \cup {t} /\ t \notin Occupants(q, s)
        BY <1>1, <2>4, <4>1 DEF Occupants
      <4>3. Cardinality(Occupants(q, s)') = Cardinality(Occupants(q, s)) + 1
        BY <2>3, <4>2, FS_AddElement
      <4> QED BY <2>1, <2>2, <2>3, <3>1, <4>3
    <3>2. CASE n = -1
      <4>1. Occupies(t, s) /\ ~Occupies(t, s)'
        BY <1>1, <1>2, <1>4, <1>5, <3>2 DEF Occupies
      <4>2. Occupants(q, s)' = Occupants(q, s) \ {t} /\ t \in Occupants(q, s)
        BY <1>1, <2>4, <4>1 DEF Occupants
      <4>3. Cardinality(Occupants(q, s)') = Cardinality(Occupants(q, s)) - 1
        BY <2>3, <4>2, FS_RemoveElement, ZenonT(40)
      <4>4. IsFiniteSet(Occupants(q, s)')
        BY <2>3, <4>2, FS_RemoveElement
      <4>5. Cardinality(Occupants(q, s)') \in Nat
        BY <4>4, FS_CardinalityType
      <4> QED BY <2>1, <2>2, <2>3, <3>2, <4>3, <4>5
    <3> QED BY <1>4, <3>1, <3>2
  <2>6. ASSUME NEW p \in Queues, NEW c \in Counted PROVE stats'[p][c] = Cardinality(Occupants(p, c)')
    <3>1. CASE p = q /\ c = s
      <4>1. q' = q
        BY <1>1
      <4> QED BY <2>5, <3>1, <4>1
    <3>2. CASE p # q \/ c # s
      <4>1. Occupants(p, c)' = Occupants(p, c)
        BY <1>7, <3>2
      <4> QED BY <2>1, <3>2, <4>1 DEF MgrInv, StatsExact
    <3> QED BY <3>1, <3>2
  <2>7. stats' \in [Queues -> [Counted -> Nat]]
    <3>1. stats' = [stats EXCEPT ![q][s] = @ + n]
      BY <1>4, <1>9 DEF Add
    <3> QED BY <1>2, <1>9, <2>0, <2>1, <2>5, <3>1
  <2>8. MgrTypeOK'
    BY <1>1, <1>2, <1>4, <2>7 DEF MgrInv, MgrTypeOK
  <2> QED BY <1>3, <1>6, <2>6, <2>8 DEF MgrInv, StatsExact
<1> QED BY <1>8, <1>9

(* getSlotQueue: a tracker that was never counted gets its queue. *)
LEMMA GetSlotQueueInv == ASSUME MgrInv, NEW r \in Requests, getSlotQueue(r) PROVE MgrInv'
<1>1. /\ queue[r] = NoQueue /\ r \in Trackers
      /\ UNCHANGED <<stats, st, old, step, launcher, launching, signalled>>
  BY DEF getSlotQueue, lvars, Trackers
<1>2. st[r] = "None" /\ step[r] = "rest"
  BY <1>1 DEF MgrInv, Moving
<1>3. /\ hot \in Queues \cup {NoQueue} /\ made \in 0..MaxQueues /\ MaxQueues \in Nat
      /\ queue \in [Trackers -> Queues \cup {NoQueue}] /\ fresh \in SUBSET Requests
  BY MgrAssumption DEF MgrInv, MgrTypeOK
<1>4. PICK q \in Queues : queue' = [queue EXCEPT ![r] = q]
  <2>1. CASE hot # NoQueue
    BY <1>3, <2>1 DEF getSlotQueue
  <2>2. CASE hot = NoQueue
    BY <1>3, <2>2 DEF getSlotQueue, Queues
  <2> QED BY <2>1, <2>2
<1>5. queue'[r] = q /\ \A o \in Trackers : o # r => queue'[o] = queue[o]
  BY <1>1, <1>3, <1>4
<1>6. q # NoQueue
  BY DEF Queues, NoQueue
<1>7. Moving'
  BY <1>1, <1>5, <1>6 DEF MgrInv, Moving
<1>8. StatsExact'
  <2>1. ASSUME NEW p \in Queues, NEW c \in Counted PROVE Occupants(p, c)' = Occupants(p, c)
    <3>1. ASSUME NEW o \in Trackers PROVE (queue[o] = p /\ Occupies(o, c))' <=> queue[o] = p /\ Occupies(o, c)
      <4>1. CASE o # r
        BY <1>1, <1>5, <4>1 DEF Occupies
      <4>2. CASE o = r
        BY <1>1, <1>2, <4>2 DEF Occupies, Counted, ReqStates, CtrStates
      <4> QED BY <4>1, <4>2
    <3> QED BY <3>1 DEF Occupants
  <2> QED BY <1>1, <2>1 DEF MgrInv, StatsExact
<1>9. CASE hot # NoQueue
  <2>1. UNCHANGED <<hot, made, fresh>>
    BY <1>9 DEF getSlotQueue
  <2>2. \A o \in fresh : queue'[o] = queue[o]
    <3>1. r \notin fresh
      BY <1>1 DEF MgrInv, OneLauncher, Queues, NoQueue
    <3> QED BY <1>3, <1>5, <3>1 DEF Trackers
  <2>3. OneLauncher' /\ LauncherOfMapped'
    BY <1>1, <2>1, <2>2, LaunchersAlone
  <2>4. MgrTypeOK'
    BY <1>1, <1>3, <1>4, <2>1 DEF MgrInv, MgrTypeOK
  <2> QED BY <1>7, <1>8, <2>3, <2>4 DEF MgrInv
<1>10. CASE hot = NoQueue
  <2>1. /\ made < MaxQueues /\ made' = made + 1 /\ hot' = made + 1
        /\ fresh' = fresh \cup {r} /\ queue' = [queue EXCEPT ![r] = made + 1]
    BY <1>10 DEF getSlotQueue
  <2>2. fresh = {} /\ \A p \in Queues : launcher[p] \in {"none", "gone"}
    BY <1>10 DEF MgrInv, LauncherOfMapped, OneLauncher, Queues, NoQueue
  <2>3. made + 1 \in Queues /\ launcher[made + 1] = "none" /\ queue'[r] = made + 1
    BY <1>1, <1>3, <2>1 DEF MgrInv, OneLauncher, Queues
  <2>4. OneLauncher'
    BY <1>1, <1>3, <2>1, <2>2, <2>3 DEF MgrInv, OneLauncher, Queues
  <2>5. LauncherOfMapped'
    BY <1>1, <2>1, <2>2, <2>3 DEF LauncherOfMapped
  <2>6. MgrTypeOK'
    BY <1>1, <1>3, <1>4, <2>1, <2>3 DEF MgrInv, MgrTypeOK
  <2> QED BY <1>7, <1>8, <2>4, <2>5, <2>6 DEF MgrInv
<1> QED BY <1>9, <1>10

LEMMA SpawnLauncherInv == ASSUME MgrInv, NEW r \in Requests, SpawnLauncher(r) PROVE MgrInv'
<1>1. /\ r \in fresh /\ fresh' = fresh \ {r}
      /\ launcher' = [launcher EXCEPT ![queue[r]] = "check"]
      /\ UNCHANGED <<hot, made, tvars, launching, signalled>>
  BY DEF SpawnLauncher
<1>2. /\ queue[r] \in Queues /\ hot = queue[r] /\ fresh' = {}
  BY <1>1 DEF MgrInv, OneLauncher, LauncherOfMapped
<1>3. launcher \in [Queues -> LauncherPC] /\ hot <= made /\ made \in Nat
  BY MgrAssumption DEF MgrInv, MgrTypeOK, OneLauncher
<1>4. OneLauncher'
  BY <1>1, <1>2, <1>3 DEF MgrInv, OneLauncher, Queues
<1>5. LauncherOfMapped'
  BY <1>1, <1>2, <1>3 DEF MgrInv, LauncherOfMapped
<1>6. MgrTypeOK'
  BY <1>1, <1>2 DEF MgrInv, MgrTypeOK, tvars, LauncherPC
<1> QED BY <1>1, <1>4, <1>5, <1>6, TrackersAlone DEF MgrInv

LEMMA PingInv == ASSUME MgrInv, NEW r \in Requests, Ping(r) PROVE MgrInv'
<1>1. /\ signalled' = signalled \cup {queue[r]} /\ st[r] = "rWait" /\ r \in Trackers
      /\ UNCHANGED <<hot, made, fresh, tvars, launcher, launching, queue>>
  BY DEF Ping, Trackers, tvars
<1>2. queue[r] \in Queues
  BY <1>1 DEF MgrInv, MgrTypeOK, Moving
<1>3. MgrTypeOK'
  BY <1>1, <1>2 DEF MgrInv, MgrTypeOK, tvars
<1>4. OneLauncher' /\ LauncherOfMapped'
  BY <1>1, LaunchersAlone
<1> QED BY <1>1, <1>3, <1>4, TrackersAlone DEF MgrInv

(* A launcher that runs goes on, or ends. *)
LEMMA LauncherMoves ==
  ASSUME MgrInv, NEW q \in Queues, NEW s \in LauncherPC, s # "none",
         launcher[q] \notin {"none", "gone"},
         launcher' = [launcher EXCEPT ![q] = s],
         launching' \in [Queues -> Containers \cup {NoCtr}],
         \A p \in Queues : p # q => launching'[p] = launching[p],
         s \in {"update", "token"} => launching'[q] \in Containers,
         signalled' \in SUBSET Queues, hot' = hot \/ (s = "gone" /\ hot' = NoQueue),
         UNCHANGED <<made, fresh>>, \A r \in fresh : queue'[r] = queue[r]
  PROVE  /\ OneLauncher' /\ LauncherOfMapped'
         /\ launcher' \in [Queues -> LauncherPC] /\ hot' \in Queues \cup {NoQueue}
<1>1. /\ launcher \in [Queues -> LauncherPC] /\ hot \in Queues \cup {NoQueue} /\ hot = q
      /\ made \in Nat /\ fresh = {}
  BY MgrAssumption DEF MgrInv, MgrTypeOK, LauncherOfMapped
<1>2. launcher'[q] = s /\ \A p \in Queues : p # q => launcher'[p] = launcher[p]
  BY <1>1
<1>3. \A p \in Queues : p # q => launcher[p] \in {"none", "gone"}
  BY <1>1 DEF MgrInv, LauncherOfMapped
<1>4. LauncherOfMapped'
  BY <1>1, <1>2, <1>3 DEF LauncherOfMapped
<1>5. OneLauncher'
  BY <1>1, <1>2 DEF MgrInv, OneLauncher, NoQueue, Queues
<1> QED BY <1>1, <1>4, <1>5

LEMMA LauncherInv ==
  ASSUME MgrInv, NEW q \in Queues, CheckLaunch(q) \/ Signalled(q) \/ TimedOut(q)
  PROVE  MgrInv'
<1>1. launcher[q] \in {"check", "select"} /\ UNCHANGED <<made, fresh, tvars, queue>>
  BY DEF CheckLaunch, Signalled, TimedOut, tvars
<1>2. launching \in [Queues -> Containers \cup {NoCtr}] /\ signalled \in SUBSET Queues
  BY DEF MgrInv, MgrTypeOK
<1>3. /\ launching' \in [Queues -> Containers \cup {NoCtr}] /\ signalled' \in SUBSET Queues
      /\ \A p \in Queues : p # q => launching'[p] = launching[p]
  BY <1>2 DEF CheckLaunch, Signalled, TimedOut
<1>4. PICK s \in {"check", "update", "select", "gone"} :
        /\ launcher' = [launcher EXCEPT ![q] = s]
        /\ s = "update" => launching'[q] \in Containers
        /\ hot' = hot \/ (s = "gone" /\ hot' = NoQueue)
  <2>1. CASE CheckLaunch(q)
    BY <1>2, <2>1 DEF CheckLaunch
  <2>2. CASE Signalled(q)
    BY <2>2 DEF Signalled
  <2>3. CASE TimedOut(q)
    BY <2>3 DEF TimedOut
  <2> QED BY <2>1, <2>2, <2>3
<1>5. s \in LauncherPC /\ s # "none" /\ s # "token"
  BY DEF LauncherPC
<1>6. /\ OneLauncher' /\ LauncherOfMapped'
      /\ launcher' \in [Queues -> LauncherPC] /\ hot' \in Queues \cup {NoQueue}
  BY <1>1, <1>3, <1>4, <1>5, LauncherMoves
<1>7. MgrTypeOK'
  BY <1>1, <1>3, <1>6 DEF MgrInv, MgrTypeOK, tvars
<1> QED BY <1>1, <1>6, <1>7, TrackersAlone DEF MgrInv

(* checkLaunch counts its container, or drops it. *)
LEMMA FirstState ==
  ASSUME NEW t \in Trackers, MgrTypeOK, MayMove(st[t], "cWait")
  PROVE  st[t] = "None"
<1>1. st[t] \in States
  BY DEF MgrTypeOK
<1> QED BY <1>1 DEF MayMove, Rank, States, Counted, ReqStates, CtrStates

LEMMA NewContainerInv == ASSUME MgrInv, NEW q \in Queues, NewContainer(q) PROVE MgrInv'
<1>1. PICK k : k = launching[q]
  OBVIOUS
<1>2. /\ launcher[q] = "update" /\ UpdateState(k, "cWait")
      /\ queue' = [queue EXCEPT ![k] = q]
      /\ launcher' = [launcher EXCEPT ![q] = "token"]
      /\ UNCHANGED <<hot, made, fresh, stats, launching, signalled>>
  BY <1>1 DEF NewContainer
<1>3. k \in Containers /\ k \in Trackers /\ k \notin Requests
  BY <1>1, <1>2, MgrAssumption DEF MgrInv, OneLauncher, Trackers
<1>4. st[k] = "None"
  BY <1>2, <1>3, FirstState DEF UpdateState, MgrInv
<1>5. /\ queue \in [Trackers -> Queues \cup {NoQueue}] /\ fresh \in SUBSET Requests
      /\ launching \in [Queues -> Containers \cup {NoCtr}] /\ signalled \in SUBSET Queues
  BY DEF MgrInv, MgrTypeOK
<1>6. /\ queue'[k] = q /\ q # NoQueue /\ \A r \in fresh : queue'[r] = queue[r]
  BY <1>2, <1>3, <1>5 DEF Queues, NoQueue, Trackers
<1>7. "cWait" \in Counted /\ "cWait" \in States /\ "token" \in LauncherPC
  BY DEF Counted, States, CtrStates, LauncherPC
<1>8. PICK qs : qs = queue'
  OBVIOUS
<1>9. StatsExact' /\ Moving'
  <2>1. /\ step[k] = "rest" /\ st' = [st EXCEPT ![k] = "cWait"]
        /\ old' = [old EXCEPT ![k] = st[k]] /\ step' = [step EXCEPT ![k] = "enter"]
    BY <1>2 DEF UpdateState
  <2> QED BY <1>2, <1>3, <1>4, <1>6, <1>7, <1>8, <2>1, MoveBegins
<1>10. /\ OneLauncher' /\ LauncherOfMapped'
       /\ launcher' \in [Queues -> LauncherPC] /\ hot' \in Queues \cup {NoQueue}
  BY <1>1, <1>2, <1>3, <1>5, <1>6, <1>7, LauncherMoves
<1>11. MgrTypeOK'
  BY <1>2, <1>3, <1>7, <1>10 DEF MgrInv, MgrTypeOK, UpdateState
<1> QED BY <1>9, <1>10, <1>11 DEF MgrInv

LEMMA ResourcesInv == ASSUME MgrInv, NEW q \in Queues, Resources(q) PROVE MgrInv'
<1>1. PICK k : k = launching[q]
  OBVIOUS
<1>2. /\ launcher[q] = "token"
      /\ \/ st[k] = "cWait" /\ UpdateState(k, "Done") /\ UNCHANGED lvars
         \/ /\ launcher' = [launcher EXCEPT ![q] = "select"]
            /\ launching' = [launching EXCEPT ![q] = NoCtr]
            /\ UNCHANGED <<st, old, step, signalled>>
      /\ UNCHANGED <<hot, made, fresh, stats, queue>>
  BY <1>1 DEF Resources
<1>3. k \in Trackers
  BY <1>1, <1>2 DEF MgrInv, OneLauncher, Trackers
<1>4. CASE st[k] = "cWait" /\ UpdateState(k, "Done") /\ UNCHANGED lvars
  <2>1. queue[k] # NoQueue
    BY <1>3, <1>4 DEF MgrInv, Moving
  <2>2. "Done" \in States
    BY DEF States
  <2>3. UNCHANGED <<hot, made, fresh, stats, queue, launcher, launching, signalled>>
    BY <1>2, <1>4 DEF lvars
  <2> QED BY <1>3, <1>4, <2>1, <2>2, <2>3, UpdateStateInv
<1>5. CASE /\ launcher' = [launcher EXCEPT ![q] = "select"]
           /\ launching' = [launching EXCEPT ![q] = NoCtr]
           /\ UNCHANGED <<st, old, step, signalled>>
  <2>1. launching \in [Queues -> Containers \cup {NoCtr}] /\ signalled \in SUBSET Queues
    BY DEF MgrInv, MgrTypeOK
  <2>2. /\ launching' \in [Queues -> Containers \cup {NoCtr}] /\ signalled' \in SUBSET Queues
        /\ \A p \in Queues : p # q => launching'[p] = launching[p]
    BY <1>5, <2>1
  <2>3. "select" \in LauncherPC
    BY DEF LauncherPC
  <2>4. /\ OneLauncher' /\ LauncherOfMapped'
        /\ launcher' \in [Queues -> LauncherPC] /\ hot' \in Queues \cup {NoQueue}
    BY <1>2, <1>5, <2>2, <2>3, LauncherMoves
  <2>5. UNCHANGED tvars
    BY <1>2, <1>5 DEF tvars
  <2>6. MgrTypeOK'
    BY <1>2, <1>5, <2>2, <2>4 DEF MgrInv, MgrTypeOK
  <2> QED BY <2>4, <2>5, <2>6, TrackersAlone DEF MgrInv
<1> QED BY <1>2, <1>4, <1>5

LEMMA MgrInvInit == MgrInit => MgrInv
<1> SUFFICES ASSUME MgrInit PROVE MgrInv
  OBVIOUS
<1>1. MgrTypeOK
  BY MgrAssumption DEF MgrInit, MgrTypeOK, States, LauncherPC, NoQueue
<1>2. \A q \in Queues, s \in Counted : Occupants(q, s) = {}
  BY DEF MgrInit, Occupants, Queues, NoQueue
<1>3. StatsExact
  BY <1>2, FS_EmptySet DEF StatsExact, MgrInit
<1>4. Moving /\ OneLauncher /\ LauncherOfMapped
  BY DEF MgrInit, Moving, OneLauncher, LauncherOfMapped, NoQueue
<1> QED BY <1>1, <1>3, <1>4 DEF MgrInv

LEMMA MgrInvNext == MgrInv /\ [MgrNext]_mgrVars => MgrInv'
<1> SUFFICES ASSUME MgrInv, [MgrNext]_mgrVars PROVE MgrInv'
  OBVIOUS
<1>1. CASE UNCHANGED mgrVars
  <2>1. UNCHANGED <<hot, made, fresh, launcher, launching, signalled, queue, tvars>>
    BY <1>1 DEF mgrVars, lvars, tvars
  <2>2. MgrTypeOK'
    BY <2>1 DEF MgrInv, MgrTypeOK, tvars
  <2> QED BY <2>1, <2>2, LaunchersAlone, TrackersAlone DEF MgrInv
<1> QED BY <1>1, EnterThenExitInv, GetSlotQueueInv, RequestMovesInv, SpawnLauncherInv, PingInv,
           LauncherInv, NewContainerInv, ResourcesInv, MoveCtrInv DEF MgrNext

LEMMA MgrInvAlways == MgrSpec => []MgrInv
BY MgrInvInit, MgrInvNext, PTL DEF MgrSpec

(* The statistics of a queue are exactly the trackers in each state: no     *)
(* counter is ever taken below zero, though a move is two lock sections.    *)
THEOREM StatisticsExact == MgrSpec => [](MgrTypeOK /\ StatsExact)
<1>1. MgrInv => MgrTypeOK /\ StatsExact
  BY DEF MgrInv
<1> QED BY <1>1, MgrInvAlways, PTL

(* isIdle overlooks no request and no container of the queue. *)
THEOREM IdleQueueIsIdle == MgrSpec => []IdleIsSound
<1>1. ASSUME MgrInv, NEW q \in Queues, isIdle(stats[q]), NEW t \in Trackers, queue[t] = q
      PROVE  \/ st[t] = "None" \/ (old[t] = "None" /\ step[t] = "enter")
             \/ st[t] = "Done" /\ step[t] = "rest"
  <2>1. ASSUME NEW s \in Counted PROVE ~Occupies(t, s)
    <3>1. Cardinality(Occupants(q, s)) = 0
      BY <1>1 DEF MgrInv, StatsExact, isIdle
    <3>2. Occupants(q, s) = {}
      BY <3>1, OccupantsFinite, FS_EmptySet
    <3> QED BY <1>1, <3>2 DEF Occupants
  <2>2. st[t] \in States /\ old[t] \in States /\ step[t] \in {"rest", "enter", "exit"}
    BY <1>1 DEF MgrInv, MgrTypeOK
  <2>3. step[t] # "rest" => old[t] # "Done" /\ (old[t] = "None" => st[t] \in Counted)
    BY <1>1 DEF MgrInv, Moving
  <2> QED BY <2>1, <2>2, <2>3 DEF Occupies, States
<1>2. MgrInv => IdleIsSound
  BY <1>1 DEF IdleIsSound
<1> QED BY <1>2, MgrInvAlways, PTL

(* Every launcher that runs is that of the queue on the map. *)
THEOREM LauncherIsMapped == MgrSpec => []LauncherOfMapped
<1>1. MgrInv => LauncherOfMapped
  BY DEF MgrInv
<1> QED BY <1>1, MgrInvAlways, PTL
-----------------------------------------------------------------------------
(* The queue.                                                              *)

Offered == 0..(nextId - 1)

(* A container holds its own token from the offer to the end of the call.   *)
CtrInv ==
  \A k \in Ctrs :
    /\ ctrTok[k] # None => ctrTok[k] \in Offered
    /\ ctr[k] \notin {"ready", "gone"} => ctrTok[k] # None
    /\ ctr[k] = "ready" => ctrTok[k] = None
    /\ \A j \in Ctrs : ctrTok[k] # None /\ ctrTok[j] = ctrTok[k] => j = k
    /\ ctrTok[k] # None =>
         \/ ctr[k] \in {"bcast", "select", "acquire"} /\ winner[ctrTok[k]] \notin Ctrs
         \/ ctr[k] = "busy" /\ winner[ctrTok[k]] \in Callers
         \/ ctr[k] \in {"remove", "trigger", "gone"} /\ winner[ctrTok[k]] = k

(* A token that is not over has its container, and its winner knows.        *)
TokenInv ==
  \A i \in Ids :
    /\ i \notin Offered => winner[i] = NoOne
    /\ i \in Offered /\ finished[i] = "no" => \E k \in Ctrs : ctrTok[k] = i
    /\ finished[i] # "no" => winner[i] \in Callers
    /\ winner[i] \in Callers => /\ item[winner[i]] = i
                                /\ caller[winner[i]] \in {"remove", "trigger", "exec", "done"}

CallerInv ==
  \A c \in Callers :
    /\ caller[c] \in {"acquire", "remove", "trigger", "exec"} => item[c] \in Offered
    /\ caller[c] \in {"remove", "trigger", "exec"} =>
         winner[item[c]] = c /\ finished[item[c]] = "no"
    /\ dq[c] = "send" => dqItem[c] \in Offered

QueueInv == TypeOK /\ CtrInv /\ TokenInv /\ CallerInv

LEMMA QueueInvInit == Init => QueueInv
<1> SUFFICES ASSUME Init PROVE QueueInv
  OBVIOUS
<1>1. TypeOK
  BY SlotQueueAssumption DEF Init, TypeOK, Ids, None, CtrPC, CallerPC, DqPC
<1>2. CtrInv /\ TokenInv /\ CallerInv
  BY SlotQueueAssumption DEF Init, CtrInv, TokenInv, CallerInv, Offered, Ids, None
<1> QED BY <1>1, <1>2 DEF QueueInv

(* Taking a token off the list leaves a list of tokens. *)
LEMMA RemoveTokenType ==
  ASSUME NEW i, RemoveToken(i), TypeOK
  PROVE  slots' \in Seq(Offered)
<1>1. slots \in Seq(Offered)
  BY DEF TypeOK, Offered
<1>2. CASE \E p \in 1..Len(slots) : LastAt(i, p)
  <2>1. PICK p \in 1..Len(slots) : slots' = RemoveAt(slots, p)
    BY <1>2 DEF RemoveToken
  <2> QED BY <1>1, <2>1 DEF RemoveAt
<1> QED BY <1>1, <1>2 DEF RemoveToken

(* queueSlot: the token is new, and the container is the only one to hold   *)
(* it.                                                                      *)
LEMMA QueueSlotInv ==
  ASSUME QueueInv, NEW k \in Ctrs, queueSlot(k)
  PROVE  QueueInv'
<1> USE SlotQueueAssumption DEF QueueInv
<1>0. /\ nextId \in Nat /\ nextId < MaxTokens /\ nextId' = nextId + 1 /\ nextId \in Ids
      /\ Offered' = Offered \cup {nextId} /\ nextId \notin Offered /\ None \notin Offered'
      /\ Offered' \subseteq Ids
  BY DEF queueSlot, TypeOK, Ids, Offered, None
<1>1. TypeOK'
  <2>1. slots' \in Seq(Offered')
    BY <1>0 DEF queueSlot, TypeOK, Offered
  <2>2. nextId' \in 0..MaxTokens /\ slots' \in Seq(0..(nextId' - 1))
    BY <1>0, <2>1 DEF Offered
  <2> QED BY <1>0, <2>2 DEF queueSlot, TypeOK, CtrPC, cvars, dvars
<1>2. winner[nextId] = NoOne
  BY <1>0 DEF TokenInv
<1>3. CtrInv'
  BY <1>0, <1>2 DEF queueSlot, TypeOK, CtrInv
<1>4. TokenInv'
  <2> SUFFICES ASSUME NEW i \in Ids
               PROVE  /\ i \notin Offered' => winner[i] = NoOne
                      /\ i \in Offered' /\ finished[i] = "no" => \E j \in Ctrs : ctrTok'[j] = i
                      /\ finished[i] # "no" => winner[i] \in Callers
                      /\ winner[i] \in Callers =>
                           /\ item[winner[i]] = i
                           /\ caller[winner[i]] \in {"remove", "trigger", "exec", "done"}
    BY DEF TokenInv, queueSlot, cvars
  <2>1. ASSUME i \in Offered', finished[i] = "no" PROVE \E j \in Ctrs : ctrTok'[j] = i
    <3>1. CASE i = nextId
      BY <3>1 DEF queueSlot, TypeOK
    <3>2. CASE i \in Offered
      <4>1. PICK j \in Ctrs : ctrTok[j] = i
        BY <2>1, <3>2 DEF TokenInv
      <4>2. j # k
        BY <1>0, <3>2, <4>1 DEF CtrInv, queueSlot
      <4> QED BY <4>1, <4>2 DEF queueSlot, TypeOK
    <3> QED BY <1>0, <2>1, <3>1, <3>2
  <2> QED BY <1>0, <2>1 DEF TokenInv
<1>5. CallerInv'
  BY <1>0 DEF queueSlot, CallerInv, cvars, dvars
<1> QED BY <1>1, <1>3, <1>4, <1>5

(* A container moves on without the token changing hands. *)
LEMMA CtrMovesInv ==
  ASSUME QueueInv, NEW k \in Ctrs, NEW p \in CtrPC, ctr' = [ctr EXCEPT ![k] = p],
         ctrTok[k] # None,
         \/ p \in {"select", "acquire"} /\ winner[ctrTok[k]] \notin Ctrs
         \/ p = "busy" /\ winner[ctrTok[k]] \in Callers
         \/ p \in {"trigger", "gone"} /\ winner[ctrTok[k]] = k,
         UNCHANGED <<nextId, winner, finished, ctrTok, cvars, dq, dqItem>>,
         slots' \in Seq(Offered), triggered' \subseteq Ids,
         condWait' \subseteq Callers, ctxDone' \subseteq Callers, armed' \subseteq Callers
  PROVE  QueueInv'
<1> USE DEF QueueInv, cvars
<1>1. TypeOK'
  BY DEF TypeOK, Offered
<1>2. Offered' = Offered
  BY DEF Offered
<1>3. CtrInv'
  BY <1>2 DEF CtrInv, TypeOK
<1>4. TokenInv' /\ CallerInv'
  BY <1>2 DEF TokenInv, CallerInv
<1> QED BY <1>1, <1>3, <1>4

(* The container wins the swap on its own token. *)
LEMMA CtrWinsInv ==
  ASSUME QueueInv, NEW k \in Ctrs, ctrAcquire(k), winner[ctrTok[k]] = NoOne
  PROVE  QueueInv'
<1> USE SlotQueueAssumption DEF QueueInv
<1> DEFINE t == ctrTok[k]
<1>0. /\ t \in Offered /\ t \in Ids /\ t # None /\ finished[t] = "no" /\ Offered' = Offered
      /\ winner' = [winner EXCEPT ![t] = k] /\ ctr' = [ctr EXCEPT ![k] = "remove"]
      /\ UNCHANGED <<slots, nextId, triggered, finished, ctrTok, caller, item,
                     dq, dqItem, condWait, ctxDone, armed>>
  BY DEF ctrAcquire, Swap, CtrInv, TokenInv, TypeOK, Offered, None, Ids, cvars, dvars
<1> HIDE DEF t
<1>1. TypeOK'
  BY <1>0 DEF TypeOK, CtrPC
<1>2. CtrInv'
  BY <1>0 DEF TypeOK, CtrInv, t
<1>3. TokenInv'
  BY <1>0 DEF TypeOK, TokenInv
<1>4. CallerInv'
  BY <1>0 DEF TypeOK, CallerInv, t
<1> QED BY <1>1, <1>2, <1>3, <1>4

LEMMA SlotDoneInv ==
  ASSUME QueueInv, NEW k \in Ctrs, slotDone(k)
  PROVE  QueueInv'
<1> USE SlotQueueAssumption DEF QueueInv
<1>0. UNCHANGED <<slots, nextId, winner, triggered, finished, caller, item,
                  dq, dqItem, condWait, ctxDone, armed>> /\ Offered' = Offered
  BY DEF slotDone, Offered, qvars, cvars, dvars
<1>1. TypeOK'
  BY <1>0 DEF slotDone, TypeOK, CtrPC
<1>2. CtrInv'
  BY <1>0 DEF slotDone, TypeOK, CtrInv
<1>3. TokenInv'
  <2>1. ASSUME NEW i \in Ids, i \in Offered, finished[i] = "no"
        PROVE  \E j \in Ctrs : ctrTok'[j] = i
    <3>1. PICK j \in Ctrs : ctrTok[j] = i
      BY <2>1 DEF TokenInv
    <3>2. j # k
      BY <2>1, <3>1 DEF slotDone
    <3> QED BY <3>1, <3>2 DEF slotDone, TypeOK
  <2> QED BY <1>0, <2>1 DEF TokenInv
<1>4. CallerInv'
  BY <1>0 DEF CallerInv
<1> QED BY <1>1, <1>2, <1>3, <1>4

LEMMA CtrStepInv ==
  ASSUME QueueInv, NEW k \in Ctrs, CtrStep(k)
  PROVE  QueueInv'
<1> USE DEF QueueInv, qvars, kvars, cvars, dvars, CtrPC
<1>1. slots \in Seq(Offered)
  BY DEF TypeOK, Offered
<1>2. CASE queueSlot(k)
  BY <1>2, QueueSlotInv
<1>3. CASE queueSlotBroadcast(k)
  <2>1. ctrTok[k] # None /\ winner[ctrTok[k]] \notin Ctrs
    BY <1>3, SlotQueueAssumption DEF queueSlotBroadcast, CtrInv
  <2> QED BY <1>1, <1>3, <2>1, CtrMovesInv DEF queueSlotBroadcast, TypeOK
<1>4. CASE runHotReqTriggered(k) \/ runHotReqLeave(k)
  <2>1. ctrTok[k] # None /\ winner[ctrTok[k]] \notin Ctrs
    BY <1>4, SlotQueueAssumption DEF runHotReqTriggered, runHotReqLeave, CtrInv
  <2> QED BY <1>1, <1>4, <2>1, CtrMovesInv DEF runHotReqTriggered, runHotReqLeave, TypeOK
<1>5. CASE ctrAcquire(k)
  <2>1. CASE winner[ctrTok[k]] = NoOne
    BY <1>5, <2>1, CtrWinsInv
  <2>2. CASE winner[ctrTok[k]] # NoOne
    <3>1. ctrTok[k] # None /\ ctrTok[k] \in Ids /\ winner[ctrTok[k]] \in Callers
      BY <1>5, <2>2, SMTT(30) DEF ctrAcquire, CtrInv, TypeOK, Offered, Ids
    <3> QED BY <1>1, <1>5, <2>2, <3>1, CtrMovesInv DEF ctrAcquire, Swap, TypeOK
  <2> QED BY <2>1, <2>2
<1>6. CASE ctrRemove(k)
  <2>1. ctrTok[k] # None /\ winner[ctrTok[k]] = k
    BY <1>6 DEF ctrRemove, CtrInv
  <2>2. slots' \in Seq(Offered)
    BY <1>6, RemoveTokenType DEF ctrRemove
  <2> QED BY <1>6, <2>1, <2>2, CtrMovesInv DEF ctrRemove, TypeOK
<1>7. CASE ctrTrigger(k)
  <2>1. ctrTok[k] # None /\ winner[ctrTok[k]] = k /\ ctrTok[k] \in Ids
    BY <1>7 DEF ctrTrigger, CtrInv, TypeOK
  <2> QED BY <1>1, <1>7, <2>1, CtrMovesInv DEF ctrTrigger, TypeOK
<1>8. CASE slotDone(k)
  BY <1>8, SlotDoneInv
<1> QED BY <1>2, <1>3, <1>4, <1>5, <1>6, <1>7, <1>8 DEF CtrStep

(* What a call's move without the swap leaves behind: the tokens keep their *)
(* winners, and the dequeuers have peeked at offered tokens.                *)
KeepsTokens ==
  /\ UNCHANGED <<nextId, winner, finished, ctr, ctrTok>>
  /\ slots' \in Seq(Offered) /\ triggered' \subseteq Ids
  /\ dq' \in [Callers -> DqPC] /\ dqItem' \in [Callers -> Ids \cup {None}]
  /\ \A d \in Callers : dq'[d] = "send" => dqItem'[d] \in Offered
  /\ condWait' \subseteq Callers /\ ctxDone' \subseteq Callers /\ armed' \subseteq Callers

(* Program counter p and token i go with what c has won. *)
MayHold(c, p, i) ==
  /\ p \in CallerPC \ {"remove"} /\ i \in Ids \cup {None}
  /\ p \in {"acquire", "trigger", "exec"} => i \in Offered
  /\ p \in {"trigger", "exec"} => winner[i] = c /\ finished[i] = "no"
  /\ \A o \in Ids : winner[o] = c => i = o /\ p \in {"trigger", "exec", "done"}

LEMMA CallerMovesInv ==
  ASSUME QueueInv, NEW c \in Callers, NEW p, NEW i, MayHold(c, p, i),
         caller' = [caller EXCEPT ![c] = p], item' = [item EXCEPT ![c] = i], KeepsTokens
  PROVE  QueueInv'
<1> USE DEF QueueInv, KeepsTokens, MayHold
<1>0. Offered' = Offered
  BY DEF Offered
<1>1. TypeOK'
  BY DEF TypeOK, Offered
<1>2. CtrInv'
  BY <1>0 DEF CtrInv
<1>3. TokenInv'
  BY <1>0 DEF TokenInv, TypeOK
<1>4. CallerInv'
  BY <1>0 DEF CallerInv, TypeOK
<1> QED BY <1>1, <1>2, <1>3, <1>4

(* The call wins the swap. *)
LEMMA CallerWinsInv ==
  ASSUME QueueInv, NEW c \in Callers, waitHotAcquire(c), winner[item[c]] = NoOne
  PROVE  QueueInv'
<1> USE SlotQueueAssumption DEF QueueInv
<1> DEFINE t == item[c]
<1>0. /\ t \in Offered /\ t \in Ids /\ finished[t] = "no" /\ Offered' = Offered
      /\ winner' = [winner EXCEPT ![t] = c] /\ caller' = [caller EXCEPT ![c] = "remove"]
      /\ caller[c] = "acquire" /\ winner[t] = NoOne /\ c \notin Ctrs
      /\ UNCHANGED <<slots, nextId, triggered, finished, ctr, ctrTok, item,
                     dq, dqItem, condWait, ctxDone, armed>>
  BY DEF waitHotAcquire, Swap, CallerInv, TokenInv, TypeOK, Offered, Ids, kvars, dvars
<1> HIDE DEF t
<1>1. TypeOK'
  BY <1>0 DEF TypeOK, CallerPC
<1>2. CtrInv'
  BY <1>0 DEF TypeOK, CtrInv
<1>3. TokenInv'
  BY <1>0 DEF TypeOK, TokenInv, t
<1>4. CallerInv'
  BY <1>0 DEF TypeOK, CallerInv, t
<1> QED BY <1>1, <1>2, <1>3, <1>4

(* The call ends: its container, which still holds the token, is free to    *)
(* drop it.                                                                 *)
LEMMA ExecDoneInv ==
  ASSUME QueueInv, NEW c \in Callers, execDone(c)
  PROVE  QueueInv'
<1> USE SlotQueueAssumption DEF QueueInv
<1> DEFINE t == item[c]
<1>0. /\ t \in Offered /\ t \in Ids /\ winner[t] = c /\ Offered' = Offered
      /\ caller' = [caller EXCEPT ![c] = "done"] /\ caller[c] = "exec"
      /\ UNCHANGED <<slots, nextId, winner, triggered, ctr, ctrTok, item,
                     dq, dqItem, condWait, ctxDone, armed>>
  BY DEF execDone, CallerInv, TypeOK, Offered, Ids, kvars, dvars
<1>1. PICK res \in {"ok", "err"} : finished' = [finished EXCEPT ![t] = res]
  BY DEF execDone
<1> HIDE DEF t
<1>2. TypeOK'
  BY <1>0, <1>1 DEF TypeOK, CallerPC
<1>3. CtrInv'
  BY <1>0 DEF CtrInv
<1>4. TokenInv'
  BY <1>0, <1>1 DEF TypeOK, TokenInv, t
<1>5. CallerInv'
  BY <1>0, <1>1 DEF TypeOK, CallerInv, t
<1> QED BY <1>2, <1>3, <1>4, <1>5
LEMMA CallerStepInv ==
  ASSUME QueueInv, NEW c \in Callers, CallerStep(c)
  PROVE  QueueInv'
<1>0. TypeOK /\ TokenInv /\ CallerInv
  BY DEF QueueInv
<1>1. /\ slots \in Seq(Offered) /\ Offered \subseteq Ids
      /\ item = [item EXCEPT ![c] = item[c]] /\ item[c] \in Ids \cup {None}
      /\ \A d \in Callers : dq[d] = "send" => dqItem[d] \in Offered
  BY <1>0, SlotQueueAssumption DEF TypeOK, Offered, Ids, CallerInv
<1>2. ASSUME caller[c] \in {"idle", "wait", "acquire"} PROVE \A o \in Ids : winner[o] # c
  BY <1>0, <1>2 DEF TokenInv
<1>3. ASSUME caller[c] \in {"remove", "trigger", "exec"}
      PROVE  /\ item[c] \in Offered /\ winner[item[c]] = c /\ finished[item[c]] = "no"
             /\ \A o \in Ids : winner[o] = c => item[c] = o
  BY <1>0, <1>3 DEF TokenInv, CallerInv
<1>4. CASE startDequeuer(c)
  <2>1. caller' = [caller EXCEPT ![c] = "wait"] /\ item' = [item EXCEPT ![c] = item[c]]
    BY <1>0, <1>1, <1>4 DEF startDequeuer, cvars
  <2>2. KeepsTokens
    BY <1>0, <1>1, <1>4
       DEF startDequeuer, KeepsTokens, TypeOK, qvars, kvars, dvars, DqPC, CallerInv
  <2>3. MayHold(c, "wait", item[c])
    BY <1>1, <1>2, <1>4 DEF startDequeuer, MayHold, CallerPC
  <2> QED BY <2>1, <2>2, <2>3, CallerMovesInv
<1>5. CASE waitHotReceive(c)
  <2>1. caller' = [caller EXCEPT ![c] = "acquire"] /\ item' = [item EXCEPT ![c] = dqItem[c]]
    BY <1>0, <1>1, <1>5 DEF waitHotReceive, cvars
  <2>2. KeepsTokens
    BY <1>0, <1>1, <1>5
       DEF waitHotReceive, KeepsTokens, TypeOK, qvars, kvars, dvars, DqPC, CallerInv
  <2>3. MayHold(c, "acquire", dqItem[c])
    BY <1>1, <1>2, <1>5 DEF waitHotReceive, MayHold, CallerPC
  <2> QED BY <2>1, <2>2, <2>3, CallerMovesInv
<1>6. CASE waitHotAcquire(c)
  <2>1. CASE winner[item[c]] = NoOne
    BY <1>6, <2>1, CallerWinsInv
  <2>2. CASE winner[item[c]] # NoOne
    <3>1. caller' = [caller EXCEPT ![c] = "wait"] /\ item' = [item EXCEPT ![c] = None]
      BY <1>6, <2>2 DEF waitHotAcquire, Swap
    <3>2. KeepsTokens
      BY <1>0, <1>1, <1>6, <2>2 DEF waitHotAcquire, Swap, KeepsTokens, TypeOK, kvars, dvars
    <3>3. MayHold(c, "wait", None)
      BY <1>2, <1>6 DEF waitHotAcquire, MayHold, CallerPC
    <3> QED BY <3>1, <3>2, <3>3, CallerMovesInv
  <2> QED BY <2>1, <2>2
<1>7. CASE waitHotRemove(c)
  <2>1. caller' = [caller EXCEPT ![c] = "trigger"] /\ item' = [item EXCEPT ![c] = item[c]]
    BY <1>0, <1>1, <1>7 DEF waitHotRemove, cvars
  <2>2. KeepsTokens
    BY <1>0, <1>1, <1>7, RemoveTokenType DEF waitHotRemove, KeepsTokens, TypeOK, kvars, dvars
  <2>3. MayHold(c, "trigger", item[c])
    BY <1>1, <1>3, <1>7 DEF waitHotRemove, MayHold, CallerPC
  <2> QED BY <2>1, <2>2, <2>3, CallerMovesInv
<1>8. CASE waitHotTrigger(c)
  <2>1. caller' = [caller EXCEPT ![c] = "exec"] /\ item' = [item EXCEPT ![c] = item[c]]
    BY <1>0, <1>1, <1>8 DEF waitHotTrigger, cvars
  <2>2. KeepsTokens
    BY <1>0, <1>1, <1>3, <1>8
       DEF waitHotTrigger, KeepsTokens, TypeOK, qvars, kvars, dvars, DqPC, CallerInv
  <2>3. MayHold(c, "exec", item[c])
    BY <1>1, <1>3, <1>8 DEF waitHotTrigger, MayHold, CallerPC
  <2> QED BY <2>1, <2>2, <2>3, CallerMovesInv
<1>9. CASE waitHotLeave(c)
  <2>1. caller' = [caller EXCEPT ![c] = "done"] /\ item' = [item EXCEPT ![c] = item[c]]
    BY <1>0, <1>1, <1>9 DEF waitHotLeave, cvars
  <2>2. KeepsTokens
    BY <1>0, <1>1, <1>9
       DEF waitHotLeave, KeepsTokens, TypeOK, qvars, kvars, dvars, DqPC, CallerInv
  <2>3. MayHold(c, "done", item[c])
    BY <1>1, <1>2, <1>9 DEF waitHotLeave, MayHold, CallerPC
  <2> QED BY <2>1, <2>2, <2>3, CallerMovesInv
<1>10. CASE execDone(c)
  BY <1>10, ExecDoneInv
<1> QED BY <1>4, <1>5, <1>6, <1>7, <1>8, <1>9, <1>10 DEF CallerStep

(* The dequeuers touch nothing but what they have peeked at. *)
LEMMA DequeuerStepInv ==
  ASSUME QueueInv, NEW c \in Callers, DequeuerStep(c)
  PROVE  QueueInv'
<1> USE DEF QueueInv, qvars, kvars, cvars, dvars, DqPC
<1>1. /\ UNCHANGED <<slots, nextId, winner, triggered, finished, ctr, ctrTok,
                     caller, item, ctxDone>>
      /\ Offered' = Offered
  BY DEF DequeuerStep, dequeue, dequeueAgain, dequeueWatcher, Offered
<1>2. slots # <<>> => Last(slots) \in Offered /\ Last(slots) \in Ids
  BY SlotQueueAssumption DEF TypeOK, Last, Offered, Ids
<1>3. /\ dq' \in [Callers -> DqPC] /\ dqItem' \in [Callers -> Ids \cup {None}]
      /\ condWait' \subseteq Callers /\ armed' \subseteq Callers
      /\ \A d \in Callers : dq'[d] = "send" => dqItem'[d] \in Offered
  <2>1. CASE dequeue(c)
    <3>1. CASE c \in ctxDone \/ slots = <<>>
      BY <2>1, <3>1 DEF dequeue, TypeOK, CallerInv
    <3>2. CASE c \notin ctxDone /\ slots # <<>>
      <4>1. /\ dq' = [dq EXCEPT ![c] = "send"] /\ UNCHANGED <<condWait, armed>>
            /\ dqItem' = [dqItem EXCEPT ![c] = Last(slots)]
        BY <2>1, <3>2 DEF dequeue
      <4> QED BY <1>2, <3>2, <4>1 DEF TypeOK, CallerInv
    <3> QED BY <3>1, <3>2
  <2>2. CASE dequeueAgain(c) \/ dequeueWatcher(c)
    BY <2>2, SMTT(30) DEF dequeueAgain, dequeueWatcher, TypeOK, CallerInv
  <2> QED BY <2>1, <2>2 DEF DequeuerStep
<1>4. TypeOK'
  BY <1>1, <1>3 DEF TypeOK
<1>5. CtrInv' /\ TokenInv' /\ CallerInv'
  BY <1>1, <1>3 DEF CtrInv, TokenInv, CallerInv
<1> QED BY <1>4, <1>5

LEMMA QueueInvNext == QueueInv /\ [Next]_vars => QueueInv'
<1> SUFFICES ASSUME QueueInv, [Next]_vars PROVE QueueInv'
  OBVIOUS
<1>1. CASE UNCHANGED vars
  BY <1>1 DEF QueueInv, TypeOK, CtrInv, TokenInv, CallerInv, Offered,
              vars, qvars, kvars, cvars, dvars
<1> QED BY <1>1, CtrStepInv, CallerStepInv, DequeuerStepInv DEF Next

(* Program counters, tokens and the list stay in range, and the token a     *)
(* dequeuer, a call or a container works on was always offered.             *)
THEOREM SlotQueueTyped == Spec => [](TypeOK /\ CtrInv /\ TokenInv /\ CallerInv)
<1>1. QueueInv <=> TypeOK /\ CtrInv /\ TokenInv /\ CallerInv
  BY DEF QueueInv
<1> QED BY <1>1, QueueInvInit, QueueInvNext, PTL DEF Spec

-----------------------------------------------------------------------------
(* The refinement.                                                         *)
Served == [k \in Ctrs |-> Serving(k)]

(* What Serving says under the invariant, container by container. *)
ServingIs ==
  \A k \in Ctrs :
    /\ ctr[k] = "ready" => Serving(k) = "ready"
    /\ ctr[k] \in {"gone", "remove", "trigger"} => Serving(k) = "gone"
    /\ ctr[k] \in {"bcast", "select", "acquire", "busy"} =>
         /\ ctrTok[k] \in Offered /\ winner[ctrTok[k]] \in Callers \cup {NoOne}
         /\ Serving(k) = IF winner[ctrTok[k]] = NoOne THEN "free"
                         ELSE IF finished[ctrTok[k]] # "no" THEN "over"
                         ELSE winner[ctrTok[k]]

LEMMA ServingCases == QueueInv => ServingIs
<1> SUFFICES ASSUME QueueInv, NEW k \in Ctrs
             PROVE  /\ ctr[k] = "ready" => Serving(k) = "ready"
                    /\ ctr[k] \in {"gone", "remove", "trigger"} => Serving(k) = "gone"
                    /\ ctr[k] \in {"bcast", "select", "acquire", "busy"} =>
                         /\ ctrTok[k] \in Offered /\ winner[ctrTok[k]] \in Callers \cup {NoOne}
                         /\ Serving(k) = IF winner[ctrTok[k]] = NoOne THEN "free"
                                         ELSE IF finished[ctrTok[k]] # "no" THEN "over"
                                         ELSE winner[ctrTok[k]]
  BY DEF ServingIs
<1>1. ASSUME ctr[k] = "ready" PROVE Serving(k) = "ready"
  BY <1>1 DEF Serving
<1>2. ASSUME ctr[k] = "gone" PROVE Serving(k) = "gone"
  BY <1>2 DEF Serving
<1>3. ASSUME ctr[k] \in {"remove", "trigger"} PROVE Serving(k) = "gone"
  <2>1. winner[ctrTok[k]] = k /\ winner[ctrTok[k]] # NoOne
    BY <1>3, SlotQueueAssumption DEF QueueInv, CtrInv
  <2> QED BY <1>3, <2>1 DEF Serving
<1>4. ASSUME ctr[k] \in {"bcast", "select", "acquire", "busy"}
      PROVE  /\ ctrTok[k] \in Offered /\ winner[ctrTok[k]] \in Callers \cup {NoOne}
             /\ Serving(k) = IF winner[ctrTok[k]] = NoOne THEN "free"
                             ELSE IF finished[ctrTok[k]] # "no" THEN "over"
                             ELSE winner[ctrTok[k]]
  <2>1. ctrTok[k] \in Offered /\ ctrTok[k] \in Ids /\ winner[ctrTok[k]] \notin Ctrs
    BY <1>4, SlotQueueAssumption, SMTT(30) DEF QueueInv, CtrInv, TypeOK, Offered, Ids
  <2>2. winner[ctrTok[k]] \in Callers \cup {NoOne}
    BY <2>1 DEF QueueInv, TypeOK
  <2> QED BY <1>4, <2>1, <2>2 DEF Serving
<1> QED BY <1>1, <1>2, <1>3, <1>4

LEMMA ServingCasesNext == QueueInv' => ServingIs'
BY ServingCases, PTL

(* One container's value changes and the others' stay. *)
LEMMA ServedMoves ==
  ASSUME NEW k \in Ctrs, NEW v, Serving(k)' = v,
         \A j \in Ctrs \ {k} : Serving(j)' = Serving(j)
  PROVE  Served' = [Served EXCEPT ![k] = v]
BY DEF Served

(* A container's step offers its slot, withdraws it, or answers the end of  *)
(* a call; everything else it does changes no hand-out.                     *)
LEMMA CtrStepServes ==
  ASSUME QueueInv, QueueInv', NEW k \in Ctrs, CtrStep(k)
  PROVE  Served' = Served \/ Handout!Next
<1>0. ServingIs /\ ServingIs'
  BY ServingCases, ServingCasesNext
<1>1. \A j \in Ctrs \ {k} : ctr'[j] = ctr[j] /\ ctrTok'[j] = ctrTok[j]
  BY DEF QueueInv, TypeOK, CtrStep, queueSlot, queueSlotBroadcast, runHotReqTriggered,
         runHotReqLeave, ctrAcquire, ctrRemove, ctrTrigger, slotDone
<1>2. finished' = finished
  BY DEF CtrStep, queueSlot, queueSlotBroadcast, runHotReqTriggered, runHotReqLeave,
         ctrAcquire, ctrRemove, ctrTrigger, slotDone, qvars
<1>3. ASSUME winner' = winner PROVE \A j \in Ctrs \ {k} : Serving(j)' = Serving(j)
  BY <1>1, <1>2, <1>3 DEF Serving
<1>4. CASE queueSlot(k)
  <2>1. /\ ctr[k] = "ready" /\ ctr'[k] = "bcast" /\ ctrTok'[k] = nextId /\ winner' = winner
        /\ nextId \in Ids /\ nextId \notin Offered
    BY <1>4, SlotQueueAssumption DEF queueSlot, QueueInv, TypeOK, Ids, Offered
  <2>2. winner[nextId] = NoOne
    BY <2>1 DEF QueueInv, TokenInv
  <2>3. Serving(k) = "ready"
    BY <1>0, <2>1 DEF ServingIs
  <2>4. Serving(k)' = "free"
    BY <2>1, <2>2, SlotQueueAssumption DEF Serving
  <2>5. Served' = [Served EXCEPT ![k] = "free"]
    BY <1>3, <2>1, <2>4, ServedMoves
  <2> QED BY <2>3, <2>5 DEF Handout!Next, Handout!Offer, Served
<1>5. CASE \/ queueSlotBroadcast(k) \/ runHotReqTriggered(k) \/ runHotReqLeave(k)
           \/ (ctrAcquire(k) /\ winner[ctrTok[k]] # NoOne)
  <2>1. /\ ctr[k] \in {"bcast", "select", "acquire"}
        /\ ctr'[k] \in {"select", "acquire", "busy"} /\ UNCHANGED <<ctrTok, winner>>
    <3>1. ctr \in [Ctrs -> CtrPC]
      BY DEF QueueInv, TypeOK
    <3>2. CASE ctrAcquire(k) /\ winner[ctrTok[k]] # NoOne
      BY <3>1, <3>2 DEF ctrAcquire, Swap
    <3>3. CASE queueSlotBroadcast(k) \/ runHotReqTriggered(k) \/ runHotReqLeave(k)
      BY <3>1, <3>3 DEF queueSlotBroadcast, runHotReqTriggered, runHotReqLeave, qvars
    <3> QED BY <1>5, <3>2, <3>3
  <2>2. Serving(k)' = Serving(k)
    BY <1>2, <2>1 DEF Serving
  <2> QED BY <1>3, <2>1, <2>2 DEF Served
<1>6. CASE ctrRemove(k) \/ ctrTrigger(k)
  <2>1. /\ ctr[k] \in {"remove", "trigger"} /\ ctr'[k] \in {"trigger", "gone"}
        /\ winner' = winner
    BY <1>6 DEF ctrRemove, ctrTrigger, QueueInv, TypeOK
  <2>2. Serving(k) = "gone" /\ Serving(k)' = "gone"
    BY <1>0, <2>1 DEF ServingIs
  <2> QED BY <1>3, <2>1, <2>2 DEF Served
<1>7. CASE ctrAcquire(k) /\ winner[ctrTok[k]] = NoOne
  <2>1. /\ ctr[k] = "acquire" /\ ctr'[k] = "remove" /\ UNCHANGED ctrTok
        /\ winner' = [winner EXCEPT ![ctrTok[k]] = k]
    BY <1>7 DEF ctrAcquire, Swap, QueueInv, TypeOK
  <2>2. Serving(k) = "free" /\ Serving(k)' = "gone"
    BY <1>0, <1>7, <2>1 DEF ServingIs
  <2>3. ASSUME NEW j \in Ctrs \ {k} PROVE Serving(j)' = Serving(j)
    <3>1. CASE ctr[j] \in {"ready", "gone", "remove", "trigger"}
      BY <1>0, <1>1, <3>1 DEF ServingIs
    <3>2. CASE ctr[j] \in {"bcast", "select", "acquire", "busy"}
      <4>1. ctrTok[j] # ctrTok[k] /\ ctrTok[j] \in Ids /\ ctrTok[k] \in Ids
        BY <2>1, <3>2 DEF QueueInv, CtrInv, TypeOK
      <4>2. winner'[ctrTok[j]] = winner[ctrTok[j]]
        BY <2>1, <4>1 DEF QueueInv, TypeOK
      <4> QED BY <1>1, <1>2, <4>2 DEF Serving
    <3> QED BY <3>1, <3>2 DEF QueueInv, TypeOK, CtrPC
  <2>4. Served' = [Served EXCEPT ![k] = "gone"]
    BY <2>2, <2>3, ServedMoves
  <2> QED BY <2>2, <2>4 DEF Handout!Next, Handout!Withdraw, Served
<1>8. CASE slotDone(k)
  <2>1. /\ ctr[k] = "busy" /\ ctr'[k] \in {"ready", "gone"} /\ winner' = winner
        /\ finished[ctrTok[k]] # "no"
    BY <1>8 DEF slotDone, QueueInv, TypeOK, qvars
  <2>2. winner[ctrTok[k]] # NoOne
    BY <2>1, SlotQueueAssumption DEF QueueInv, CtrInv
  <2>3. Serving(k) = "over" /\ Serving(k)' = ctr'[k]
    BY <1>0, <2>1, <2>2 DEF ServingIs
  <2>4. Served' = [Served EXCEPT ![k] = ctr'[k]]
    BY <1>3, <2>1, <2>3, ServedMoves
  <2> QED BY <2>1, <2>3, <2>4 DEF Handout!Next, Handout!Rejoin, Handout!Stop, Served
<1> QED BY <1>4, <1>5, <1>6, <1>7, <1>8 DEF CtrStep

(* A call's step takes a free slot, once, or ends the call it serves.       *)
LEMMA CallerStepServes ==
  ASSUME QueueInv, QueueInv', NEW c \in Callers, CallerStep(c)
  PROVE  Served' = Served \/ Handout!Next
<1>0. ServingIs /\ ServingIs'
  BY ServingCases, ServingCasesNext
<1>1. UNCHANGED <<ctr, ctrTok>>
  BY DEF CallerStep, startDequeuer, waitHotReceive, waitHotAcquire, waitHotRemove,
         waitHotTrigger, waitHotLeave, execDone, kvars
<1>2. ASSUME UNCHANGED <<winner, finished>> PROVE Served' = Served
  BY <1>1, <1>2 DEF Served, Serving
<1> DEFINE t == item[c]
<1>3. ASSUME t \in Ids, NEW k \in Ctrs, ctrTok[k] = t, NEW w, NEW f,
             winner' = [winner EXCEPT ![t] = w], finished' = [finished EXCEPT ![t] = f]
      PROVE  \A j \in Ctrs \ {k} : Serving(j)' = Serving(j)
  <2> SUFFICES ASSUME NEW j \in Ctrs \ {k} PROVE Serving(j)' = Serving(j)
    OBVIOUS
  <2>1. CASE ctr[j] \in {"ready", "gone", "remove", "trigger"}
    BY <1>0, <1>1, <2>1 DEF ServingIs
  <2>2. CASE ctr[j] \in {"bcast", "select", "acquire", "busy"}
    <3>1. ctrTok[j] # t /\ ctrTok[j] \in Ids
      BY <1>3, <2>2, SMTT(30) DEF QueueInv, CtrInv, TypeOK
    <3>2. winner'[ctrTok[j]] = winner[ctrTok[j]] /\ finished'[ctrTok[j]] = finished[ctrTok[j]]
      BY <1>3, <3>1 DEF QueueInv, TypeOK
    <3> QED BY <1>1, <3>2 DEF Serving
  <2> QED BY <2>1, <2>2 DEF QueueInv, TypeOK, CtrPC
<1>4. CASE waitHotAcquire(c) /\ winner[t] = NoOne
  <2>1. /\ t \in Offered /\ t \in Ids /\ caller[c] = "acquire" /\ finished[t] = "no"
        /\ winner' = [winner EXCEPT ![t] = c] /\ finished' = [finished EXCEPT ![t] = "no"]
    BY <1>4, SlotQueueAssumption
       DEF waitHotAcquire, Swap, QueueInv, TypeOK, CallerInv, TokenInv, Offered, Ids
  <2>2. PICK k \in Ctrs : ctrTok[k] = t
    BY <2>1 DEF QueueInv, TokenInv
  <2>3. ctr[k] \in {"bcast", "select", "acquire"}
    BY <1>4, <2>1, <2>2, SlotQueueAssumption DEF QueueInv, CtrInv, None, Ids
  <2>4. Serving(k) = "free"
    BY <1>0, <1>4, <2>2, <2>3 DEF ServingIs
  <2>5. winner'[t] = c /\ finished'[t] = "no" /\ c # NoOne
    BY <2>1, SlotQueueAssumption DEF QueueInv, TypeOK
  <2>6. Serving(k)' = c
    BY <1>0, <1>1, <2>2, <2>3, <2>5 DEF ServingIs
  <2>7. Served' = [Served EXCEPT ![k] = c]
    BY <1>3, <2>1, <2>2, <2>6, ServedMoves
  <2>8. ASSUME NEW j \in Ctrs PROVE Serving(j) # c
    <3>1. \A i \in Ids : winner[i] # c
      BY <2>1 DEF QueueInv, TokenInv
    <3>2. Offered \subseteq Ids /\ c \notin {"ready", "free", "over", "gone"}
      BY SlotQueueAssumption DEF QueueInv, TypeOK, Offered, Ids
    <3> QED BY <1>0, <3>1, <3>2, SMTT(30) DEF ServingIs, QueueInv, TypeOK, CtrPC
  <2> QED BY <2>4, <2>7, <2>8 DEF Handout!Next, Handout!Take, Served
<1>5. CASE execDone(c)
  <2>1. /\ t \in Offered /\ t \in Ids /\ winner[t] = c /\ finished[t] = "no"
        /\ c # NoOne /\ c \notin Ctrs
        /\ winner' = [winner EXCEPT ![t] = c]
    BY <1>5, SlotQueueAssumption DEF execDone, QueueInv, TypeOK, CallerInv, Offered, Ids
  <2>2. PICK res \in {"ok", "err"} : finished' = [finished EXCEPT ![t] = res]
    BY <1>5 DEF execDone
  <2>3. PICK k \in Ctrs : ctrTok[k] = t
    BY <2>1 DEF QueueInv, TokenInv
  <2>4. ctr[k] \in {"bcast", "select", "acquire", "busy"}
    BY <2>1, <2>3, SlotQueueAssumption DEF QueueInv, CtrInv, None, Ids
  <2>5. Serving(k) = c
    BY <1>0, <2>1, <2>3, <2>4 DEF ServingIs
  <2>6. winner'[t] = c /\ finished'[t] # "no"
    BY <2>1, <2>2 DEF QueueInv, TypeOK
  <2>7. Serving(k)' = "over"
    BY <1>0, <1>1, <2>1, <2>3, <2>4, <2>6 DEF ServingIs
  <2>8. Served' = [Served EXCEPT ![k] = "over"]
    BY <1>3, <2>1, <2>2, <2>3, <2>7, ServedMoves
  <2> QED BY <2>5, <2>8 DEF Handout!Next, Handout!Finish, Served
<1>6. CASE ~execDone(c) /\ ~(waitHotAcquire(c) /\ winner[t] = NoOne)
  BY <1>2, <1>6 DEF CallerStep, startDequeuer, waitHotReceive, waitHotAcquire, Swap,
                    waitHotRemove, waitHotTrigger, waitHotLeave, qvars
<1> QED BY <1>4, <1>5, <1>6

(* The queue implements the hand-out it promises: a slot goes to one call   *)
(* or back to its container, never to both, and a container offers again    *)
(* only after that call is over.                                            *)
THEOREM SlotQueueRefines == Spec => ImplementsHandout
<1>1. Init => Handout!Init
  BY DEF Init, Handout!Init, Serving
<1>2. QueueInv /\ QueueInv' /\ [Next]_vars => Served' = Served \/ Handout!Next
  <2> SUFFICES ASSUME QueueInv, QueueInv', [Next]_vars PROVE Served' = Served \/ Handout!Next
    OBVIOUS
  <2>1. ASSUME NEW c \in Callers, DequeuerStep(c) PROVE Served' = Served
    BY <2>1 DEF DequeuerStep, dequeue, dequeueAgain, dequeueWatcher, qvars, kvars, Served, Serving
  <2>2. CASE UNCHANGED vars
    BY <2>2 DEF vars, qvars, kvars, Served, Serving
  <2> QED BY <2>1, <2>2, CtrStepServes, CallerStepServes DEF Next
<1>3. QueueInv /\ QueueInv' /\ [Next]_vars => [Handout!Next]_Served
  BY <1>2
<1> QED BY <1>1, <1>3, QueueInvInit, QueueInvNext, PTL
        DEF Spec, ImplementsHandout, Handout!Spec, Served
=============================================================================
