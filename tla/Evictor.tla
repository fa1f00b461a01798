------------------------------- MODULE Evictor -------------------------------
(***************************************************************************)
(* evictor (api/agent/evictor.go) and the life of a container's EvictToken *)
(* (EnableEviction, DisableEviction, Close and runHotReq in                *)
(* api/agent/agent.go).  A starved hotLauncher calls PerformEviction to    *)
(* ask idle containers of other slot queues to leave; it is given their    *)
(* DoneChans and waits for them.                                           *)
(*                                                                         *)
(* Sections under e.lock are one action, atomic loads and stores and the   *)
(* closing of a channel outside the lock are actions of their own.  Ids    *)
(* are handed out in the order of creation, so the slice e.slots, which is *)
(* only appended to and cut, is the set of its ids in increasing order.    *)
(***************************************************************************)
EXTENDS Naturals, FiniteSets, FiniteSetsExt, Functions

CONSTANTS
  Ctrs,        \* hot containers
  SlotOf,      \* [Ctrs -> slot queue key]
  Mem, Cpu,    \* [Ctrs -> Nat], memory + tmpfs and CPU of a container
  Starved,     \* launchers that may be short of resources
  Needs,       \* possible needs: [slot, mem, cpu]
  MaxTokens    \* bound on the number of tokens ever created

ASSUME EvictorAssumption ==
  /\ Mem \in [Ctrs -> Nat] /\ Cpu \in [Ctrs -> Nat]
  /\ \A n \in Needs : n.mem \in Nat /\ n.cpu \in Nat
  /\ MaxTokens \in Nat

VARIABLES
  slots,       \* ids in evictor.slots
  tokens,      \* ids in evictor.tokens
  nextId,      \* next id to hand out
  owner,       \* [ids -> the container the token was created for]
  evictable,   \* ids with EvictToken.evictable = 1
  chanC,       \* ids whose channel C is closed (evicted)
  chanDone,    \* ids whose DoneChan is closed
  ctr,         \* program counter of each container
  tok,         \* container.evictToken, or None
  starved,     \* program counter of each launcher
  toClose,     \* ids removed by its PerformEviction, C not yet closed
  waits,       \* ids whose DoneChans it was given
  want         \* the need it stated

evars == <<slots, tokens, nextId, owner, evictable, chanC, chanDone>>
kvars == <<ctr, tok>>
svars == <<starved, toClose, waits, want>>
vars  == <<evars, kvars, svars>>

Ids == 1..MaxTokens
None == 0
CtrPC == {"starting", "idle", "check", "refresh", "recreate",
          "busy", "closing", "gone"}
NoWant == [slot |-> None, mem |-> 0, cpu |-> 0]

Init ==
  /\ slots = {} /\ tokens = {} /\ nextId = 1
  /\ owner = [i \in Ids |-> None]
  /\ evictable = {} /\ chanC = {} /\ chanDone = {}
  /\ ctr = [k \in Ctrs |-> "starting"] /\ tok = [k \in Ctrs |-> None]
  /\ starved = [s \in Starved |-> "idle"]
  /\ toClose = [s \in Starved |-> {}]
  /\ waits = [s \in Starved |-> {}]
  /\ want = [s \in Starved |-> NoWant]

-----------------------------------------------------------------------------
(* The evictor's operations on tokens. *)

\* if no resource limits are in place, the token is never registered
isEligible(k) == Mem[k] # 0 \/ Cpu[k] # 0

CreateEvictToken(k) ==
  /\ nextId <= MaxTokens
  /\ nextId' = nextId + 1
  /\ owner' = [owner EXCEPT ![nextId] = k]
  /\ tok' = [tok EXCEPT ![k] = nextId]
  /\ slots' = IF isEligible(k) THEN slots \cup {nextId} ELSE slots
  /\ tokens' = IF isEligible(k) THEN tokens \cup {nextId} ELSE tokens

\* mutant: DoneChan is not closed
DeleteSilently(k) ==
  IF isEligible(k)
  THEN /\ slots' = slots \ {tok[k]} /\ tokens' = tokens \ {tok[k]}
       /\ UNCHANGED chanDone
  ELSE UNCHANGED <<slots, tokens, chanDone>>

DeleteEvictToken(k) ==
  IF isEligible(k)
  THEN /\ slots' = slots \ {tok[k]}
       /\ tokens' = tokens \ {tok[k]}
       /\ chanDone' = chanDone \cup {tok[k]}
  ELSE UNCHANGED <<slots, tokens, chanDone>>

-----------------------------------------------------------------------------
(* A container's turn (runHotReq and the main loop of runHot). *)

\* EnableEviction, for the first time or after a call.
EnableEviction(k) ==
  /\ \/ ctr[k] = "starting" /\ CreateEvictToken(k)
     \/ ctr[k] = "busy" /\ UNCHANGED <<slots, tokens, nextId, owner, tok>>
  /\ ctr' = [ctr EXCEPT ![k] = "idle"]
  /\ evictable' = evictable \cup {tok'[k]}
  /\ UNCHANGED <<chanC, chanDone, svars>>

\* A call has acquired the slot: DisableEviction stores 0 in evictable ...
DisableEviction(k) ==
  /\ ctr[k] = "idle"
  /\ ctr' = [ctr EXCEPT ![k] = "check"]
  /\ evictable' = evictable \ {tok[k]}
  /\ UNCHANGED <<slots, tokens, nextId, owner, chanC, chanDone, tok, svars>>

\* ... looks whether the eviction came first ...
DisableEvictionCheck(k) ==
  /\ ctr[k] = "check"
  /\ ctr' = [ctr EXCEPT ![k] = IF tok[k] \in chanC THEN "refresh" ELSE "busy"]
  /\ UNCHANGED <<evars, tok, svars>>

\* ... and if so replaces the evicted token by a fresh one.
RefreshDelete(k) ==
  /\ ctr[k] = "refresh"
  /\ DeleteEvictToken(k)
  /\ ctr' = [ctr EXCEPT ![k] = "recreate"]
  /\ UNCHANGED <<nextId, owner, evictable, chanC, tok, svars>>

RefreshKeeps(k) ==          \* mutant: the deleted token is kept
  /\ ctr[k] = "recreate"
  /\ ctr' = [ctr EXCEPT ![k] = "busy"]
  /\ UNCHANGED <<evars, tok, svars>>

RefreshCreate(k) ==
  /\ ctr[k] = "recreate"
  /\ CreateEvictToken(k)
  /\ ctr' = [ctr EXCEPT ![k] = "busy"]
  /\ UNCHANGED <<evictable, chanC, chanDone, svars>>

\* The select sees the eviction, and the container wins its own slot.
LeaveEvicted(k) ==
  /\ ctr[k] = "idle" /\ tok[k] \in chanC
  /\ ctr' = [ctr EXCEPT ![k] = "closing"]
  /\ UNCHANGED <<evars, tok, svars>>

\* Idle timeout, shutdown, the end of a failed call, a failed start.
LeaveOther(k) ==
  /\ ctr[k] \in {"starting", "idle", "busy"}
  /\ ctr' = [ctr EXCEPT ![k] = IF tok[k] = None THEN "gone" ELSE "closing"]
  /\ UNCHANGED <<evars, tok, svars>>

\* container.Close
CtrClose(k) ==
  /\ ctr[k] = "closing"
  /\ DeleteEvictToken(k)
  /\ tok' = [tok EXCEPT ![k] = None]
  /\ ctr' = [ctr EXCEPT ![k] = "gone"]
  /\ UNCHANGED <<nextId, owner, evictable, chanC, svars>>

-----------------------------------------------------------------------------
(* PerformEviction. *)

SumMem(S) == SumFunctionOnSet([i \in S |-> Mem[owner[i]]], S)
SumCpu(S) == SumFunctionOnSet([i \in S |-> Cpu[owner[i]]], S)
Satisfies(S, n) == SumMem(S) >= n.mem /\ SumCpu(S) >= n.cpu

\* mutant: the caller's own queue is not spared
CandidatesOfAll(n) == {i \in slots : i \in evictable}

\* Registered, of another queue, evictable.  The scan loads the flags one by
\* one; a load commutes with the steps of other containers, so they are read
\* together.
Candidates(n) == {i \in slots : SlotOf[owner[i]] # n.slot /\ i \in evictable}

\* The scan stops at the first candidate that makes the sums sufficient; if
\* none does, or nothing is needed, nothing is evicted.
Victims(n) ==
  LET UpTo(i) == {j \in Candidates(n) : j <= i}
      Enough  == {i \in Candidates(n) : Satisfies(UpTo(i), n)}
  IN  IF (n.mem = 0 /\ n.cpu = 0) \/ Enough = {} THEN {} ELSE UpTo(Min(Enough))

PerformEviction(s, n) ==
  /\ starved[s] = "idle"
  /\ Victims(n) # {}
  /\ slots' = slots \ Victims(n)
  /\ tokens' = tokens \ Victims(n)
  /\ toClose' = [toClose EXCEPT ![s] = Victims(n)]
  /\ waits' = [waits EXCEPT ![s] = Victims(n)]
  /\ want' = [want EXCEPT ![s] = n]
  /\ starved' = [starved EXCEPT ![s] = "closing"]
  /\ UNCHANGED <<nextId, owner, evictable, chanC, chanDone, kvars>>

\* After the unlock the victims' channels are closed one by one.
CloseEvicted(s) ==
  /\ starved[s] = "closing" /\ toClose[s] # {}
  /\ LET i == Min(toClose[s]) IN
       /\ chanC' = chanC \cup {i}
       /\ toClose' = [toClose EXCEPT ![s] = @ \ {i}]
  /\ starved' = [starved EXCEPT ![s] = IF toClose'[s] = {} THEN "waiting" ELSE "closing"]
  /\ UNCHANGED <<slots, tokens, nextId, owner, evictable, chanDone, kvars,
                 waits, want>>

\* checkLaunch waits for every DoneChan, or for the end of its context.
EvictionAwaited(s) ==
  /\ starved[s] = "waiting" /\ waits[s] \subseteq chanDone
  /\ starved' = [starved EXCEPT ![s] = "idle"]
  /\ waits' = [waits EXCEPT ![s] = {}] /\ want' = [want EXCEPT ![s] = NoWant]
  /\ UNCHANGED <<evars, kvars, toClose>>

AwaitTimeout(s) ==
  /\ starved[s] = "waiting"
  /\ starved' = [starved EXCEPT ![s] = "idle"]
  /\ waits' = [waits EXCEPT ![s] = {}] /\ want' = [want EXCEPT ![s] = NoWant]
  /\ UNCHANGED <<evars, kvars, toClose>>

-----------------------------------------------------------------------------
CtrStep(k) ==
  \/ EnableEviction(k) \/ DisableEviction(k) \/ DisableEvictionCheck(k)
  \/ RefreshDelete(k) \/ RefreshCreate(k)
  \/ LeaveEvicted(k) \/ LeaveOther(k) \/ CtrClose(k)

StarvedStep(s) ==
  \/ \E n \in Needs : PerformEviction(s, n)
  \/ CloseEvicted(s) \/ EvictionAwaited(s) \/ AwaitTimeout(s)

Next == (\E k \in Ctrs : CtrStep(k)) \/ (\E s \in Starved : StarvedStep(s))

Spec == Init /\ [][Next]_vars

(* Goroutines run and calls end: a busy container gets back to its loop.    *)
(* Nobody is obliged to take a slot, to time out or to starve.              *)
Fairness ==
  /\ \A k \in Ctrs : /\ WF_vars(EnableEviction(k) \/ (LeaveOther(k) /\ ctr[k] = "busy"))
                     /\ WF_vars(DisableEvictionCheck(k) \/ RefreshDelete(k))
                     /\ WF_vars(LeaveEvicted(k)) /\ WF_vars(CtrClose(k))
  /\ \A s \in Starved : WF_vars(CloseEvicted(s)) /\ WF_vars(EvictionAwaited(s))

FairSpec == Spec /\ Fairness

-----------------------------------------------------------------------------
(* Type invariant. *)
TypeOK ==
  /\ slots \in SUBSET Ids /\ tokens \in SUBSET Ids
  /\ nextId \in 1..(MaxTokens + 1)
  /\ owner \in [Ids -> Ctrs \cup {None}]
  /\ evictable \in SUBSET Ids /\ chanC \in SUBSET Ids /\ chanDone \in SUBSET Ids
  /\ ctr \in [Ctrs -> CtrPC] /\ tok \in [Ctrs -> Ids \cup {None}]
  /\ starved \in [Starved -> {"idle", "closing", "waiting"}]
  /\ toClose \in [Starved -> SUBSET Ids] /\ waits \in [Starved -> SUBSET Ids]

(* The slice and the map hold the same tokens: PerformEviction dereferences *)
(* e.tokens[val.id] for every key of the slice (evictor.go:169).            *)
SlotsMatchTokens == slots = tokens

(* No channel is closed twice, which would panic: a token under eviction is *)
(* under one eviction only and still open, and a token about to be deleted  *)
(* has not been deleted before.                                             *)
ClosesOnce ==
  /\ \A s \in Starved : toClose[s] \cap chanC = {}
  /\ \A s, t \in Starved : s # t => toClose[s] \cap toClose[t] = {}
  /\ \A k \in Ctrs : ctr[k] \in {"refresh", "closing"} => tok[k] \notin chanDone

(* Whoever waits for an eviction waits for a container that still has the   *)
(* token and is not gone, so that somebody is left to close its DoneChan.   *)
EvictionIsOwned ==
  \A s \in Starved : \A i \in waits[s] \ chanDone :
    /\ owner[i] \in Ctrs
    /\ tok[owner[i]] = i /\ ctr[owner[i]] \notin {"starting", "recreate", "gone"}

(* What is evicted covers the stated need, spares the caller's own queue,   *)
(* and is not more than the scan had to take: without its newest member it  *)
(* would not do.                                                            *)
EvictsEnough ==
  \A s \in Starved : waits[s] # {} =>
    /\ Satisfies(waits[s], want[s])
    /\ ~Satisfies(waits[s] \ {Max(waits[s])}, want[s])
    /\ \A i \in waits[s] : SlotOf[owner[i]] # want[s].slot

(* A launcher that waits for its evictions is released, also when a victim  *)
(* was handed to a call in the meantime.                                    *)
EvictionCompletes ==
  \A s \in Starved : starved[s] # "idle" ~> starved[s] = "idle"
=============================================================================
