--------------------------- MODULE ResourceProofs ---------------------------
(***************************************************************************)
(* Proofs about the resources of an agent.  Evictor: for every set of      *)
(* containers, queues, launchers and needs, and any number of tokens.      *)
(* ResourceTracker: for every finite set of goroutines, every machine      *)
(* size, every MB size and every set of request sizes.                     *)
(***************************************************************************)
EXTENDS Evictor, ResourceTracker, WellFoundedInduction, FiniteSetTheorems, TLAPS

-----------------------------------------------------------------------------
(* The evictor                                                               *)

Live == {"idle", "check", "refresh", "busy", "closing"}

(* A container that is up has a token of its own, made earlier, and its     *)
(* DoneChan is open except between the two halves of a refresh.             *)
TokensOwned ==
  \A k \in Ctrs :
    /\ ctr[k] \in {"starting", "gone"} => tok[k] = None
    /\ ctr[k] \in Live \cup {"recreate"} => tok[k] \in 1..(nextId - 1)
    /\ tok[k] # None => owner[tok[k]] = k
    /\ tok[k] \in chanDone => ctr[k] = "recreate"

(* A registered token belongs to a live container, and nobody has evicted   *)
(* or deleted it.                                                           *)
RegisteredIsLive ==
  \A i \in slots :
    /\ i < nextId /\ owner[i] \in Ctrs /\ isEligible(owner[i])
    /\ tok[owner[i]] = i /\ ctr[owner[i]] \in Live
    /\ i \notin chanC /\ i \notin chanDone
    /\ \A s \in Starved : i \notin toClose[s]

(* A channel still to be closed belongs to an eviction that is under way.   *)
ClosingIsWaited ==
  \A s \in Starved : /\ toClose[s] \subseteq waits[s]
                     /\ starved[s] # "closing" => toClose[s] = {}

(* Channels are closed, and evictions waited for, of created tokens only.   *)
CreatedOnly ==
  /\ \A i \in chanC \cup chanDone : i < nextId
  /\ \A s \in Starved : \A i \in waits[s] : i < nextId

(* Whoever waits for an eviction waits for a live container. *)
WaitedIsLive ==
  \A s \in Starved : \A i \in waits[s] \ chanDone :
    /\ owner[i] \in Ctrs /\ isEligible(owner[i])
    /\ tok[owner[i]] = i /\ ctr[owner[i]] \in Live

IInv == /\ TypeOK /\ SlotsMatchTokens /\ ClosesOnce
        /\ TokensOwned /\ RegisteredIsLive /\ ClosingIsWaited /\ CreatedOnly
        /\ WaitedIsLive

(* The minimum of a set of naturals is a member of it, and the least. *)
LEMMA MinOfNats ==
  ASSUME NEW S \in SUBSET Nat, S # {}
  PROVE  Min(S) \in S /\ \A x \in S : Min(S) <= x
<1>1. PICK n \in S : \A m \in S : ~(<<m, n>> \in OpToRel(<, Nat))
  BY WFMin, NatLessThanWellFounded
<1>2. \A m \in S : <<m, n>> \in OpToRel(<, Nat) <=> m < n
  BY DEF OpToRel
<1>3. \A m \in S : ~(m < n)
  BY <1>1, <1>2, Zenon
<1>4. \A m \in S : n <= m
  BY <1>3
<1> QED BY <1>4 DEF Min

(* Only registered tokens are evicted. *)
LEMMA VictimsRegistered ==
  ASSUME NEW n
  PROVE  Victims(n) \subseteq slots
BY DEF Victims, Candidates

LEMMA IInvInit == Init => IInv
BY EvictorAssumption DEF Init, IInv, TypeOK, SlotsMatchTokens, ClosesOnce, TokensOwned,
   RegisteredIsLive, ClosingIsWaited, CreatedOnly, WaitedIsLive, Ids, None, CtrPC, Live

(* IInv is inductive: one step per action. *)
LEMMA IInvNext == IInv /\ [Next]_vars => IInv'
<1> SUFFICES ASSUME IInv, [Next]_vars PROVE IInv'
  OBVIOUS
<1> USE DEF IInv, SlotsMatchTokens, None, Ids, Live
<1>1. ASSUME NEW k \in Ctrs, EnableEviction(k) PROVE IInv'
  <2>1. CASE ctr[k] = "busy"
    <3>0. tok[k] \in Ids /\ UNCHANGED <<slots, tokens, nextId, owner, tok>>
      BY <1>1, <2>1, EvictorAssumption DEF EnableEviction, TokensOwned, TypeOK
    <3>1. TypeOK'
      BY <1>1, <2>1, <3>0 DEF EnableEviction, TypeOK, CtrPC, svars
    <3>2. SlotsMatchTokens'
      BY <1>1, <2>1, <3>0 DEF EnableEviction, svars
    <3>3. ClosesOnce'
      BY <1>1, <2>1, <3>0 DEF EnableEviction, ClosesOnce, TypeOK, svars
    <3>4. TokensOwned'
      BY <1>1, <2>1, <3>0 DEF EnableEviction, TokensOwned, TypeOK, svars
    <3>5. RegisteredIsLive'
      BY <1>1, <2>1, <3>0 DEF EnableEviction, RegisteredIsLive, TypeOK, svars
    <3>6. ClosingIsWaited'
      BY <1>1, <2>1, <3>0 DEF EnableEviction, ClosingIsWaited, svars
    <3>7. CreatedOnly'
      BY <1>1, <2>1, <3>0 DEF EnableEviction, CreatedOnly, TypeOK, svars
    <3>8. WaitedIsLive'
      BY <1>1, <2>1, <3>0 DEF EnableEviction, WaitedIsLive, TypeOK, svars
    <3> QED BY <3>1, <3>2, <3>3, <3>4, <3>5, <3>6, <3>7, <3>8
  <2>2. CASE ctr[k] = "starting"
    <3>0. CreateEvictToken(k) /\ tok[k] = None
      BY <1>1, <2>2 DEF EnableEviction, TokensOwned
    <3>a. nextId \in Ids /\ nextId \in Nat /\ nextId \notin chanDone
      BY <3>0, EvictorAssumption DEF CreateEvictToken, TypeOK, CreatedOnly
    <3>b. /\ nextId' = nextId + 1 /\ owner' = [owner EXCEPT ![nextId] = k]
          /\ tok' = [tok EXCEPT ![k] = nextId] /\ ctr' = [ctr EXCEPT ![k] = "idle"]
          /\ evictable' = evictable \cup {nextId}
          /\ slots' = (IF isEligible(k) THEN slots \cup {nextId} ELSE slots)
          /\ tokens' = (IF isEligible(k) THEN tokens \cup {nextId} ELSE tokens)
          /\ UNCHANGED <<chanC, chanDone, starved, toClose, waits>>
      BY <1>1, <3>0 DEF EnableEviction, CreateEvictToken, TypeOK, svars
    <3>c. \A i \in slots : i # nextId /\ owner[i] # k
      BY <3>0, <3>a DEF RegisteredIsLive, TypeOK
    <3>d. \A s \in Starved : \A i \in waits[s] : i # nextId /\ (i \notin chanDone => owner[i] # k)
      BY <3>0, <3>a DEF WaitedIsLive, CreatedOnly, TypeOK
    <3>1. TypeOK'
      BY <3>a, <3>b, EvictorAssumption DEF TypeOK, CtrPC
    <3>2. SlotsMatchTokens'
      BY <3>b
    <3>3. ClosesOnce'
      BY <3>a, <3>b DEF ClosesOnce, TypeOK
    <3>4. TokensOwned'
      BY <3>a, <3>b DEF TokensOwned, CreatedOnly, TypeOK, CtrPC
    <3>5. RegisteredIsLive'
      BY <3>a, <3>b, <3>c, <3>d DEF RegisteredIsLive, CreatedOnly, ClosingIsWaited, TypeOK
    <3>6. ClosingIsWaited'
      BY <3>b DEF ClosingIsWaited
    <3>7. CreatedOnly'
      BY <3>a, <3>b DEF CreatedOnly, TypeOK
    <3>8. WaitedIsLive'
      BY <3>a, <3>b, <3>d DEF WaitedIsLive, TypeOK
    <3> QED BY <3>1, <3>2, <3>3, <3>4, <3>5, <3>6, <3>7, <3>8
  <2> QED BY <1>1, <2>1, <2>2 DEF EnableEviction
<1>2. ASSUME NEW k \in Ctrs, DisableEviction(k) PROVE IInv'
  <2>1. TypeOK'
    BY <1>2 DEF DisableEviction, TypeOK, CtrPC, svars
  <2>2. SlotsMatchTokens'
    BY <1>2 DEF DisableEviction, svars
  <2>3. ClosesOnce'
    BY <1>2 DEF DisableEviction, TypeOK, ClosesOnce, svars
  <2>4. TokensOwned'
    BY <1>2 DEF DisableEviction, TypeOK, TokensOwned, svars
  <2>5. RegisteredIsLive'
    BY <1>2 DEF DisableEviction, TypeOK, RegisteredIsLive, svars
  <2>6. ClosingIsWaited'
    BY <1>2 DEF DisableEviction, TypeOK, ClosingIsWaited, svars
  <2>7. CreatedOnly'
    BY <1>2 DEF DisableEviction, TypeOK, CreatedOnly, svars
  <2>8. WaitedIsLive'
    BY <1>2 DEF DisableEviction, TypeOK, WaitedIsLive, svars
  <2> QED BY <2>1, <2>2, <2>3, <2>4, <2>5, <2>6, <2>7, <2>8
<1>3. ASSUME NEW k \in Ctrs, DisableEvictionCheck(k) PROVE IInv'
  <2>1. TypeOK'
    BY <1>3 DEF DisableEvictionCheck, TypeOK, CtrPC, evars, svars
  <2>2. SlotsMatchTokens'
    BY <1>3 DEF DisableEvictionCheck, evars, svars
  <2>3. ClosesOnce'
    BY <1>3 DEF DisableEvictionCheck, ClosesOnce, TokensOwned, TypeOK, evars, svars
  <2>4. TokensOwned'
    BY <1>3 DEF DisableEvictionCheck, TypeOK, TokensOwned, evars, svars
  <2>5. RegisteredIsLive'
    BY <1>3 DEF DisableEvictionCheck, TypeOK, RegisteredIsLive, evars, svars
  <2>6. ClosingIsWaited'
    BY <1>3 DEF DisableEvictionCheck, TypeOK, ClosingIsWaited, evars, svars
  <2>7. CreatedOnly'
    BY <1>3 DEF DisableEvictionCheck, TypeOK, CreatedOnly, evars, svars
  <2>8. WaitedIsLive'
    BY <1>3 DEF DisableEvictionCheck, TypeOK, WaitedIsLive, evars, svars
  <2> QED BY <2>1, <2>2, <2>3, <2>4, <2>5, <2>6, <2>7, <2>8
<1>4. ASSUME NEW k \in Ctrs, RefreshDelete(k) PROVE IInv'
  <2>a. ctr[k] \in Live /\ tok[k] \in Ids
    BY <1>4, EvictorAssumption DEF RefreshDelete, TypeOK, TokensOwned
  <2>b. \A j \in Ctrs \ {k} : tok[j] # tok[k]
    BY <2>a DEF TokensOwned
  <2>c. slots' \subseteq slots /\ \A i \in slots' : owner[i] # k
    BY <1>4 DEF RefreshDelete, DeleteEvictToken, RegisteredIsLive
  <2>d. chanDone \subseteq chanDone' /\ chanDone' \subseteq chanDone \cup {tok[k]}
    BY <1>4 DEF RefreshDelete, DeleteEvictToken
  <2>1. TypeOK'
    BY <1>4, <2>a DEF RefreshDelete, DeleteEvictToken, TypeOK, CtrPC, svars
  <2>2. SlotsMatchTokens'
    BY <1>4, EvictorAssumption DEF RefreshDelete, DeleteEvictToken, svars
  <2>3. ClosesOnce'
    BY <1>4, <2>b, <2>d DEF RefreshDelete, ClosesOnce, TypeOK, svars
  <2>4. TokensOwned'
    BY <1>4, <2>a, <2>b, <2>d DEF RefreshDelete, TokensOwned, TypeOK
  <2>5. RegisteredIsLive'
    <3>1. \A i \in slots' : i # tok[k]
      BY <2>a, <2>c DEF TokensOwned
    <3> QED BY <1>4, <2>c, <2>d, <3>1 DEF RefreshDelete, RegisteredIsLive, TypeOK, svars
  <2>6. ClosingIsWaited'
    BY <1>4, EvictorAssumption DEF RefreshDelete, DeleteEvictToken, TypeOK, ClosingIsWaited, svars
  <2>7. CreatedOnly'
    BY <1>4, <2>a, <2>d DEF RefreshDelete, CreatedOnly, TokensOwned, TypeOK, svars
  <2>8. WaitedIsLive'
    <3>1. ASSUME NEW s \in Starved, NEW i \in waits[s] \ chanDone', owner[i] = k
          PROVE FALSE
      BY <1>4, <3>1, <2>d DEF RefreshDelete, DeleteEvictToken, WaitedIsLive
    <3> QED BY <1>4, <2>d, <3>1 DEF RefreshDelete, WaitedIsLive, TypeOK, svars
  <2> QED BY <2>1, <2>2, <2>3, <2>4, <2>5, <2>6, <2>7, <2>8
<1>5. ASSUME NEW k \in Ctrs, RefreshCreate(k) PROVE IInv'
  <2>1. TypeOK'
    BY <1>5, EvictorAssumption DEF RefreshCreate, CreateEvictToken, TypeOK, CtrPC, svars
  <2>2. SlotsMatchTokens'
    BY <1>5, EvictorAssumption DEF RefreshCreate, CreateEvictToken, svars
  <2>3. ClosesOnce'
    BY <1>5, EvictorAssumption DEF RefreshCreate, CreateEvictToken, TypeOK, ClosesOnce, svars
  <2>4. TokensOwned'
    BY <1>5, EvictorAssumption DEF RefreshCreate, CreateEvictToken, TokensOwned, CreatedOnly, TypeOK, CtrPC, svars
  <2>5. RegisteredIsLive'
    BY <1>5, EvictorAssumption DEF RefreshCreate, CreateEvictToken, RegisteredIsLive, TokensOwned, CreatedOnly, ClosingIsWaited,
       TypeOK, svars
  <2>6. ClosingIsWaited'
    BY <1>5, EvictorAssumption DEF RefreshCreate, CreateEvictToken, TypeOK, ClosingIsWaited, svars
  <2>7. CreatedOnly'
    BY <1>5, EvictorAssumption DEF RefreshCreate, CreateEvictToken, TypeOK, CreatedOnly, svars
  <2>8. WaitedIsLive'
    BY <1>5, EvictorAssumption DEF RefreshCreate, CreateEvictToken, WaitedIsLive, TokensOwned, CreatedOnly, TypeOK, svars
  <2> QED BY <2>1, <2>2, <2>3, <2>4, <2>5, <2>6, <2>7, <2>8
<1>6. ASSUME NEW k \in Ctrs, LeaveEvicted(k) PROVE IInv'
  <2>1. TypeOK'
    BY <1>6 DEF LeaveEvicted, TypeOK, CtrPC, evars, svars
  <2>2. SlotsMatchTokens'
    BY <1>6 DEF LeaveEvicted, evars, svars
  <2>3. ClosesOnce'
    BY <1>6 DEF LeaveEvicted, ClosesOnce, TokensOwned, TypeOK, evars, svars
  <2>4. TokensOwned'
    BY <1>6 DEF LeaveEvicted, TypeOK, TokensOwned, evars, svars
  <2>5. RegisteredIsLive'
    BY <1>6 DEF LeaveEvicted, TypeOK, RegisteredIsLive, evars, svars
  <2>6. ClosingIsWaited'
    BY <1>6 DEF LeaveEvicted, TypeOK, ClosingIsWaited, evars, svars
  <2>7. CreatedOnly'
    BY <1>6 DEF LeaveEvicted, TypeOK, CreatedOnly, evars, svars
  <2>8. WaitedIsLive'
    BY <1>6 DEF LeaveEvicted, TypeOK, WaitedIsLive, evars, svars
  <2> QED BY <2>1, <2>2, <2>3, <2>4, <2>5, <2>6, <2>7, <2>8
<1>7. ASSUME NEW k \in Ctrs, LeaveOther(k) PROVE IInv'
  <2>1. TypeOK'
    BY <1>7 DEF LeaveOther, TypeOK, CtrPC, evars, svars
  <2>2. SlotsMatchTokens'
    BY <1>7 DEF LeaveOther, evars, svars
  <2>3. ClosesOnce'
    BY <1>7 DEF LeaveOther, ClosesOnce, TokensOwned, TypeOK, evars, svars
  <2>4. TokensOwned'
    BY <1>7 DEF LeaveOther, TypeOK, TokensOwned, evars, svars
  <2>5. RegisteredIsLive'
    BY <1>7 DEF LeaveOther, TypeOK, RegisteredIsLive, evars, svars
  <2>6. ClosingIsWaited'
    BY <1>7 DEF LeaveOther, TypeOK, ClosingIsWaited, evars, svars
  <2>7. CreatedOnly'
    BY <1>7 DEF LeaveOther, TypeOK, CreatedOnly, evars, svars
  <2>8. WaitedIsLive'
    BY <1>7 DEF LeaveOther, TypeOK, WaitedIsLive, evars, svars
  <2> QED BY <2>1, <2>2, <2>3, <2>4, <2>5, <2>6, <2>7, <2>8
<1>8. ASSUME NEW k \in Ctrs, CtrClose(k) PROVE IInv'
  <2>a. ctr[k] \in Live /\ tok[k] \in Ids
    BY <1>8, EvictorAssumption DEF CtrClose, TypeOK, TokensOwned
  <2>b. \A j \in Ctrs \ {k} : tok[j] # tok[k]
    BY <2>a DEF TokensOwned
  <2>c. slots' \subseteq slots /\ \A i \in slots' : owner[i] # k
    BY <1>8 DEF CtrClose, DeleteEvictToken, RegisteredIsLive
  <2>d. chanDone \subseteq chanDone' /\ chanDone' \subseteq chanDone \cup {tok[k]}
    BY <1>8 DEF CtrClose, DeleteEvictToken
  <2>1. TypeOK'
    BY <1>8, <2>a DEF CtrClose, DeleteEvictToken, TypeOK, CtrPC, svars
  <2>2. SlotsMatchTokens'
    BY <1>8, EvictorAssumption DEF CtrClose, DeleteEvictToken, svars
  <2>3. ClosesOnce'
    BY <1>8, <2>b, <2>d DEF CtrClose, ClosesOnce, TypeOK, svars
  <2>4. TokensOwned'
    BY <1>8, <2>a, <2>b, <2>d DEF CtrClose, TokensOwned, TypeOK
  <2>5. RegisteredIsLive'
    <3>1. \A i \in slots' : i # tok[k]
      BY <2>a, <2>c DEF TokensOwned
    <3> QED BY <1>8, <2>c, <2>d, <3>1 DEF CtrClose, RegisteredIsLive, TypeOK, svars
  <2>6. ClosingIsWaited'
    BY <1>8, EvictorAssumption DEF CtrClose, DeleteEvictToken, TypeOK, ClosingIsWaited, svars
  <2>7. CreatedOnly'
    BY <1>8, <2>a, <2>d DEF CtrClose, CreatedOnly, TokensOwned, TypeOK, svars
  <2>8. WaitedIsLive'
    <3>1. ASSUME NEW s \in Starved, NEW i \in waits[s] \ chanDone', owner[i] = k
          PROVE FALSE
      BY <1>8, <3>1, <2>d DEF CtrClose, DeleteEvictToken, WaitedIsLive
    <3> QED BY <1>8, <2>d, <3>1 DEF CtrClose, WaitedIsLive, TypeOK, svars
  <2> QED BY <2>1, <2>2, <2>3, <2>4, <2>5, <2>6, <2>7, <2>8
<1>9. ASSUME NEW s \in Starved, NEW n \in Needs, PerformEviction(s, n) PROVE IInv'
  <2>1. TypeOK'
    BY <1>9, VictimsRegistered DEF PerformEviction, TypeOK, CtrPC, kvars
  <2>2. SlotsMatchTokens'
    BY <1>9, VictimsRegistered DEF PerformEviction, kvars
  <2>3. ClosesOnce'
    <3>1. \A i \in Victims(n) : i \notin chanC /\ \A t \in Starved : i \notin toClose[t]
      BY VictimsRegistered DEF RegisteredIsLive
    <3>2. toClose' = [toClose EXCEPT ![s] = Victims(n)] /\ UNCHANGED <<chanC, chanDone, ctr, tok>>
      BY <1>9 DEF PerformEviction, kvars
    <3> QED BY <3>1, <3>2 DEF ClosesOnce, TypeOK
  <2>4. TokensOwned'
    BY <1>9, VictimsRegistered DEF PerformEviction, TypeOK, TokensOwned, kvars
  <2>5. RegisteredIsLive'
    BY <1>9, VictimsRegistered DEF PerformEviction, TypeOK, RegisteredIsLive, kvars
  <2>6. ClosingIsWaited'
    BY <1>9, VictimsRegistered DEF PerformEviction, TypeOK, ClosingIsWaited, kvars
  <2>7. CreatedOnly'
    BY <1>9, VictimsRegistered DEF PerformEviction, CreatedOnly, RegisteredIsLive, TypeOK, kvars
  <2>8. WaitedIsLive'
    BY <1>9, VictimsRegistered DEF PerformEviction, WaitedIsLive, RegisteredIsLive, TypeOK, kvars
  <2> QED BY <2>1, <2>2, <2>3, <2>4, <2>5, <2>6, <2>7, <2>8
<1>10. ASSUME NEW s \in Starved, CloseEvicted(s) PROVE IInv'
  <2>0. Min(toClose[s]) \in toClose[s]
    <3>1. toClose[s] \in SUBSET Nat /\ toClose[s] # {}
      BY <1>10 DEF TypeOK, CloseEvicted
    <3> QED BY <3>1, MinOfNats
  <2>1. TypeOK'
    BY <1>10, <2>0 DEF CloseEvicted, TypeOK, CtrPC, kvars
  <2>2. SlotsMatchTokens'
    BY <1>10, <2>0 DEF CloseEvicted, kvars
  <2>3. ClosesOnce'
    BY <1>10, <2>0 DEF CloseEvicted, TypeOK, ClosesOnce, kvars
  <2>4. TokensOwned'
    BY <1>10, <2>0 DEF CloseEvicted, TypeOK, TokensOwned, kvars
  <2>5. RegisteredIsLive'
    BY <1>10, <2>0 DEF CloseEvicted, TypeOK, RegisteredIsLive, kvars
  <2>6. ClosingIsWaited'
    BY <1>10, <2>0 DEF CloseEvicted, TypeOK, ClosingIsWaited, kvars
  <2>7. CreatedOnly'
    BY <1>10, <2>0 DEF CloseEvicted, CreatedOnly, ClosingIsWaited, TypeOK, kvars
  <2>8. WaitedIsLive'
    BY <1>10, <2>0 DEF CloseEvicted, TypeOK, WaitedIsLive, kvars
  <2> QED BY <2>1, <2>2, <2>3, <2>4, <2>5, <2>6, <2>7, <2>8
<1>11. ASSUME NEW s \in Starved, EvictionAwaited(s) PROVE IInv'
  <2>1. TypeOK'
    BY <1>11 DEF EvictionAwaited, TypeOK, CtrPC, evars, kvars
  <2>2. SlotsMatchTokens'
    BY <1>11 DEF EvictionAwaited, evars, kvars
  <2>3. ClosesOnce'
    BY <1>11 DEF EvictionAwaited, TypeOK, ClosesOnce, evars, kvars
  <2>4. TokensOwned'
    BY <1>11 DEF EvictionAwaited, TypeOK, TokensOwned, evars, kvars
  <2>5. RegisteredIsLive'
    BY <1>11 DEF EvictionAwaited, TypeOK, RegisteredIsLive, evars, kvars
  <2>6. ClosingIsWaited'
    BY <1>11 DEF EvictionAwaited, TypeOK, ClosingIsWaited, evars, kvars
  <2>7. CreatedOnly'
    BY <1>11 DEF EvictionAwaited, TypeOK, CreatedOnly, evars, kvars
  <2>8. WaitedIsLive'
    BY <1>11 DEF EvictionAwaited, TypeOK, WaitedIsLive, evars, kvars
  <2> QED BY <2>1, <2>2, <2>3, <2>4, <2>5, <2>6, <2>7, <2>8
<1>12. ASSUME NEW s \in Starved, AwaitTimeout(s) PROVE IInv'
  <2>1. TypeOK'
    BY <1>12 DEF AwaitTimeout, TypeOK, CtrPC, evars, kvars
  <2>2. SlotsMatchTokens'
    BY <1>12 DEF AwaitTimeout, evars, kvars
  <2>3. ClosesOnce'
    BY <1>12 DEF AwaitTimeout, TypeOK, ClosesOnce, evars, kvars
  <2>4. TokensOwned'
    BY <1>12 DEF AwaitTimeout, TypeOK, TokensOwned, evars, kvars
  <2>5. RegisteredIsLive'
    BY <1>12 DEF AwaitTimeout, TypeOK, RegisteredIsLive, evars, kvars
  <2>6. ClosingIsWaited'
    BY <1>12 DEF AwaitTimeout, TypeOK, ClosingIsWaited, evars, kvars
  <2>7. CreatedOnly'
    BY <1>12 DEF AwaitTimeout, TypeOK, CreatedOnly, evars, kvars
  <2>8. WaitedIsLive'
    BY <1>12 DEF AwaitTimeout, TypeOK, WaitedIsLive, evars, kvars
  <2> QED BY <2>1, <2>2, <2>3, <2>4, <2>5, <2>6, <2>7, <2>8
<1>13. CASE UNCHANGED vars
  BY <1>13 DEF vars, evars, kvars, svars, TypeOK, ClosesOnce, TokensOwned, RegisteredIsLive,
     ClosingIsWaited, CreatedOnly, WaitedIsLive
<1> QED BY <1>1, <1>2, <1>3, <1>4, <1>5, <1>6, <1>7, <1>8, <1>9, <1>10, <1>11, <1>12, <1>13
        DEF Next, CtrStep, StarvedStep

(* The type invariant of the evictor. *)
THEOREM EvictorTypeOK == Spec => []TypeOK
<1>1. IInv => TypeOK
  BY DEF IInv
<1> QED BY IInvInit, IInvNext, <1>1, PTL DEF Spec

(* The slice and the map of the evictor always hold the same tokens, so the *)
(* map lookup in PerformEviction never yields nil (evictor.go:169).         *)
THEOREM EvictorSlotsMatch == Spec => []SlotsMatchTokens
<1>1. IInv => SlotsMatchTokens
  BY DEF IInv
<1> QED BY IInvInit, IInvNext, <1>1, PTL DEF Spec

(* No eviction and no deletion closes a channel that is closed already,     *)
(* whatever the interleaving of PerformEviction, DisableEviction and Close. *)
THEOREM EvictorClosesOnce == Spec => []ClosesOnce
<1>1. IInv => ClosesOnce
  BY DEF IInv
<1> QED BY IInvInit, IInvNext, <1>1, PTL DEF Spec

(* An eviction that is waited for always has a container left to finish it. *)
THEOREM EvictorOwned == Spec => []EvictionIsOwned
<1>1. IInv => EvictionIsOwned
  BY DEF IInv, WaitedIsLive, EvictionIsOwned, Live
<1> QED BY IInvInit, IInvNext, <1>1, PTL DEF Spec

-----------------------------------------------------------------------------
(* What an eviction covers.                                                 *)

(* The sum over no token is zero. *)
LEMMA SumOfNone == ASSUME NEW f PROVE SumFunctionOnSet(f, {}) = 0
<1> DEFINE Iter(g) == [s \in SUBSET {} |-> IF s = {} THEN 0
                         ELSE f[CHOOSE x \in s : TRUE] + g[s \ {CHOOSE x \in s : TRUE}]]
<1>1. \E g : g = Iter(g)
  <2>1. [s \in SUBSET {} |-> 0] = Iter([s \in SUBSET {} |-> 0])
    OBVIOUS
  <2> QED BY <2>1
<1>2. (CHOOSE g : g = Iter(g)) = Iter(CHOOSE g : g = Iter(g))
  BY <1>1
<1>3. (CHOOSE g : g = Iter(g))[{}] = 0
  BY <1>2
<1> QED BY <1>3 DEF SumFunctionOnSet, FoldFunctionOnSet, MapThenFoldSet


(* A set of ids that is not empty has a greatest member. *)
LEMMA MaxOfIds ==
  ASSUME NEW S \in SUBSET Ids, S # {}
  PROVE  Max(S) \in S /\ \A x \in S : x <= Max(S)
<1> DEFINE T == {MaxTokens - x : x \in S}
<1>1. T \in SUBSET Nat /\ T # {}
  BY EvictorAssumption DEF Ids
<1>2. Min(T) \in T /\ \A y \in T : Min(T) <= y
  BY <1>1, MinOfNats, Zenon
<1>3. PICK m \in S : Min(T) = MaxTokens - m
  BY <1>2
<1>4. ASSUME NEW x \in S PROVE x <= m
  <2>1. MaxTokens - x \in T
    OBVIOUS
  <2>2. MaxTokens - m <= MaxTokens - x
    BY <1>2, <1>3, <2>1
  <2>3. x \in Int /\ m \in Int /\ MaxTokens \in Int
    BY EvictorAssumption DEF Ids
  <2> QED BY <2>2, <2>3
<1>5. \A x \in S : m >= x
  BY <1>4, EvictorAssumption DEF Ids
<1>6. Max(S) \in S /\ \A x \in S : Max(S) >= x
  BY <1>5 DEF Max
<1> QED BY <1>6, EvictorAssumption DEF Ids

(* What the scan evicts covers the need, and would not without the token    *)
(* it took last.                                                            *)
LEMMA VictimsSuffice ==
  ASSUME NEW n \in Needs, slots \in SUBSET Ids, Victims(n) # {}
  PROVE  /\ Satisfies(Victims(n), n)
         /\ ~Satisfies(Victims(n) \ {Max(Victims(n))}, n)
         /\ \A i \in Victims(n) : SlotOf[owner[i]] # n.slot
<1> DEFINE UpTo(i) == {j \in Candidates(n) : j <= i}
           Enough == {i \in Candidates(n) : Satisfies(UpTo(i), n)}
           m == Min(Enough)
<1>1. Enough # {} /\ ~(n.mem = 0 /\ n.cpu = 0) /\ Victims(n) = UpTo(m)
  BY DEF Victims
<1>2. Candidates(n) \in SUBSET Ids /\ Enough \in SUBSET Nat
  BY EvictorAssumption DEF Candidates, Ids
<1>3. m \in Enough /\ \A i \in Enough : m <= i
  BY <1>1, <1>2, MinOfNats, Zenon
<1>4. m \in Candidates(n) /\ m \in Nat /\ Satisfies(UpTo(m), n)
  BY <1>2, <1>3
<1> HIDE DEF m, Enough
<1>5. Max(UpTo(m)) = m
  <2>1. UpTo(m) \in SUBSET Ids /\ m \in UpTo(m)
    BY <1>2, <1>4
  <2>2. Max(UpTo(m)) \in UpTo(m) /\ m <= Max(UpTo(m))
    BY <2>1, MaxOfIds
  <2> QED BY <2>2, <1>4, <1>2 DEF Ids
<1>6. ~Satisfies(UpTo(m) \ {m}, n)
  <2>1. CASE UpTo(m) \ {m} = {}
    <3>1. SumMem({}) = 0 /\ SumCpu({}) = 0
      BY SumOfNone DEF SumMem, SumCpu
    <3>2. ~(0 >= n.mem /\ 0 >= n.cpu)
      BY <1>1, EvictorAssumption
    <3> QED BY <2>1, <3>1, <3>2 DEF Satisfies
  <2>2. CASE UpTo(m) \ {m} # {}
    <3> DEFINE p == Max(UpTo(m) \ {m})
    <3>1. UpTo(m) \ {m} \in SUBSET Ids
      BY <1>2
    <3>2. p \in UpTo(m) \ {m} /\ \A x \in UpTo(m) \ {m} : x <= p
      BY <2>2, <3>1, MaxOfIds
    <3> HIDE DEF p
    <3>3. UpTo(p) = UpTo(m) \ {m}
      BY <1>2, <1>4, <3>2 DEF Ids
    <3>4. p \in Candidates(n) /\ ~(m <= p)
      BY <1>2, <1>4, <3>2 DEF Ids
    <3>5. p \notin Enough
      BY <1>3, <3>4
    <3> QED BY <3>3, <3>4, <3>5 DEF Enough
  <2> QED BY <2>1, <2>2
<1> QED BY <1>1, <1>4, <1>5, <1>6 DEF Candidates

(* Needs are stated by launchers, and nobody waits without one.             *)
WantTyped == want \in [Starved -> Needs \cup {NoWant}]

EInv == IInv /\ WantTyped /\ EvictsEnough

(* Satisfies as an operator of the owners it looks at. *)
Covers(o, S, n) ==
  /\ SumFunctionOnSet([i \in S |-> Mem[o[i]]], S) >= n.mem
  /\ SumFunctionOnSet([i \in S |-> Cpu[o[i]]], S) >= n.cpu

(* What an eviction covers depends on the owners of its tokens alone. *)
LEMMA CoversKept ==
  ASSUME NEW o, NEW p, NEW S, NEW n, \A i \in S : o[i] = p[i]
  PROVE  Covers(o, S, n) <=> Covers(p, S, n)
<1>1. [i \in S |-> Mem[o[i]]] = [i \in S |-> Mem[p[i]]]
  OBVIOUS
<1>2. [i \in S |-> Cpu[o[i]]] = [i \in S |-> Cpu[p[i]]]
  OBVIOUS
<1> QED BY <1>1, <1>2 DEF Covers

(* The evictions of a state, by the owners of their tokens. *)
LEMMA EnoughByOwner ==
  EvictsEnough <=>
    \A s \in Starved : waits[s] # {} =>
      /\ Covers(owner, waits[s], want[s])
      /\ ~Covers(owner, waits[s] \ {Max(waits[s])}, want[s])
      /\ \A i \in waits[s] : SlotOf[owner[i]] # want[s].slot
BY DEF EvictsEnough, Satisfies, SumMem, SumCpu, Covers

(* EvictsEnough is inductive relative to IInv: containers change the owner  *)
(* of new tokens only, and a launcher its own eviction only.                *)
LEMMA EInvNext == EInv /\ [Next]_vars => EInv'
<1> SUFFICES ASSUME EInv, [Next]_vars PROVE EInv'
  OBVIOUS
<1>0. IInv /\ IInv' /\ TypeOK /\ CreatedOnly /\ WantTyped /\ EvictsEnough
  BY IInvNext DEF EInv, IInv
<1> DEFINE Good(s) ==
             waits[s] # {} =>
               /\ Covers(owner, waits[s], want[s])
               /\ ~Covers(owner, waits[s] \ {Max(waits[s])}, want[s])
               /\ \A i \in waits[s] : SlotOf[owner[i]] # want[s].slot
<1>g. \A s \in Starved : Good(s)
  BY <1>0, EnoughByOwner
<1>h. (\A s \in Starved : Good(s)') => EvictsEnough'
  BY DEF EvictsEnough, Satisfies, SumMem, SumCpu, Covers
<1>k. ASSUME NEW s \in Starved, waits'[s] = waits[s], want'[s] = want[s],
             \A i \in waits[s] : owner'[i] = owner[i]
      PROVE  Good(s)'
  <2>1. Covers(owner', waits[s], want[s]) <=> Covers(owner, waits[s], want[s])
    BY <1>k, CoversKept
  <2>2. Covers(owner', waits[s] \ {Max(waits[s])}, want[s])
          <=> Covers(owner, waits[s] \ {Max(waits[s])}, want[s])
    BY <1>k, CoversKept
  <2> QED BY <1>g, <1>k, <2>1, <2>2, SMTT(30)
<1> HIDE DEF Good
<1>a. ASSUME UNCHANGED <<waits, want>>,
             owner' = owner \/ \E k : owner' = [owner EXCEPT ![nextId] = k]
      PROVE EInv'
  <2>0. \A s \in Starved : \A i \in waits[s] : i \in Ids /\ i # nextId
    BY <1>0 DEF CreatedOnly, TypeOK, Ids
  <2>1. \A s \in Starved : \A i \in waits[s] : owner'[i] = owner[i]
    BY <1>0, <1>a, <2>0 DEF TypeOK
  <2>2. \A s \in Starved : Good(s)'
    BY <1>a, <1>k, <2>1
  <2> QED BY <1>0, <1>a, <1>h, <2>2 DEF EInv, WantTyped
<1>1. ASSUME NEW k \in Ctrs, CtrStep(k) PROVE EInv'
  BY <1>1, <1>a DEF CtrStep, EnableEviction, DisableEviction, DisableEvictionCheck, RefreshDelete,
     RefreshCreate, CreateEvictToken, LeaveEvicted, LeaveOther, CtrClose, evars, svars
<1>2. ASSUME NEW s \in Starved, NEW n \in Needs, PerformEviction(s, n) PROVE EInv'
  <2>1. slots \in SUBSET Ids /\ Victims(n) # {} /\ owner' = owner
    BY <1>0, <1>2 DEF PerformEviction, TypeOK
  <2>2. /\ waits' = [waits EXCEPT ![s] = Victims(n)]
        /\ want' = [want EXCEPT ![s] = n]
    BY <1>2 DEF PerformEviction
  <2>3. waits'[s] = Victims(n) /\ want'[s] = n
    BY <1>0, <2>2 DEF TypeOK, WantTyped
  <2>4. Good(s)'
    BY <2>1, <2>3, VictimsSuffice DEF Good, Covers, Satisfies, SumMem, SumCpu
  <2>5. \A t \in Starved \ {s} : Good(t)'
    BY <1>k, <2>1, <2>2, <1>0 DEF TypeOK, WantTyped
  <2> QED BY <1>0, <1>h, <2>2, <2>4, <2>5 DEF EInv, WantTyped
<1>3. ASSUME NEW s \in Starved, CloseEvicted(s) PROVE EInv'
  BY <1>3, <1>a DEF CloseEvicted
<1>4. ASSUME NEW s \in Starved, EvictionAwaited(s) \/ AwaitTimeout(s) PROVE EInv'
  <2>1. /\ waits' = [waits EXCEPT ![s] = {}] /\ want' = [want EXCEPT ![s] = NoWant]
        /\ owner' = owner
    BY <1>4 DEF EvictionAwaited, AwaitTimeout, evars
  <2>2. Good(s)'
    BY <1>0, <2>1 DEF Good, TypeOK
  <2>3. \A t \in Starved \ {s} : Good(t)'
    BY <1>k, <2>1, <1>0 DEF TypeOK, WantTyped
  <2> QED BY <1>0, <1>h, <2>1, <2>2, <2>3 DEF EInv, WantTyped
<1>5. CASE UNCHANGED vars
  BY <1>5, <1>a DEF vars, evars, svars
<1> QED BY <1>1, <1>2, <1>3, <1>4, <1>5 DEF Next, StarvedStep

(* What is evicted covers the need of the launcher that asked, spares its   *)
(* own queue, and would not suffice without its newest member, as long as   *)
(* the launcher waits and whatever the containers do meanwhile.             *)
THEOREM EvictorEvictsEnough == Spec => []EvictsEnough
<1>1. Init => EInv
  BY IInvInit DEF Init, EInv, WantTyped, EvictsEnough
<1>2. EInv => EvictsEnough
  BY DEF EInv
<1> QED BY EInvNext, <1>1, <1>2, PTL DEF Spec

-----------------------------------------------------------------------------
(* The resource tracker                                                      *)

(* Who is parked is in the loop, whose helper is armed is in the call, and  *)
(* a request that is pending or granted fits the machine: an impossible one *)
(* never gets past IsResourcePossible.                                      *)
CallsConsistent ==
  \A p \in Procs :
    /\ p \in condWait => pc[p] = "wait"
    /\ pc[p] \in {"enter", "wait"} => armed[p] \/ ctxDone[p]
    /\ pc[p] \in {"enter", "wait", "held"} => IsResourcePossible(req[p])

TrackerInv == TrackerTypes /\ Conserved /\ NoOvercommit /\ CallsConsistent /\ NoLostWakeup
-----------------------------------------------------------------------------
(* A column of k units has k elements. *)
LEMMA Column ==
  ASSUME NEW p, NEW k \in Nat
  PROVE  IsFiniteSet({p} \X (1..k)) /\ Cardinality({p} \X (1..k)) = k
<1>1. IsFiniteSet({p}) /\ Cardinality({p}) = 1
  BY FS_Singleton
<1>2. IsFiniteSet(1..k) /\ Cardinality(1..k) = k
  BY FS_Interval
<1>3. /\ IsFiniteSet({p} \X (1..k))
      /\ Cardinality({p} \X (1..k)) = Cardinality({p}) * Cardinality(1..k)
  BY <1>1, <1>2, FS_Product, Zenon
<1> QED BY <1>1, <1>2, <1>3

(* Units is a finite set. *)
LEMMA UnitsFinite ==
  ASSUME NEW H, NEW f, NEW N \in Nat
  PROVE  IsFiniteSet(Units(H, f, N)) /\ Cardinality(Units(H, f, N)) \in Nat
<1>0. IsFiniteSet(1..N)
  BY FS_Interval
<1>1. IsFiniteSet(Procs \X (1..N))
  BY <1>0, ResourceAssumption, FS_Product, Zenon
<1>2. Units(H, f, N) \subseteq Procs \X (1..N)
  BY DEF Units
<1> QED BY <1>1, <1>2, FS_Subset, FS_CardinalityType

(* A holder more adds exactly its own units. *)
LEMMA UnitsAdd ==
  ASSUME NEW H \in SUBSET Procs, NEW p \in Procs, p \notin H,
         NEW N \in Nat, NEW f \in [Procs -> Nat], NEW g \in [Procs -> Nat],
         \A q \in H : f[q] = g[q], g[p] <= N
  PROVE  Cardinality(Units(H \cup {p}, g, N)) = Cardinality(Units(H, f, N)) + g[p]
<1> DEFINE A == Units(H, f, N)
           B == {p} \X (1..g[p])
<1>1. Units(H \cup {p}, g, N) = A \cup B
  <2>1. ASSUME NEW u \in Units(H \cup {p}, g, N) PROVE u \in A \cup B
    BY <2>1 DEF Units
  <2>2. ASSUME NEW u \in A PROVE u \in Units(H \cup {p}, g, N)
    BY <2>2 DEF Units
  <2>3. ASSUME NEW u \in B PROVE u \in Units(H \cup {p}, g, N)
    BY <2>3 DEF Units
  <2> QED BY <2>1, <2>2, <2>3
<1>2. A \cap B = {}
  BY DEF Units
<1>3. IsFiniteSet(A) /\ Cardinality(A) \in Nat
  BY UnitsFinite
<1>4. IsFiniteSet(B) /\ Cardinality(B) = g[p]
  BY Column
<1>5. Cardinality(A \cup B) = Cardinality(A) + Cardinality(B) - Cardinality(A \cap B)
  BY <1>3, <1>4, FS_Union
<1>6. Cardinality(A \cap B) = 0
  BY <1>2, FS_EmptySet
<1>7. Cardinality(A \cup B) = Cardinality(A) + g[p]
  <2> HIDE DEF A, B
  <2> QED BY <1>3, <1>4, <1>5, <1>6
<1> QED BY <1>1, <1>7

(* Steps that change neither the holders nor what they hold keep the units. *)
LEMMA UnitsSame ==
  ASSUME NEW H, NEW f, NEW g, NEW N, \A q \in H : f[q] = g[q]
  PROVE  Units(H, f, N) = Units(H, g, N)
BY DEF Units

RamOf == [p \in Procs |-> req[p].mem]
CpuOf == [p \in Procs |-> req[p].cpu]

LEMMA OfType == TrackerTypes => RamOf \in [Procs -> Nat] /\ CpuOf \in [Procs -> Nat]
BY DEF TrackerTypes, RamOf, CpuOf, Request

(* Conserved, in the terms of the lemmas above. *)
LEMMA ConservedDef ==
  Conserved <=> /\ ramUsed = Cardinality(Units(Held, RamOf, RamTotal))
                /\ cpuUsed = Cardinality(Units(Held, CpuOf, CpuTotal))
BY DEF Conserved, RamUnits, CpuUnits, RamOf, CpuOf

LEMMA TotalsType == RamTotal \in Nat /\ CpuTotal \in Nat
BY ResourceAssumption
-----------------------------------------------------------------------------
(* allocResourcesLocked keeps the books. *)
LEMMA AllocConserves ==
  ASSUME TrackerTypes, TrackerTypes', Conserved, NEW p \in Procs, NEW r \in Request,
         pc[p] # "held", req' = [req EXCEPT ![p] = r],
         isResourceAvailableLocked(r), IsResourcePossible(r),
         allocResourcesLocked(p, r)
  PROVE  Conserved' /\ NoOvercommit'
<1>1. Held' = Held \cup {p} /\ p \notin Held /\ Held \in SUBSET Procs
  BY DEF Held, allocResourcesLocked, TrackerTypes
<1>2. RamOf' \in [Procs -> Nat] /\ CpuOf' \in [Procs -> Nat]
      /\ RamOf \in [Procs -> Nat] /\ CpuOf \in [Procs -> Nat]
  BY DEF TrackerTypes, RamOf, CpuOf, Request
<1>3. \A q \in Held : RamOf[q] = RamOf'[q] /\ CpuOf[q] = CpuOf'[q]
  BY <1>1 DEF RamOf, CpuOf, TrackerTypes
<1>4. RamOf'[p] = r.mem /\ CpuOf'[p] = r.cpu
  BY DEF RamOf, CpuOf, TrackerTypes
<1>5. r.mem <= RamTotal /\ r.cpu <= CpuTotal
  BY DEF IsResourcePossible
<1>6. Cardinality(Units(Held \cup {p}, RamOf', RamTotal))
        = Cardinality(Units(Held, RamOf, RamTotal)) + RamOf'[p]
  BY <1>1, <1>2, <1>3, <1>4, <1>5, TotalsType, UnitsAdd
<1>7. Cardinality(Units(Held \cup {p}, CpuOf', CpuTotal))
        = Cardinality(Units(Held, CpuOf, CpuTotal)) + CpuOf'[p]
  BY <1>1, <1>2, <1>3, <1>4, <1>5, TotalsType, UnitsAdd
<1>8. ramUsed' = ramUsed + r.mem /\ cpuUsed' = cpuUsed + r.cpu
  BY DEF allocResourcesLocked
<1>9. /\ ramUsed' = Cardinality(Units(Held', RamOf', RamTotal))
      /\ cpuUsed' = Cardinality(Units(Held', CpuOf', CpuTotal))
  BY <1>1, <1>4, <1>6, <1>7, <1>8, ConservedDef
<1>10. Conserved'
  BY <1>9 DEF Conserved, RamUnits, CpuUnits, RamOf, CpuOf
<1>11. NoOvercommit'
  BY <1>8, TotalsType DEF NoOvercommit, isResourceAvailableLocked, AvailMem,
                          AvailCPU, TrackerTypes, Request
<1> QED BY <1>10, <1>11

(* The release of a token keeps the books, and does not go below zero. *)
LEMMA ReleaseConserves ==
  ASSUME TrackerTypes, TrackerTypes', Conserved, NoOvercommit, CallsConsistent,
         NEW p \in Procs, CloseRelease(p)
  PROVE  Conserved' /\ NoOvercommit' /\ ramUsed' >= 0 /\ cpuUsed' >= 0
<1>1. Held = Held' \cup {p} /\ p \notin Held' /\ Held' \in SUBSET Procs
  BY DEF Held, CloseRelease, TrackerTypes
<1>2. RamOf' \in [Procs -> Nat] /\ CpuOf' \in [Procs -> Nat]
      /\ RamOf \in [Procs -> Nat] /\ CpuOf \in [Procs -> Nat]
  BY DEF TrackerTypes, RamOf, CpuOf, Request
<1>3. \A q \in Held' : RamOf'[q] = RamOf[q] /\ CpuOf'[q] = CpuOf[q]
  BY <1>1 DEF RamOf, CpuOf, TrackerTypes, CloseRelease
<1>4. RamOf[p] = req[p].mem /\ CpuOf[p] = req[p].cpu
  BY DEF RamOf, CpuOf
<1>5. RamOf[p] <= RamTotal /\ CpuOf[p] <= CpuTotal
  BY <1>4 DEF CallsConsistent, CloseRelease, IsResourcePossible
<1>6. Cardinality(Units(Held' \cup {p}, RamOf, RamTotal))
        = Cardinality(Units(Held', RamOf', RamTotal)) + RamOf[p]
  BY <1>1, <1>2, <1>3, <1>5, TotalsType, UnitsAdd
<1>7. Cardinality(Units(Held' \cup {p}, CpuOf, CpuTotal))
        = Cardinality(Units(Held', CpuOf', CpuTotal)) + CpuOf[p]
  BY <1>1, <1>2, <1>3, <1>5, TotalsType, UnitsAdd
<1>8. ramUsed' = ramUsed - RamOf[p] /\ cpuUsed' = cpuUsed - CpuOf[p]
  BY <1>4 DEF CloseRelease
<1>9. /\ Cardinality(Units(Held', RamOf', RamTotal)) \in Nat
      /\ Cardinality(Units(Held', CpuOf', CpuTotal)) \in Nat
  BY UnitsFinite, TotalsType
<1>10. RamOf[p] \in Nat /\ CpuOf[p] \in Nat
  BY <1>2
<1>11. /\ ramUsed' = Cardinality(Units(Held', RamOf', RamTotal))
       /\ cpuUsed' = Cardinality(Units(Held', CpuOf', CpuTotal))
  BY <1>1, <1>6, <1>7, <1>8, <1>9, <1>10, ConservedDef
<1>12. Conserved'
  BY <1>11 DEF Conserved, RamUnits, CpuUnits, RamOf, CpuOf
<1>13. NoOvercommit'
  BY <1>8, <1>10, TotalsType DEF NoOvercommit, TrackerTypes
<1> QED BY <1>9, <1>11, <1>12, <1>13

(* Every other step leaves the holders and what they hold alone. *)
LEMMA SameConserves ==
  ASSUME TrackerTypes, TrackerTypes', Conserved, NoOvercommit, UNCHANGED <<ramUsed, cpuUsed>>,
         Held' = Held, \A q \in Held : req'[q] = req[q]
  PROVE  Conserved' /\ NoOvercommit'
<1>1. \A q \in Held : RamOf[q] = RamOf'[q] /\ CpuOf[q] = CpuOf'[q]
  BY DEF RamOf, CpuOf, Held
<1>2. /\ Units(Held, RamOf', RamTotal) = Units(Held, RamOf, RamTotal)
      /\ Units(Held, CpuOf', CpuTotal) = Units(Held, CpuOf, CpuTotal)
  BY <1>1, UnitsSame
<1>3. /\ ramUsed' = Cardinality(Units(Held', RamOf', RamTotal))
      /\ cpuUsed' = Cardinality(Units(Held', CpuOf', CpuTotal))
  BY <1>2, ConservedDef
<1>4. Conserved'
  BY <1>3 DEF Conserved, RamUnits, CpuUnits, RamOf, CpuOf
<1> QED BY <1>4 DEF NoOvercommit
-----------------------------------------------------------------------------
LEMMA RequestType ==
  ASSUME NEW m \in MemReq, NEW c \in CpuReq
  PROVE  [mem |-> m * Mem1MB, cpu |-> c] \in Request /\ m \in Nat /\ c \in Nat
BY ResourceAssumption DEF Request

LEMMA NeedType ==
  ASSUME TrackerTypes, NEW r \in Request
  PROVE  NeededCapacity(r) \in Need
<1>1. AvailMem \in Int /\ AvailCPU \in Int /\ r.mem \in Nat /\ r.cpu \in Nat
  BY TotalsType DEF TrackerTypes, AvailMem, AvailCPU, Request
<1>2. ASSUME AvailMem < r.mem PROVE (r.mem - AvailMem) \div Mem1MB \in Nat
  BY <1>1, <1>2, ResourceAssumption
<1> QED BY <1>1, <1>2 DEF NeededCapacity, Need

(* The type invariant is inductive on its own. *)
LEMMA TypeNext == TrackerTypes /\ [TrackerNext]_trackerVars => TrackerTypes'
<1> SUFFICES ASSUME TrackerTypes, [TrackerNext]_trackerVars PROVE TrackerTypes'
  OBVIOUS
<1>1. ASSUME NEW p \in Procs, NEW m \in MemReq, NEW c \in CpuReq,
             GetResourceTokenNB(p, m, c)
      PROVE  TrackerTypes'
  <2> DEFINE r == [mem |-> m * Mem1MB, cpu |-> c]
  <2>1. r \in Request /\ m \in Nat /\ c \in Nat
    BY RequestType
  <2>2. NeededCapacity(r) \in Need
    BY <2>1, NeedType
  <2>3. [mem |-> m, cpu |-> c] \in Need
    BY <2>1 DEF Need, Request
  <2>4. r.mem \in Nat /\ r.cpu \in Nat
    BY <2>1 DEF Request
  <2>5. /\ req' = [req EXCEPT ![p] = r]
        /\ UNCHANGED <<condWait, ctxDone, armed>>
        /\ \/ /\ allocResourcesLocked(p, r) /\ UNCHANGED need
           \/ /\ \/ need' = [need EXCEPT ![p] = NeededCapacity(r)]
                 \/ need' = [need EXCEPT ![p] = [mem |-> m, cpu |-> c]]
              /\ pc' = [pc EXCEPT ![p] = "full"]
              /\ UNCHANGED <<ramUsed, cpuUsed>>
    BY <1>1 DEF GetResourceTokenNB
  <2> HIDE DEF r
  <2>6. req' \in [Procs -> Request] /\ need' \in [Procs -> Need]
    BY <2>1, <2>2, <2>3, <2>5 DEF TrackerTypes
  <2>7. ramUsed' \in Int /\ cpuUsed' \in Int /\ pc' \in [Procs -> PC]
    BY <2>4, <2>5 DEF TrackerTypes, allocResourcesLocked, PC
  <2> QED BY <2>5, <2>6, <2>7 DEF TrackerTypes
<1>2. ASSUME NEW p \in Procs, NEW m \in MemReq, NEW c \in CpuReq,
             GetResourceToken(p, m, c)
      PROVE  TrackerTypes'
  BY <1>2, RequestType DEF GetResourceToken, TrackerTypes, PC
<1>3. ASSUME NEW p \in Procs, CloseFull(p) PROVE TrackerTypes'
  BY <1>3 DEF CloseFull, TrackerTypes, PC, NoReq, NoNeed, Request, Need
<1>4. ASSUME NEW p \in Procs, AwaitResource(p) PROVE TrackerTypes'
  <2>1. req[p].mem \in Nat /\ req[p].cpu \in Nat
    BY DEF TrackerTypes, Request
  <2>2. ramUsed' \in Int /\ cpuUsed' \in Int
    BY <1>4, <2>1 DEF AwaitResource, allocResourcesLocked, TrackerTypes
  <2>3. pc' \in [Procs -> PC] /\ condWait' \in SUBSET Procs
    BY <1>4 DEF AwaitResource, allocResourcesLocked, TrackerTypes, PC
  <2>4. req' \in [Procs -> Request]
    BY <1>4 DEF AwaitResource, TrackerTypes, NoReq, Request
  <2>5. /\ ctxDone' \in [Procs -> BOOLEAN] /\ armed' \in [Procs -> BOOLEAN]
        /\ need' = need
    BY <1>4 DEF AwaitResource, TrackerTypes
  <2> QED BY <2>2, <2>3, <2>4, <2>5 DEF TrackerTypes
<1>5. ASSUME NEW p \in Procs, CtxDone(p) \/ CtxWatcher(p) PROVE TrackerTypes'
  BY <1>5 DEF CtxDone, CtxWatcher, TrackerTypes
<1>6. ASSUME NEW p \in Procs, CloseRelease(p) PROVE TrackerTypes'
  <2>1. req[p].mem \in Nat /\ req[p].cpu \in Nat
    BY DEF TrackerTypes, Request
  <2> QED BY <1>6, <2>1 DEF CloseRelease, TrackerTypes, PC, NoReq, Request
<1>7. ASSUME NEW p \in Procs, CloseBroadcast(p) PROVE TrackerTypes'
  BY <1>7 DEF CloseBroadcast, TrackerTypes, PC
<1>8. CASE UNCHANGED trackerVars
  BY <1>8 DEF trackerVars, TrackerTypes
<1> QED BY <1>1, <1>2, <1>3, <1>4, <1>5, <1>6, <1>7, <1>8 DEF TrackerNext
-----------------------------------------------------------------------------
LEMMA TrackerInvInit == TrackerInit => TrackerInv
<1> SUFFICES ASSUME TrackerInit PROVE TrackerInv
  OBVIOUS
<1>1. TrackerTypes
  BY DEF TrackerInit, TrackerTypes, PC, NoReq, NoNeed, Request, Need
<1>2. Held = {}
  BY DEF TrackerInit, Held
<1>3. Units({}, RamOf, RamTotal) = {} /\ Units({}, CpuOf, CpuTotal) = {}
  BY DEF Units
<1>4. Conserved
  BY <1>2, <1>3, FS_EmptySet, ConservedDef DEF TrackerInit
<1>5. NoOvercommit
  BY TotalsType DEF TrackerInit, NoOvercommit
<1>6. CallsConsistent /\ NoLostWakeup
  BY DEF TrackerInit, CallsConsistent, NoLostWakeup
<1> QED BY <1>1, <1>4, <1>5, <1>6 DEF TrackerInv

(* A step that frees nothing strands nobody: the waiters it does not wake   *)
(* and does not cancel are no better off than before.                       *)
LEMMA WakeupKept ==
  ASSUME TrackerTypes, TrackerTypes', NoLostWakeup, CallsConsistent, NEW p \in Procs,
         ramUsed' >= ramUsed, cpuUsed' >= cpuUsed,
         condWait' \subseteq condWait, p \notin condWait,
         \A q \in Procs : q # p =>
            /\ pc'[q] = pc[q] /\ req'[q] = req[q]
            /\ ctxDone'[q] = ctxDone[q] /\ armed'[q] = armed[q],
         pc[p] # "closing"
  PROVE  NoLostWakeup'
<1> SUFFICES ASSUME NEW q \in condWait'
             PROVE  /\ isResourceAvailableLocked(req[q])' =>
                         \E k \in Procs : pc'[k] = "closing"
                    /\ ctxDone'[q] => armed'[q]
  BY DEF NoLostWakeup
<1>1. q \in Procs /\ q # p /\ q \in condWait
  BY DEF TrackerTypes
<1>2. req'[q] = req[q] /\ req[q].mem \in Nat /\ req[q].cpu \in Nat
  BY <1>1 DEF TrackerTypes, Request
<1>3. isResourceAvailableLocked(req[q])' => isResourceAvailableLocked(req[q])
  BY <1>2, TotalsType DEF isResourceAvailableLocked, AvailMem, AvailCPU, TrackerTypes
<1>4. isResourceAvailableLocked(req[q]) => \E k \in Procs : pc[k] = "closing"
  BY <1>1 DEF NoLostWakeup
<1>5. \A k \in Procs : pc[k] = "closing" => pc'[k] = "closing"
  OBVIOUS
<1>6. ctxDone'[q] => armed'[q]
  BY <1>1 DEF NoLostWakeup
<1> QED BY <1>3, <1>4, <1>5, <1>6

LEMMA TrackerInvNext == TrackerInv /\ [TrackerNext]_trackerVars => TrackerInv'
<1> SUFFICES ASSUME TrackerInv, [TrackerNext]_trackerVars PROVE TrackerInv'
  OBVIOUS
<1>0. TrackerTypes /\ TrackerTypes' /\ Conserved /\ NoOvercommit /\ CallsConsistent
      /\ NoLostWakeup
  BY TypeNext DEF TrackerInv
<1>1. ASSUME NEW p \in Procs, NEW m \in MemReq, NEW c \in CpuReq,
             GetResourceTokenNB(p, m, c)
      PROVE  TrackerInv'
  <2> DEFINE r == [mem |-> m * Mem1MB, cpu |-> c]
  <2>1. r \in Request /\ r.mem \in Nat /\ r.cpu \in Nat
    BY RequestType, ResourceAssumption
  <2>2. /\ pc[p] = "idle" /\ p \notin condWait
        /\ req' = [req EXCEPT ![p] = r]
        /\ UNCHANGED <<condWait, ctxDone, armed>>
        /\ \/ /\ IsResourcePossible(r) /\ isResourceAvailableLocked(r)
              /\ allocResourcesLocked(p, r)
           \/ pc' = [pc EXCEPT ![p] = "full"] /\ UNCHANGED <<ramUsed, cpuUsed>>
    BY <1>0, <1>1 DEF GetResourceTokenNB, CallsConsistent
  <2> HIDE DEF r
  <2>3. Conserved' /\ NoOvercommit'
    <3>1. CASE /\ IsResourcePossible(r) /\ isResourceAvailableLocked(r)
               /\ allocResourcesLocked(p, r)
      BY <1>0, <2>1, <2>2, <3>1, AllocConserves
    <3>2. CASE pc' = [pc EXCEPT ![p] = "full"] /\ UNCHANGED <<ramUsed, cpuUsed>>
      <4>1. Held' = Held /\ \A q \in Held : req'[q] = req[q]
        BY <1>0, <2>2, <3>2 DEF Held, TrackerTypes
      <4> QED BY <1>0, <3>2, <4>1, SameConserves
    <3> QED BY <2>2, <3>1, <3>2
  <2>4. CallsConsistent'
    BY <1>0, <2>2 DEF CallsConsistent, allocResourcesLocked, TrackerTypes,
                      IsResourcePossible
  <2>5. ramUsed' >= ramUsed /\ cpuUsed' >= cpuUsed
    BY <1>0, <2>1, <2>2 DEF allocResourcesLocked, TrackerTypes
  <2>6. \A q \in Procs : q # p => pc'[q] = pc[q] /\ req'[q] = req[q]
    BY <1>0, <2>2 DEF allocResourcesLocked, TrackerTypes
  <2>7. NoLostWakeup'
    BY <1>0, <2>2, <2>5, <2>6, WakeupKept
  <2> QED BY <1>0, <2>3, <2>4, <2>7 DEF TrackerInv
<1>2. ASSUME NEW p \in Procs, NEW m \in MemReq, NEW c \in CpuReq,
             GetResourceToken(p, m, c)
      PROVE  TrackerInv'
  <2> DEFINE r == [mem |-> m * Mem1MB, cpu |-> c]
  <2>1. /\ pc[p] = "idle" /\ p \notin condWait
        /\ IsResourcePossible(r)
        /\ req' = [req EXCEPT ![p] = r]
        /\ pc' = [pc EXCEPT ![p] = "enter"]
        /\ armed' = [armed EXCEPT ![p] = TRUE]
        /\ UNCHANGED <<ramUsed, cpuUsed, condWait, ctxDone>>
    BY <1>0, <1>2 DEF GetResourceToken, CallsConsistent
  <2> HIDE DEF r
  <2>2. Held' = Held /\ \A q \in Held : req'[q] = req[q]
    BY <1>0, <2>1 DEF Held, TrackerTypes
  <2>3. Conserved' /\ NoOvercommit'
    BY <1>0, <2>1, <2>2, SameConserves
  <2>4. CallsConsistent'
    BY <1>0, <2>1 DEF CallsConsistent, TrackerTypes, IsResourcePossible
  <2>5. NoLostWakeup'
    <3>1. ramUsed' >= ramUsed /\ cpuUsed' >= cpuUsed
      BY <1>0, <2>1 DEF TrackerTypes
    <3>2. \A q \in Procs : q # p =>
            /\ pc'[q] = pc[q] /\ req'[q] = req[q]
            /\ ctxDone'[q] = ctxDone[q] /\ armed'[q] = armed[q]
      BY <1>0, <2>1 DEF TrackerTypes
    <3> QED BY <1>0, <2>1, <3>1, <3>2, WakeupKept
  <2> QED BY <1>0, <2>3, <2>4, <2>5 DEF TrackerInv
<1>3. ASSUME NEW p \in Procs, CloseFull(p) PROVE TrackerInv'
  <2>1. /\ pc[p] = "full" /\ p \notin condWait
        /\ pc' = [pc EXCEPT ![p] = "idle"] /\ req' = [req EXCEPT ![p] = NoReq]
        /\ UNCHANGED <<ramUsed, cpuUsed, condWait, ctxDone, armed>>
    BY <1>0, <1>3 DEF CloseFull, CallsConsistent
  <2>2. Held' = Held /\ \A q \in Held : req'[q] = req[q]
    BY <1>0, <2>1 DEF Held, TrackerTypes
  <2>3. Conserved' /\ NoOvercommit'
    BY <1>0, <2>1, <2>2, SameConserves
  <2>4. CallsConsistent'
    BY <1>0, <2>1 DEF CallsConsistent, TrackerTypes, IsResourcePossible
  <2>5. NoLostWakeup'
    <3>1. ramUsed' >= ramUsed /\ cpuUsed' >= cpuUsed
      BY <1>0, <2>1 DEF TrackerTypes
    <3>2. \A q \in Procs : q # p => pc'[q] = pc[q] /\ req'[q] = req[q]
      BY <1>0, <2>1 DEF TrackerTypes
    <3> QED BY <1>0, <2>1, <3>1, <3>2, WakeupKept
  <2> QED BY <1>0, <2>3, <2>4, <2>5 DEF TrackerInv
<1>4. ASSUME NEW p \in Procs, AwaitResource(p) PROVE TrackerInv'
  <2>1. p \notin condWait /\ pc[p] \in {"enter", "wait"}
    BY <1>0, <1>4 DEF AwaitResource, CallsConsistent
  <2>2. CASE /\ ~isResourceAvailableLocked(req[p]) /\ ~ctxDone[p]
             /\ condWait' = condWait \cup {p}
             /\ pc' = [pc EXCEPT ![p] = "wait"]
             /\ UNCHANGED <<ramUsed, cpuUsed, req, ctxDone, armed>>
    <3>1. Held' = Held /\ \A q \in Held : req'[q] = req[q]
      BY <1>0, <2>1, <2>2 DEF Held, TrackerTypes
    <3>2. Conserved' /\ NoOvercommit'
      BY <1>0, <2>2, <3>1, SameConserves
    <3>3. CallsConsistent'
      BY <1>0, <2>1, <2>2 DEF CallsConsistent, TrackerTypes, IsResourcePossible
    <3>4. NoLostWakeup'
      <4>1. \A k \in Procs : pc[k] = "closing" => pc'[k] = "closing"
        BY <1>0, <2>1, <2>2 DEF TrackerTypes
      <4>2. \A q \in condWait' : q = p \/ q \in condWait
        BY <2>2
      <4> QED BY <1>0, <2>2, <4>1, <4>2
              DEF NoLostWakeup, isResourceAvailableLocked, AvailMem, AvailCPU
    <3> QED BY <1>0, <3>2, <3>3, <3>4 DEF TrackerInv
  <2>3. CASE /\ ctxDone[p]
             /\ pc' = [pc EXCEPT ![p] = "idle"]
             /\ req' = [req EXCEPT ![p] = NoReq]
             /\ ctxDone' = [ctxDone EXCEPT ![p] = FALSE]
             /\ armed' = [armed EXCEPT ![p] = FALSE]
             /\ UNCHANGED <<ramUsed, cpuUsed, condWait>>
    <3>1. Held' = Held /\ \A q \in Held : req'[q] = req[q]
      BY <1>0, <2>1, <2>3 DEF Held, TrackerTypes
    <3>2. Conserved' /\ NoOvercommit'
      BY <1>0, <2>3, <3>1, SameConserves
    <3>3. CallsConsistent'
      BY <1>0, <2>1, <2>3 DEF CallsConsistent, TrackerTypes, IsResourcePossible
    <3>4. NoLostWakeup'
      <4>1. ramUsed' >= ramUsed /\ cpuUsed' >= cpuUsed
        BY <1>0, <2>3 DEF TrackerTypes
      <4>2. \A q \in Procs : q # p =>
              /\ pc'[q] = pc[q] /\ req'[q] = req[q]
              /\ ctxDone'[q] = ctxDone[q] /\ armed'[q] = armed[q]
        BY <1>0, <2>3 DEF TrackerTypes
      <4> QED BY <1>0, <2>1, <2>3, <4>1, <4>2, WakeupKept
    <3> QED BY <1>0, <3>2, <3>3, <3>4 DEF TrackerInv
  <2>4. CASE /\ isResourceAvailableLocked(req[p]) /\ ~ctxDone[p]
             /\ allocResourcesLocked(p, req[p])
             /\ armed' = [armed EXCEPT ![p] = FALSE]
             /\ UNCHANGED <<condWait, req, ctxDone>>
    <3>1. req[p] \in Request /\ IsResourcePossible(req[p])
          /\ req' = [req EXCEPT ![p] = req[p]] /\ pc[p] # "held"
      BY <1>0, <2>1, <2>4 DEF TrackerTypes, CallsConsistent
    <3>2. Conserved' /\ NoOvercommit'
      BY <1>0, <2>4, <3>1, AllocConserves
    <3>3. CallsConsistent'
      BY <1>0, <2>1, <2>4 DEF CallsConsistent, TrackerTypes, IsResourcePossible,
                              allocResourcesLocked
    <3>4. NoLostWakeup'
      <4>1. ramUsed' >= ramUsed /\ cpuUsed' >= cpuUsed
        BY <1>0, <2>4, <3>1 DEF TrackerTypes, Request, allocResourcesLocked
      <4>2. \A q \in Procs : q # p =>
              pc'[q] = pc[q] /\ armed'[q] = armed[q]
        BY <1>0, <2>4 DEF TrackerTypes, allocResourcesLocked
      <4> QED BY <1>0, <2>1, <2>4, <4>1, <4>2, WakeupKept
    <3> QED BY <1>0, <3>2, <3>3, <3>4 DEF TrackerInv
  <2> QED BY <1>4, <2>2, <2>3, <2>4 DEF AwaitResource
<1>5. ASSUME NEW p \in Procs, CtxDone(p) \/ CtxWatcher(p) PROVE TrackerInv'
  <2>1. UNCHANGED <<ramUsed, cpuUsed, pc, req>> /\ condWait' \subseteq condWait
    BY <1>5 DEF CtxDone, CtxWatcher
  <2>2. Held' = Held /\ \A q \in Held : req'[q] = req[q]
    BY <2>1 DEF Held
  <2>3. Conserved' /\ NoOvercommit'
    BY <1>0, <2>1, <2>2, SameConserves
  <2>4. CallsConsistent'
    BY <1>0, <1>5 DEF CtxDone, CtxWatcher, CallsConsistent, TrackerTypes,
                      IsResourcePossible
  <2>5. \A q \in condWait' : ctxDone'[q] => armed'[q]
    BY <1>0, <1>5 DEF CtxDone, CtxWatcher, CallsConsistent, NoLostWakeup, TrackerTypes
  <2>6. NoLostWakeup'
    BY <1>0, <2>1, <2>5 DEF NoLostWakeup, isResourceAvailableLocked, AvailMem,
                            AvailCPU
  <2> QED BY <1>0, <2>3, <2>4, <2>6 DEF TrackerInv
<1>6. ASSUME NEW p \in Procs, CloseRelease(p) PROVE TrackerInv'
  <2>1. Conserved' /\ NoOvercommit'
    BY <1>0, <1>6, ReleaseConserves
  <2>2. CallsConsistent'
    BY <1>0, <1>6 DEF CloseRelease, CallsConsistent, TrackerTypes, IsResourcePossible
  <2>3. NoLostWakeup'
    <3>1. pc'[p] = "closing" /\ UNCHANGED <<condWait, ctxDone, armed>>
      BY <1>0, <1>6 DEF CloseRelease, TrackerTypes
    <3> QED BY <1>0, <3>1 DEF NoLostWakeup
  <2> QED BY <1>0, <2>1, <2>2, <2>3 DEF TrackerInv
<1>7. ASSUME NEW p \in Procs, CloseBroadcast(p) PROVE TrackerInv'
  <2>1. Held' = Held /\ \A q \in Held : req'[q] = req[q]
    BY <1>0, <1>7 DEF CloseBroadcast, Held, TrackerTypes
  <2>2. Conserved' /\ NoOvercommit'
    BY <1>0, <1>7, <2>1, SameConserves DEF CloseBroadcast
  <2>3. CallsConsistent'
    BY <1>0, <1>7 DEF CloseBroadcast, CallsConsistent, TrackerTypes, IsResourcePossible
  <2>4. NoLostWakeup'
    BY <1>7 DEF CloseBroadcast, NoLostWakeup
  <2> QED BY <1>0, <2>2, <2>3, <2>4 DEF TrackerInv
<1>8. CASE UNCHANGED trackerVars
  <2>1. Held' = Held /\ \A q \in Held : req'[q] = req[q]
    BY <1>8 DEF trackerVars, Held
  <2>2. Conserved' /\ NoOvercommit'
    BY <1>0, <1>8, <2>1, SameConserves DEF trackerVars
  <2>3. CallsConsistent' /\ NoLostWakeup'
    BY <1>0, <1>8 DEF trackerVars, CallsConsistent, NoLostWakeup, IsResourcePossible,
                      isResourceAvailableLocked, AvailMem, AvailCPU
  <2> QED BY <1>0, <2>2, <2>3 DEF TrackerInv
<1> QED BY <1>1, <1>2, <1>3, <1>4, <1>5, <1>6, <1>7, <1>8 DEF TrackerNext

LEMMA TrackerInvAlways == TrackerSpec => []TrackerInv
BY TrackerInvInit, TrackerInvNext, PTL DEF TrackerSpec

(* The type invariant of the tracker. *)
THEOREM TrackerTypeOK == TrackerSpec => []TrackerTypes
<1>1. TrackerInv => TrackerTypes
  BY DEF TrackerInv
<1> QED BY <1>1, TrackerInvAlways, PTL

(* ramUsed and cpuUsed are always exactly the sum of the held tokens. *)
THEOREM TrackerConserves == TrackerSpec => []Conserved
<1>1. TrackerInv => Conserved
  BY DEF TrackerInv
<1> QED BY <1>1, TrackerInvAlways, PTL

(* The reservations of the running containers never exceed the machine. *)
THEOREM TrackerNeverOvercommits == TrackerSpec => []NoOvercommit
<1>1. TrackerInv => NoOvercommit
  BY DEF TrackerInv
<1> QED BY <1>1, TrackerInvAlways, PTL

(* The tokens granted and not closed fit the machine, in memory and in CPU. *)
THEOREM TrackerTokensFit == TrackerSpec => []TokensFit
BY TrackerConserves, TrackerNeverOvercommits, PTL DEF TokensFit

(* No goroutine sleeps in GetResourceToken while its request could be met   *)
(* or its context is done, unless its wake-up is under way.                 *)
THEOREM TrackerWakes == TrackerSpec => []NoLostWakeup
<1>1. TrackerInv => NoLostWakeup
  BY DEF TrackerInv
<1> QED BY <1>1, TrackerInvAlways, PTL
=============================================================================
