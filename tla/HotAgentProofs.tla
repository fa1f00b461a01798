---------------------------- MODULE HotAgentProofs ----------------------------
(***************************************************************************)
(* Proofs about HotAgent for every set of calls, containers and queues and *)
(* every capacity: a call that executes has a live container to itself,    *)
(* the units reserved are exactly those of the containers that hold one,   *)
(* and nothing is up once the driver is closed.                            *)
(***************************************************************************)
EXTENDS HotAgent, FiniteSetTheorems, TLAPS

(* The tracker's count is the number of containers that hold a unit, in a  *)
(* launcher's hands or in runHot's: this is what keeps tokClose and        *)
(* giveBack from giving back more than was taken.                          *)
HoldingCtrs == {k \in Ctrs : main[k] \in Holding}
Exact == used = Cardinality(HoldingCtrs)

(* A launcher asks for a token, or waits for an eviction, with a container *)
(* of its own queue that has not been started; it holds a token exactly    *)
(* from the grant until runHot takes over or the token is given back.      *)
Launching ==
  \A q \in Keys :
    /\ launcher[q] \in {"token", "await", "granted", "giveBack"} => lctr[q] # None
    /\ lctr[q] # None =>
         /\ key[lctr[q]] = q
         /\ main[lctr[q]] = IF launcher[q] \in {"granted", "giveBack"} THEN "granted" ELSE "wait"

(* A token that runHot does not have yet is in some launcher's hands.      *)
Granted == \A k \in Ctrs : main[k] = "granted" => k \in InLauncher

(* The child goroutine lives inside runHot, and slot.done is only written  *)
(* while its slot is out.                                                  *)
Serving ==
  \A k \in Ctrs :
    /\ child[k] # "over" => main[k] \in {"run", "stop"}
    /\ fin[k] # "no" => child[k] \in {"taken", "busy"}

(* A call that executes holds the slot of one container, which waits for   *)
(* slot.done.                                                              *)
Executing ==
  \A c \in Calls : call[c] = "exec" =>
    /\ slot[c] \in Ctrs /\ key[slot[c]] = KeyOf[c]
    /\ child[slot[c]] \in {"taken", "busy"} /\ fin[slot[c]] = "no"
    /\ \A d \in Calls \ {c} : call[d] = "exec" => slot[d] # slot[c]

Drained == closer = "closed" => Sessions = {}

IInv ==
  /\ TypeOK /\ Exact /\ Launching /\ Granted
  /\ Serving /\ Executing /\ Drained

-----------------------------------------------------------------------------
LEMMA HoldingFinite ==
  /\ IsFiniteSet(HoldingCtrs) /\ Cardinality(HoldingCtrs) \in Nat
  /\ Cardinality(HoldingCtrs) = 0 <=> HoldingCtrs = {}
<1>1. IsFiniteSet(HoldingCtrs)
  BY AgentAssumption, FS_Subset DEF HoldingCtrs
<1> QED BY <1>1, FS_CardinalityType, FS_EmptySet

(* A container takes its unit, or gives it back. *)
LEMMA HoldingAdd ==
  ASSUME TypeOK, NEW k \in Ctrs, main[k] \notin Holding, NEW s \in Holding,
         main' = [main EXCEPT ![k] = s]
  PROVE  Cardinality(HoldingCtrs') = Cardinality(HoldingCtrs) + 1
<1>1. HoldingCtrs' = HoldingCtrs \cup {k} /\ k \notin HoldingCtrs
  BY DEF HoldingCtrs, TypeOK
<1> QED BY <1>1, HoldingFinite, FS_AddElement

LEMMA HoldingRemove ==
  ASSUME TypeOK, NEW k \in Ctrs, main[k] \in Holding, NEW s, s \notin Holding,
         main' = [main EXCEPT ![k] = s]
  PROVE  /\ Cardinality(HoldingCtrs') = Cardinality(HoldingCtrs) - 1
         /\ Cardinality(HoldingCtrs) # 0
<1>1. HoldingCtrs' = HoldingCtrs \ {k} /\ k \in HoldingCtrs
  BY DEF HoldingCtrs, TypeOK
<1> QED BY <1>1, HoldingFinite, FS_RemoveElement

LEMMA HoldingSame ==
  ASSUME TypeOK, NEW k \in Ctrs, NEW s, main[k] \in Holding <=> s \in Holding,
         main' = [main EXCEPT ![k] = s], used' = used, Exact
  PROVE  Exact'
<1>1. HoldingCtrs' = HoldingCtrs
  BY DEF HoldingCtrs, TypeOK
<1> QED BY <1>1 DEF Exact

(* The queue of a call. *)
LEMMA KeyOfCall == TypeOK => \A c \in Calls : KeyOf[c] \in Keys
  BY AgentAssumption DEF TypeOK, KeyOf

-----------------------------------------------------------------------------
(* Calls.                                                                  *)

LEMMA SubmitInv == ASSUME IInv, NEW c \in Calls, submit(c) PROVE IInv'
<1> USE DEF IInv, submit, avars, kvars, lvars
<1>1. TypeOK'
  BY DEF TypeOK, InCall
<1>2. Exact' /\ Launching' /\ Granted' /\ Serving'
  BY DEF Exact, HoldingCtrs, Launching, Granted, InLauncher, Serving
<1>3. Executing'
  BY DEF Executing, TypeOK, KeyOf
<1>4. Drained'
  BY DEF Drained, Sessions, TypeOK, InCall
<1> QED BY <1>1, <1>2, <1>3, <1>4

LEMMA GetSlotInv == ASSUME IInv, NEW c \in Calls, getSlot(c) PROVE IInv'
<1> USE DEF IInv, getSlot, avars, kvars
<1>0. KeyOf[c] \in Keys
  BY KeyOfCall
<1>1. TypeOK'
  BY <1>0 DEF TypeOK, InCall
<1>2. Exact' /\ Serving'
  BY DEF Exact, HoldingCtrs, Serving
<1>3. Launching'
  BY <1>0 DEF Launching, TypeOK
<1>4. Executing'
  BY DEF Executing, TypeOK, KeyOf
<1>5. Drained'
  BY DEF Drained, Sessions, TypeOK, InCall
<1>6. Granted'
  BY <1>0 DEF Granted, InLauncher, TypeOK
<1> QED BY <1>1, <1>2, <1>3, <1>4, <1>5, <1>6

LEMMA PingInv == ASSUME IInv, NEW c \in Calls, waitHotPing(c) PROVE IInv'
<1> USE DEF IInv, waitHotPing, avars, cvars, kvars
<1>0. KeyOf[c] \in Keys
  BY KeyOfCall
<1>1. TypeOK'
  BY <1>0 DEF TypeOK
<1>2. Exact' /\ Serving' /\ Launching' /\ Granted' /\ Executing' /\ Drained'
  BY DEF Exact, HoldingCtrs, Serving, Launching, Granted, InLauncher, Executing, KeyOf,
         Drained, Sessions
<1> QED BY <1>1, <1>2

LEMMA RefuseInv ==
  ASSUME IInv, NEW c \in Calls, waitHotNotified(c) \/ waitHotShutdown(c) \/ waitHotCtxDone(c)
  PROVE  IInv'
<1>0. call[c] = "wait" /\ Refuse(c) /\ UNCHANGED <<avars, slot, kvars, lvars>>
  BY DEF waitHotNotified, waitHotShutdown, waitHotCtxDone
<1> USE <1>0 DEF IInv, Refuse, avars, kvars, lvars
<1>1. TypeOK'
  BY DEF TypeOK
<1>2. Exact' /\ Serving' /\ Launching' /\ Granted'
  BY DEF Exact, HoldingCtrs, Serving, Launching, Granted, InLauncher
<1>3. Executing'
  BY DEF Executing, TypeOK, KeyOf
<1>4. Drained'
  BY DEF Drained, Sessions, TypeOK, InCall
<1> QED BY <1>1, <1>2, <1>3, <1>4

(* A slot on offer is nobody else's. *)
LEMMA SlotInv == ASSUME IInv, NEW c \in Calls, NEW k \in Ctrs, waitHotSlot(c, k) PROVE IInv'
<1> USE DEF IInv, waitHotSlot, avars, lvars
<1>1. TypeOK'
  BY DEF TypeOK, InCall
<1>2. Exact' /\ Launching' /\ Granted'
  BY DEF Exact, HoldingCtrs, Launching, Granted, InLauncher
<1>3. Serving'
  BY DEF Serving, TypeOK
<1>4. Executing'
  <2>1. fin[k] = "no"
    BY DEF Serving
  <2>2. \A d \in Calls : call[d] = "exec" => slot[d] # k
    BY DEF Executing
  <2>3. /\ call'[c] = "exec" /\ slot'[c] = k /\ child'[k] = "taken"
        /\ \A d \in Calls : d # c => call'[d] = call[d] /\ slot'[d] = slot[d]
        /\ \A m \in Ctrs : m # k => child'[m] = child[m]
    BY DEF TypeOK
  <2> QED BY <2>1, <2>2, <2>3 DEF Executing, KeyOf
<1>5. Drained'
  BY DEF Drained, Sessions, TypeOK, InCall
<1> QED BY <1>1, <1>2, <1>3, <1>4, <1>5

(* The call reports on slot.done: from now on the container is not its own. *)
LEMMA SendDoneInv ==
  ASSUME IInv, NEW c \in Calls, NEW f \in {"ok", "err"}, SendDone(c, f) PROVE IInv'
<1> USE DEF IInv, avars, lvars
<1>a. /\ call[c] = "exec" /\ slot[c] \in Ctrs /\ child[slot[c]] \in {"taken", "busy"}
      /\ \A d \in Calls \ {c} : call[d] = "exec" => slot[d] # slot[c]
  BY DEF SendDone, Executing
<1>b. PICK k \in Ctrs : k = slot[c]
  BY <1>a
<1>0. /\ k = slot[c] /\ fin' = [fin EXCEPT ![k] = f] /\ child[k] \in {"taken", "busy"}
      /\ call[c] = "exec"
      /\ \A d \in Calls \ {c} : call[d] = "exec" => slot[d] # k
      /\ call' = [call EXCEPT ![c] = "ending"] /\ slot' = [slot EXCEPT ![c] = None]
      /\ UNCHANGED <<avars, notify, main, child, key, cfor, evictedFor, lvars>>
  BY <1>a, <1>b DEF SendDone
<1>1. TypeOK'
  BY <1>0 DEF TypeOK, InCall
<1>2. Exact' /\ Launching' /\ Granted'
  BY <1>0 DEF Exact, HoldingCtrs, Launching, Granted, InLauncher
<1>3. Serving'
  BY <1>0 DEF Serving, TypeOK
<1>4. Executing'
  BY <1>0 DEF Executing, TypeOK, KeyOf
<1>5. Drained'
  BY <1>0 DEF Drained, Sessions, TypeOK, InCall
<1> QED BY <1>1, <1>2, <1>3, <1>4, <1>5

LEMMA SubmitEndInv == ASSUME IInv, NEW c \in Calls, submitEnd(c) PROVE IInv'
<1> USE DEF IInv, submitEnd, avars, kvars, lvars
<1>1. TypeOK'
  BY DEF TypeOK
<1>2. Exact' /\ Launching' /\ Granted' /\ Serving'
  BY DEF Exact, HoldingCtrs, Launching, Granted, InLauncher, Serving
<1>3. Executing'
  BY DEF Executing, TypeOK, KeyOf
<1>4. Drained'
  BY DEF Drained, Sessions, TypeOK, InCall
<1> QED BY <1>1, <1>2, <1>3, <1>4

LEMMA CallInv == ASSUME IInv, NEW c \in Calls, CallStep(c) PROVE IInv'
  BY SubmitInv, GetSlotInv, PingInv, RefuseInv, SlotInv, SendDoneInv, SubmitEndInv
  DEF CallStep, SetError, slotClose

-----------------------------------------------------------------------------
(* Launchers.                                                              *)

(* A launcher's container is its own, and has not been started. *)
LEMMA OwnCtr ==
  ASSUME IInv, NEW q \in Keys, launcher[q] \in {"token", "await", "granted", "giveBack"}
  PROVE  /\ lctr[q] \in Ctrs /\ child[lctr[q]] = "over"
         /\ main[lctr[q]] = IF launcher[q] \in {"granted", "giveBack"} THEN "granted" ELSE "wait"
         /\ \A o \in Keys : o # q => lctr[o] # lctr[q]
         /\ \A c \in Calls : call[c] = "exec" => slot[c] # lctr[q]
<1>1. /\ lctr[q] \in Ctrs /\ key[lctr[q]] = q
      /\ main[lctr[q]] = IF launcher[q] \in {"granted", "giveBack"} THEN "granted" ELSE "wait"
  BY DEF IInv, Launching, TypeOK
<1>2. child[lctr[q]] = "over"
  BY <1>1 DEF IInv, Serving
<1>3. \A o \in Keys : o # q => lctr[o] # lctr[q]
  BY <1>1, AgentAssumption DEF IInv, Launching
<1>4. \A c \in Calls : call[c] = "exec" => slot[c] # lctr[q]
  BY <1>2 DEF IInv, Executing
<1> QED BY <1>1, <1>2, <1>3, <1>4

(* checkLaunch gives up its container, with the count already right. *)
LEMMA DropInv ==
  ASSUME IInv, NEW q \in Keys, launcher[q] \in {"token", "await", "giveBack"}, DropCtr(q),
         UNCHANGED <<conf, closer, call, slot, child, fin, lcaller, signal>>,
         used' \in 0..Capacity, Exact',
         notify' \in [Calls -> {"none", "err"}],
         evictedFor' \in [Ctrs -> Keys \cup {None}], await' \in [Keys -> SUBSET Ctrs]
  PROVE  IInv'
<1>0. PICK k \in Ctrs :
        /\ k = lctr[q] /\ main[k] \in {"wait", "granted"} /\ child[k] = "over"
        /\ \A o \in Keys : o # q => lctr[o] # k
        /\ \A c \in Calls : call[c] = "exec" => slot[c] # k
  BY OwnCtr
<1>1. /\ main' = [main EXCEPT ![k] = "none"] /\ key' = [key EXCEPT ![k] = None]
      /\ cfor' = [cfor EXCEPT ![k] = None] /\ lctr' = [lctr EXCEPT ![q] = None]
      /\ launcher' = [launcher EXCEPT ![q] = "select"]
  BY <1>0 DEF DropCtr
<1>3. TypeOK'
  BY <1>1 DEF IInv, TypeOK
<1>5. Launching'
  BY <1>0, <1>1 DEF IInv, Launching, TypeOK
<1>a. Granted'
  BY <1>0, <1>1 DEF IInv, Granted, InLauncher, TypeOK
<1>6. Serving'
  BY <1>0, <1>1 DEF IInv, Serving, TypeOK
<1>7. Executing'
  BY <1>0, <1>1 DEF IInv, Executing, TypeOK, KeyOf
<1>8. Drained'
  BY <1>0, <1>1 DEF IInv, Drained, Sessions, TypeOK, Up
<1> QED BY <1>3, <1>5, <1>6, <1>7, <1>8, <1>a DEF IInv

(* The same without a token: the count is what it was. *)
LEMMA DropPlain ==
  ASSUME IInv, NEW q \in Keys, launcher[q] \in {"token", "await"}, DropCtr(q),
         UNCHANGED <<avars, call, slot, child, fin, lcaller, signal>>,
         notify' \in [Calls -> {"none", "err"}],
         evictedFor' \in [Ctrs -> Keys \cup {None}], await' \in [Keys -> SUBSET Ctrs]
  PROVE  IInv'
<1>0. lctr[q] \in Ctrs /\ main[lctr[q]] = "wait"
  BY OwnCtr
<1>1. main' = [main EXCEPT ![lctr[q]] = "none"] /\ UNCHANGED <<conf, closer, used>>
  BY DEF DropCtr, avars
<1>2. Exact' /\ used' \in 0..Capacity
  BY <1>0, <1>1, HoldingSame DEF IInv, Holding, TypeOK
<1> QED BY <1>1, <1>2, DropInv

LEMMA CheckLaunchInv == ASSUME IInv, NEW q \in Keys, checkLaunch(q) PROVE IInv'
<1>0. /\ launcher[q] = "check"
      /\ UNCHANGED <<conf, closer, used, call, slot, notify, child, fin, evictedFor,
                     lcaller, await, signal>>
  BY DEF checkLaunch, avars, cvars
<1>1. CASE launcher' = [launcher EXCEPT ![q] = "select"] /\ UNCHANGED <<main, key, cfor, lctr>>
  <2>1. TypeOK'
    BY <1>0, <1>1 DEF IInv, TypeOK
  <2>2. Exact' /\ Serving' /\ Executing' /\ Drained'
    BY <1>0, <1>1 DEF IInv, Exact, HoldingCtrs, Serving, Executing, KeyOf, Drained, Sessions
  <2>3. Launching' /\ Granted'
    BY <1>0, <1>1 DEF IInv, Launching, Granted, InLauncher, TypeOK
  <2> QED BY <2>1, <2>2, <2>3 DEF IInv
<1>2. CASE /\ \E k \in Ctrs :
                /\ main[k] = "none"
                /\ main' = [main EXCEPT ![k] = "wait"]
                /\ key' = [key EXCEPT ![k] = q]
                /\ cfor' = [cfor EXCEPT ![k] = lcaller[q]]
                /\ lctr' = [lctr EXCEPT ![q] = k]
           /\ launcher' = [launcher EXCEPT ![q] = "token"]
  <2>1. PICK k \in Ctrs :
          /\ main[k] = "none" /\ main' = [main EXCEPT ![k] = "wait"]
          /\ key' = [key EXCEPT ![k] = q] /\ cfor' = [cfor EXCEPT ![k] = lcaller[q]]
          /\ lctr' = [lctr EXCEPT ![q] = k]
    BY <1>2
  <2>2. child[k] = "over" /\ \A c \in Calls : call[c] = "exec" => slot[c] # k
    BY <2>1 DEF IInv, Serving, Executing
  <2>3. \A o \in Keys : lctr[o] # k
    BY <2>1, AgentAssumption DEF IInv, Launching
  <2>4. TypeOK'
    BY <1>0, <1>2, <2>1 DEF IInv, TypeOK
  <2>5. Exact'
    BY <1>0, <2>1, HoldingSame DEF IInv, Holding
  <2>6. Launching'
    BY <1>2, <2>1, <2>3, AgentAssumption DEF IInv, Launching, TypeOK
  <2>7. Serving'
    BY <1>0, <2>1, <2>2 DEF IInv, Serving, TypeOK
  <2>8. Executing'
    BY <1>0, <2>1, <2>2 DEF IInv, Executing, TypeOK, KeyOf
  <2>9. Drained'
    BY <1>0, <2>1 DEF IInv, Drained, Sessions, TypeOK, Up
  <2>a. Granted'
    <3>1. \A o \in Keys : launcher[o] \in {"granted", "giveBack"} => o # q
      BY <1>0
    <3> QED BY <1>2, <2>1, <3>1 DEF IInv, Granted, InLauncher, TypeOK
  <2> QED BY <2>4, <2>5, <2>6, <2>7, <2>8, <2>9, <2>a DEF IInv
<1> QED BY <1>1, <1>2 DEF checkLaunch

(* The launcher's container takes its unit, and is handed to runHot. *)
LEMMA TokenGrantedInv == ASSUME IInv, NEW q \in Keys, tokenGranted(q) PROVE IInv'
<1>1. PICK k \in Ctrs :
        /\ k = lctr[q] /\ main[k] = "wait" /\ child[k] = "over"
        /\ \A o \in Keys : o # q => lctr[o] # k
        /\ \A c \in Calls : call[c] = "exec" => slot[c] # k
  BY OwnCtr DEF tokenGranted
<1>2. /\ used' = used + 1 /\ main' = [main EXCEPT ![k] = "granted"]
      /\ launcher[q] = "token" /\ launcher' = [launcher EXCEPT ![q] = "granted"]
      /\ UNCHANGED <<conf, closer, call, slot, notify, child, key, cfor, fin, evictedFor,
                     lcaller, lctr, await, signal>>
  BY <1>1 DEF tokenGranted, cvars
<1>3. Cardinality(HoldingCtrs') = Cardinality(HoldingCtrs) + 1
  BY <1>1, <1>2, HoldingAdd DEF IInv, Holding
<1>4. TypeOK'
  <2>1. used' \in 0..Capacity
    BY <1>2, AgentAssumption DEF IInv, TypeOK, tokenGranted, HasRoom
  <2> QED BY <1>2, <2>1 DEF IInv, TypeOK, Up
<1>5. Exact'
  BY <1>2, <1>3 DEF IInv, Exact
<1>6. Launching'
  BY <1>1, <1>2 DEF IInv, Launching, TypeOK
<1>7. Granted'
  BY <1>1, <1>2 DEF IInv, Granted, InLauncher, TypeOK
<1>8. Serving'
  BY <1>1, <1>2 DEF IInv, Serving, TypeOK
<1>9. Executing'
  BY <1>1, <1>2 DEF IInv, Executing, TypeOK, KeyOf
<1>a. Drained'
  BY <1>1, <1>2 DEF IInv, Drained, Sessions, TypeOK, Up
<1> QED BY <1>4, <1>5, <1>6, <1>7, <1>8, <1>9, <1>a DEF IInv

LEMMA LaunchHotInv == ASSUME IInv, NEW q \in Keys, launchHot(q) PROVE IInv'
<1>1. PICK k \in Ctrs :
        /\ k = lctr[q] /\ main[k] = "granted" /\ child[k] = "over"
        /\ \A o \in Keys : o # q => lctr[o] # k
        /\ \A c \in Calls : call[c] = "exec" => slot[c] # k
  BY OwnCtr DEF launchHot
<1>2. /\ closer = "open" /\ main' = [main EXCEPT ![k] = "start"]
      /\ lctr' = [lctr EXCEPT ![q] = None] /\ launcher' = [launcher EXCEPT ![q] = "select"]
      /\ UNCHANGED <<conf, closer, used, call, slot, notify, child, key, cfor, fin, evictedFor,
                     lcaller, await, signal>>
  BY <1>1 DEF launchHot, MaySession, avars, cvars
<1>4. TypeOK'
  BY <1>2 DEF IInv, TypeOK, Up
<1>5. Exact'
  BY <1>1, <1>2, HoldingSame DEF IInv, Holding
<1>6. Launching'
  BY <1>1, <1>2 DEF IInv, Launching, TypeOK
<1>7. Granted'
  BY <1>1, <1>2 DEF IInv, Granted, InLauncher, TypeOK
<1>8. Serving'
  BY <1>1, <1>2 DEF IInv, Serving, TypeOK
<1>9. Executing'
  BY <1>1, <1>2 DEF IInv, Executing, TypeOK, KeyOf
<1>a. Drained'
  BY <1>2 DEF Drained
<1> QED BY <1>4, <1>5, <1>6, <1>7, <1>8, <1>9, <1>a DEF IInv

LEMMA AddSessionFailsInv == ASSUME IInv, NEW q \in Keys, addSessionFails(q) PROVE IInv'
<1> USE DEF IInv, addSessionFails, avars, cvars, kvars
<1>1. TypeOK'
  BY DEF TypeOK
<1>2. Exact' /\ Serving' /\ Executing' /\ Drained'
  BY DEF Exact, HoldingCtrs, Serving, Executing, KeyOf, Drained, Sessions
<1>3. Launching'
  BY DEF Launching, TypeOK
<1>4. Granted'
  BY DEF Granted, InLauncher, TypeOK
<1> QED BY <1>1, <1>2, <1>3, <1>4

LEMMA GiveBackInv == ASSUME IInv, NEW q \in Keys, giveBack(q) PROVE IInv'
<1>0. /\ launcher[q] = "giveBack" /\ DropCtr(q) /\ used' = used - 1
      /\ UNCHANGED <<conf, closer, call, slot, notify, child, fin, evictedFor,
                     lcaller, await, signal>>
  BY DEF giveBack, cvars
<1>1. lctr[q] \in Ctrs /\ main[lctr[q]] = "granted"
  BY <1>0, OwnCtr
<1>2. /\ Cardinality(HoldingCtrs') = Cardinality(HoldingCtrs) - 1
      /\ Cardinality(HoldingCtrs) # 0
  BY <1>0, <1>1, HoldingRemove DEF IInv, Holding, DropCtr
<1>3. Exact'
  BY <1>0, <1>2 DEF IInv, Exact
<1>4. used' \in 0..Capacity
  <2>1. used \in 0..Capacity /\ used # 0 /\ Capacity \in Nat
    BY <1>2, AgentAssumption DEF IInv, Exact, TypeOK
  <2> QED BY <1>0, <2>1
<1>5. /\ notify' \in [Calls -> {"none", "err"}]
      /\ evictedFor' \in [Ctrs -> Keys \cup {None}] /\ await' \in [Keys -> SUBSET Ctrs]
  BY <1>0 DEF IInv, TypeOK
<1> QED BY <1>0, <1>3, <1>4, <1>5, DropInv

LEMMA LaunchFullInv == ASSUME IInv, NEW q \in Keys, launchFull(q) PROVE IInv'
<1>0. launcher[q] = "token"
      /\ UNCHANGED <<avars, call, slot, child, fin, lcaller, signal>>
  BY DEF launchFull
<1>1. CASE \E k \in Evictable(q) :
             /\ evictedFor' = [evictedFor EXCEPT ![k] = q]
             /\ await' = [await EXCEPT ![q] = {k}]
             /\ launcher' = [launcher EXCEPT ![q] = "await"]
             /\ UNCHANGED <<notify, main, key, cfor, lctr>>
  <2>1. PICK k \in Ctrs :
             /\ evictedFor' = [evictedFor EXCEPT ![k] = q]
             /\ await' = [await EXCEPT ![q] = {k}]
             /\ launcher' = [launcher EXCEPT ![q] = "await"]
             /\ UNCHANGED <<notify, main, key, cfor, lctr>>
    BY <1>1 DEF Evictable
  <2>2. TypeOK'
    BY <1>0, <2>1 DEF IInv, TypeOK, avars
  <2>3. Exact' /\ Serving' /\ Executing' /\ Drained'
    BY <1>0, <2>1 DEF IInv, Exact, HoldingCtrs, Serving, Executing, KeyOf, Drained, Sessions, avars
  <2>4. Launching' /\ Granted'
    BY <1>0, <2>1 DEF IInv, Launching, Granted, InLauncher, TypeOK
  <2> QED BY <2>2, <2>3, <2>4 DEF IInv
<1>2. CASE /\ IF conf.blocking THEN UNCHANGED notify ELSE tryNotify(lcaller[q])
           /\ DropCtr(q) /\ UNCHANGED <<evictedFor, await>>
  <2>1. notify' \in [Calls -> {"none", "err"}]
    BY <1>2 DEF IInv, TypeOK, tryNotify
  <2>2. evictedFor' \in [Ctrs -> Keys \cup {None}] /\ await' \in [Keys -> SUBSET Ctrs]
    BY <1>2 DEF IInv, TypeOK
  <2> QED BY <1>0, <1>2, <2>1, <2>2, DropPlain
<1> QED BY <1>1, <1>2 DEF launchFull

LEMMA AwaitedInv == ASSUME IInv, NEW q \in Keys, evictionAwaited(q) PROVE IInv'
<1>1. /\ launcher[q] = "await" /\ DropCtr(q)
      /\ UNCHANGED <<avars, call, slot, child, fin, lcaller, signal>>
  BY DEF evictionAwaited, cvars
<1>2. /\ notify' \in [Calls -> {"none", "err"}]
      /\ evictedFor' \in [Ctrs -> Keys \cup {None}] /\ await' \in [Keys -> SUBSET Ctrs]
  BY DEF evictionAwaited, cvars, IInv, TypeOK
<1> QED BY <1>1, <1>2, DropPlain

LEMMA SelectInv ==
  ASSUME IInv, NEW q \in Keys, hotLauncherSignalled(q) \/ hotLauncherDone(q) PROVE IInv'
<1>0. /\ launcher[q] = "select"
      /\ \E l \in {"gone", "check"} : launcher' = [launcher EXCEPT ![q] = l]
      /\ UNCHANGED <<avars, cvars, kvars, lctr, await>>
      /\ \/ UNCHANGED <<lcaller, signal>>
         \/ lcaller' = [lcaller EXCEPT ![q] = signal[q]] /\ signal' = [signal EXCEPT ![q] = None]
  BY DEF hotLauncherSignalled, hotLauncherDone
<1> USE <1>0 DEF avars, cvars, kvars
<1>1. TypeOK'
  BY DEF IInv, TypeOK
<1>2. Exact' /\ Serving' /\ Executing' /\ Drained'
  BY DEF IInv, Exact, HoldingCtrs, Serving, Executing, KeyOf, Drained, Sessions
<1>3. Launching' /\ Granted'
  BY DEF IInv, Launching, Granted, InLauncher, TypeOK
<1> QED BY <1>1, <1>2, <1>3 DEF IInv

LEMMA LauncherInv == ASSUME IInv, NEW q \in Keys, LauncherStep(q) PROVE IInv'
  BY CheckLaunchInv, TokenGrantedInv, LaunchHotInv, AddSessionFailsInv, GiveBackInv,
     LaunchFullInv, AwaitedInv, SelectInv DEF LauncherStep

-----------------------------------------------------------------------------
(* Containers.                                                             *)

(* A container inside runHot is no launcher's any more, and once the driver *)
(* is closed there is none.                                                 *)
LEMMA UpCtr ==
  ASSUME IInv, NEW k \in Ctrs, main[k] \in Up
  PROVE  closer # "closed" /\ \A q \in Keys : lctr[q] # k
<1>1. \A q \in Keys : lctr[q] # k
  BY AgentAssumption DEF IInv, Launching, Up
<1>2. closer # "closed"
  BY DEF IInv, Drained, Sessions
<1> QED BY <1>1, <1>2

(* runHot goes from one stage to another that holds its unit, or from the  *)
(* last one out, while its child is over or stays what it is.              *)
LEMMA MainMoves ==
  ASSUME IInv, NEW k \in Ctrs, main[k] \in Up, NEW s \in Up \cup {"none"},
         main' = [main EXCEPT ![k] = s],
         child[k] # "over" => s \in {"run", "stop"},
         UNCHANGED <<conf, closer, call, slot, child, fin, launcher, lcaller, lctr, signal>>,
         key' = key \/ (child[k] = "over" /\ key' = [key EXCEPT ![k] = None]),
         used' \in 0..Capacity, Exact',
         notify' \in [Calls -> {"none", "err"}],
         cfor' \in [Ctrs -> Calls \cup {None}],
         evictedFor' \in [Ctrs -> Keys \cup {None}], await' \in [Keys -> SUBSET Ctrs]
  PROVE  IInv'
<1>1. closer # "closed" /\ \A q \in Keys : lctr[q] # k
  BY UpCtr
<1>2. TypeOK'
  BY DEF IInv, TypeOK
<1>3. Launching' /\ Granted'
  BY <1>1 DEF IInv, Launching, Granted, InLauncher, TypeOK, Up
<1>4. Serving'
  BY DEF IInv, Serving, TypeOK
<1>5. Executing'
  BY DEF IInv, Executing, TypeOK, KeyOf
<1>6. Drained'
  BY <1>1 DEF Drained
<1> QED BY <1>2, <1>3, <1>4, <1>5, <1>6 DEF IInv

LEMMA MainInv ==
  ASSUME IInv, NEW k \in Ctrs,
         runHotFailure(k) \/ childOver(k) \/ ctrDies(k) \/ ctrClose(k) \/ doneSession(k)
  PROVE  IInv'
<1>0. PICK s \in Up \cup {"none"} :
        /\ main' = [main EXCEPT ![k] = s] /\ main[k] \in Up
        /\ main[k] \in Holding <=> s \in Holding
        /\ child[k] # "over" => s \in {"run", "stop"}
  BY DEF runHotFailure, childOver, ctrDies, ctrClose, doneSession, Up, Holding, IInv, Serving
<1>1. UNCHANGED <<conf, closer, used, call, slot, child, fin, evictedFor, launcher, lcaller,
                  lctr, signal>>
  BY DEF runHotFailure, childOver, ctrDies, ctrClose, doneSession, avars, cvars, lvars
<1>2. key' = key \/ (child[k] = "over" /\ key' = [key EXCEPT ![k] = None])
  BY DEF runHotFailure, childOver, ctrDies, ctrClose, doneSession, IInv, Serving
<1>3. notify' \in [Calls -> {"none", "err"}]
  BY DEF runHotFailure, childOver, ctrDies, ctrClose, doneSession, cvars, tryNotify, IInv, TypeOK
<1>4. cfor' \in [Ctrs -> Calls \cup {None}] /\ await' \in [Keys -> SUBSET Ctrs]
  BY DEF runHotFailure, childOver, ctrDies, ctrClose, doneSession, lvars, ReleaseAwait,
         IInv, TypeOK
<1>5. used' \in 0..Capacity /\ evictedFor' \in [Ctrs -> Keys \cup {None}]
  BY <1>1 DEF IInv, TypeOK
<1>6. Exact'
  BY <1>0, <1>1, HoldingSame DEF IInv
<1> QED BY <1>0, <1>1, <1>2, <1>3, <1>4, <1>5, <1>6, MainMoves

LEMMA TokCloseInv == ASSUME IInv, NEW k \in Ctrs, tokClose(k) PROVE IInv'
<1>0. /\ main[k] = "release" /\ main' = [main EXCEPT ![k] = "final"] /\ used' = used - 1
      /\ evictedFor' = [evictedFor EXCEPT ![k] = None]
      /\ UNCHANGED <<conf, closer, call, slot, notify, child, key, cfor, fin,
                     launcher, lcaller, lctr, await, signal>>
  BY DEF tokClose, cvars, lvars
<1>1. /\ Cardinality(HoldingCtrs') = Cardinality(HoldingCtrs) - 1
      /\ Cardinality(HoldingCtrs) # 0
  BY <1>0, HoldingRemove DEF IInv, Holding
<1>2. Exact'
  BY <1>0, <1>1 DEF IInv, Exact
<1>3. used' \in 0..Capacity
  <2>1. used \in 0..Capacity /\ used # 0 /\ Capacity \in Nat
    BY <1>1, AgentAssumption DEF IInv, Exact, TypeOK
  <2> QED BY <1>0, <2>1
<1>4. child[k] = "over" /\ main[k] \in Up
  BY <1>0 DEF IInv, Serving, Up
<1>5. /\ notify' \in [Calls -> {"none", "err"}]
      /\ cfor' \in [Ctrs -> Calls \cup {None}]
      /\ evictedFor' \in [Ctrs -> Keys \cup {None}] /\ await' \in [Keys -> SUBSET Ctrs]
  BY <1>0 DEF IInv, TypeOK
<1>6. "final" \in Up \cup {"none"}
  BY DEF Up
<1> QED BY <1>0, <1>2, <1>3, <1>4, <1>5, <1>6, MainMoves

(* The child's steps, and the first one, which starts it. *)
LEMMA ChildMoves ==
  ASSUME IInv, NEW k \in Ctrs, NEW s \in {"idle", "taken", "busy", "over"},
         child' = [child EXCEPT ![k] = s],
         main' = main \/ (main[k] = "start" /\ main' = [main EXCEPT ![k] = "run"]),
         main'[k] \in {"run", "stop"},
         fin' = fin \/ fin' = [fin EXCEPT ![k] = "no"],
         s \notin {"taken", "busy"} => fin'[k] = "no" /\ \A c \in Calls : call[c] = "exec" => slot[c] # k,
         UNCHANGED <<conf, closer, used, call, slot, notify, key, launcher, lcaller, lctr, signal>>,
         cfor' \in [Ctrs -> Calls \cup {None}],
         evictedFor' \in [Ctrs -> Keys \cup {None}], await' \in [Keys -> SUBSET Ctrs]
  PROVE  IInv'
<1>0. main[k] \in Up
  BY DEF Up
<1>1. closer # "closed" /\ \A q \in Keys : lctr[q] # k
  BY <1>0, UpCtr
<1>2. TypeOK'
  <2>1. main' \in [Ctrs -> {"none", "wait", "granted"} \cup Up]
    BY DEF IInv, TypeOK, Up
  <2>2. fin' \in [Ctrs -> {"no", "ok", "err"}]
        /\ child' \in [Ctrs -> {"idle", "taken", "busy", "over"}]
    BY DEF IInv, TypeOK
  <2> QED BY <2>1, <2>2 DEF IInv, TypeOK
<1>3. Exact'
  <2>1. CASE main' = main
    BY <2>1 DEF IInv, Exact, HoldingCtrs
  <2>2. CASE main[k] = "start" /\ main' = [main EXCEPT ![k] = "run"]
    BY <2>2, HoldingSame DEF IInv, Holding
  <2> QED BY <2>1, <2>2
<1>4. Launching' /\ Granted'
  BY <1>1 DEF IInv, Launching, Granted, InLauncher, TypeOK
<1>5. Serving'
  <2>1. ASSUME NEW m \in Ctrs, m # k
        PROVE  child'[m] = child[m] /\ main'[m] = main[m] /\ fin'[m] = fin[m]
    BY <2>1 DEF IInv, TypeOK
  <2>2. child'[k] = s
    BY DEF IInv, TypeOK
  <2> QED BY <2>1, <2>2 DEF IInv, Serving
<1>6. Executing'
  <2>1. ASSUME NEW m \in Ctrs, fin[m] = "no" PROVE fin'[m] = "no"
    BY <2>1 DEF IInv, TypeOK
  <2>2. child'[k] = s /\ \A m \in Ctrs : m # k => child'[m] = child[m]
    BY DEF IInv, TypeOK
  <2> QED BY <2>1, <2>2 DEF IInv, Executing, KeyOf
<1>7. Drained'
  BY <1>1 DEF Drained
<1> QED BY <1>2, <1>3, <1>4, <1>5, <1>6, <1>7 DEF IInv

LEMMA ChildInv ==
  ASSUME IInv, NEW k \in Ctrs,
         initialized(k) \/ DisableEviction(k) \/ runHotReqLeave(k) \/ idleTimeout(k)
  PROVE  IInv'
<1>0. PICK s \in {"idle", "taken", "busy", "over"} :
        /\ child' = [child EXCEPT ![k] = s]
        /\ s \notin {"taken", "busy"} => child[k] \in {"idle", "over"}
  BY DEF initialized, DisableEviction, runHotReqLeave, idleTimeout
<1>1. UNCHANGED <<conf, closer, used, call, slot, notify, key, fin, launcher, lcaller, lctr, signal>>
  BY DEF initialized, DisableEviction, runHotReqLeave, idleTimeout, avars, cvars, lvars
<1>2. /\ main' = main \/ (main[k] = "start" /\ main' = [main EXCEPT ![k] = "run"])
      /\ main'[k] \in {"run", "stop"}
  BY DEF initialized, DisableEviction, runHotReqLeave, idleTimeout, IInv, TypeOK, Serving
<1>3. child[k] \in {"idle", "over"} =>
        fin'[k] = "no" /\ \A c \in Calls : call[c] = "exec" => slot[c] # k
  BY <1>1 DEF IInv, Serving, Executing
<1>4. cfor' \in [Ctrs -> Calls \cup {None}] /\ await' \in [Keys -> SUBSET Ctrs]
      /\ evictedFor' \in [Ctrs -> Keys \cup {None}]
  BY DEF initialized, DisableEviction, runHotReqLeave, idleTimeout, lvars, ReleaseAwait,
         IInv, TypeOK
<1> QED BY <1>0, <1>1, <1>2, <1>3, <1>4, ChildMoves

LEMMA SlotDoneInv == ASSUME IInv, NEW k \in Ctrs, slotDone(k) PROVE IInv'
<1>0. PICK s \in {"idle", "taken", "busy", "over"} : child' = [child EXCEPT ![k] = s]
  BY DEF slotDone
<1>1. /\ fin' = [fin EXCEPT ![k] = "no"] /\ fin[k] # "no" /\ child[k] = "busy"
      /\ UNCHANGED <<conf, closer, used, call, slot, notify, main, key, cfor, evictedFor,
                     launcher, lcaller, lctr, await, signal>>
  BY DEF slotDone, avars, cvars, lvars
<1>2. main'[k] \in {"run", "stop"}
  BY <1>1 DEF IInv, Serving
<1>3. fin'[k] = "no" /\ \A c \in Calls : call[c] = "exec" => slot[c] # k
  BY <1>1 DEF IInv, Executing, TypeOK
<1>4. cfor' \in [Ctrs -> Calls \cup {None}] /\ await' \in [Keys -> SUBSET Ctrs]
      /\ evictedFor' \in [Ctrs -> Keys \cup {None}]
  BY <1>1 DEF IInv, TypeOK
<1> QED BY <1>0, <1>1, <1>2, <1>3, <1>4, ChildMoves

LEMMA CtrInv == ASSUME IInv, NEW k \in Ctrs, CtrStep(k) PROVE IInv'
  BY MainInv, TokCloseInv, ChildInv, SlotDoneInv DEF CtrStep

-----------------------------------------------------------------------------
LEMMA IInvInit == Init => IInv
<1> SUFFICES ASSUME Init PROVE IInv
  OBVIOUS
<1>1. TypeOK
  BY AgentAssumption DEF Init, TypeOK
<1>2. HoldingCtrs = {}
  BY DEF Init, HoldingCtrs, Holding
<1>3. Exact
  BY <1>2, HoldingFinite DEF Exact, Init
<1>4. Launching /\ Granted /\ Serving /\ Executing /\ Drained
  BY DEF Init, Launching, Granted, Serving, Executing, Drained
<1> QED BY <1>1, <1>3, <1>4 DEF IInv

LEMMA IInvNext == IInv /\ [Next]_vars => IInv'
<1> SUFFICES ASSUME IInv, [Next]_vars PROVE IInv'
  OBVIOUS
<1>1. CASE Close \/ driverClose \/ UNCHANGED vars
  <2>1. UNCHANGED <<conf, used, call, slot, notify, main, child, key, cfor, fin, evictedFor,
                    launcher, lcaller, lctr, await, signal>>
    BY <1>1 DEF Close, driverClose, vars, avars, cvars, kvars, lvars
  <2>2. closer' \in {"open", "closing", "closed"}
        /\ (closer' = "closed" => closer = "closed" \/ Sessions = {})
    BY <1>1 DEF Close, driverClose, vars, avars, IInv, TypeOK
  <2>3. TypeOK'
    BY <2>1, <2>2 DEF IInv, TypeOK
  <2>4. Exact' /\ Launching' /\ Granted' /\ Serving' /\ Executing'
    BY <2>1 DEF IInv, Exact, HoldingCtrs, Launching, Granted, InLauncher, Serving, Executing,
                KeyOf
  <2>5. Drained'
    BY <2>1, <2>2 DEF IInv, Drained, Sessions
  <2> QED BY <2>3, <2>4, <2>5 DEF IInv
<1> QED BY <1>1, CallInv, LauncherInv, CtrInv DEF Next

LEMMA IInvAlways == Spec => []IInv
BY IInvInit, IInvNext, PTL DEF Spec

(* The agent's variables keep their types; in particular the reservation   *)
(* count never exceeds the capacity and never falls below zero, and it is  *)
(* the number of containers that hold a unit.                              *)
THEOREM HotAgentTyped == Spec => [](TypeOK /\ Exact)
<1>1. IInv => TypeOK /\ Exact
  BY DEF IInv
<1> QED BY <1>1, IInvAlways, PTL

(* An executing call has a container of its own queue to itself, and keeps *)
(* it until it has reported on slot.done, however the container dies or is *)
(* evicted.                                                                *)
THEOREM HotAgentExecHolds == Spec => []ExecHoldsContainer
<1>1. IInv => ExecHoldsContainer
  BY DEF IInv, Executing, Serving, ExecHoldsContainer
<1> QED BY <1>1, IInvAlways, PTL

(* Once the driver is closed no call is inside submit, no container is up, *)
(* and the only units taken are in the hands of launchers that will give   *)
(* them back.                                                              *)
THEOREM HotAgentQuiet == Spec => []NothingAfterClose
<1>1. ASSUME IInv, closer = "closed" PROVE Sessions = {} /\ used = Cardinality(InLauncher)
  <2>1. Sessions = {}
    BY <1>1 DEF IInv, Drained
  <2>2. HoldingCtrs = {k \in Ctrs : main[k] = "granted"}
    BY <2>1 DEF Sessions, HoldingCtrs, Holding, Up
  <2>3. {k \in Ctrs : main[k] = "granted"} = InLauncher
    BY <1>1, AgentAssumption DEF IInv, Granted, Launching, InLauncher
  <2> QED BY <1>1, <2>1, <2>2, <2>3 DEF IInv, Exact
<1>2. IInv => NothingAfterClose
  BY <1>1 DEF NothingAfterClose
<1> QED BY <1>2, IInvAlways, PTL
=============================================================================
