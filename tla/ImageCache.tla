----------------------------- MODULE ImageCache -----------------------------
(***************************************************************************)
(* imageCacher (api/agent/drivers/docker/image_cache.go): the LRU list of  *)
(* idle images, the reference counts of busy ones, their total sizes, and  *)
(* the one-place notifier channel.  Every method is one section under      *)
(* c.lock; the deferred sendNotify runs after the lock is given up: its    *)
(* caller stays in `sending` until it has sent.                            *)
(***************************************************************************)
EXTENDS Integers, Sequences, FiniteSets, SequencesExt, FiniteSetsExt

CONSTANTS
  Images,       \* image ids
  Size,         \* [Images -> Nat]
  Exempt,       \* images whose tags are blacklisted
  MaxSize       \* imageCacher.maxSize

ASSUME ImageCacheAssumption ==
  /\ IsFiniteSet(Images) /\ Exempt \subseteq Images
  /\ Size \in [Images -> Nat] /\ MaxSize \in Nat

VARIABLES
  lru,          \* lruList, front first
  lruSize,
  busyRef,      \* [Images -> Nat]; 0 stands for no entry
  busySize,
  notifier,     \* a token lies in the channel
  sending       \* the goroutines between unlock and sendNotify

cacheVars == <<lru, lruSize, busyRef, busySize, notifier, sending>>

CacheInit ==
  /\ lru = <<>> /\ lruSize = 0
  /\ busyRef = [i \in Images |-> 0] /\ busySize = 0
  /\ notifier = FALSE /\ sending = {}

isEligible(i) == i \notin Exempt
InLRU(i) == \E k \in DOMAIN lru : lru[k] = i

isMaxCapacity(ls, bs) == ls > 0 /\ ls + bs >= MaxSize
IsMaxCapacity == isMaxCapacity(lruSize, busySize)

addLRULocked(i) ==
  /\ lru' = <<i>> \o RemoveFirst(lru, i)
  /\ lruSize' = IF InLRU(i) THEN lruSize ELSE lruSize + Size[i]

rmLRULocked(i) ==
  /\ lru' = RemoveFirst(lru, i)
  /\ lruSize' = IF InLRU(i) THEN lruSize - Size[i] ELSE lruSize

notifyIfFull(who) ==
  sending' = IF isMaxCapacity(lruSize', busySize') THEN sending \cup {who} ELSE sending

sendNotify(who) ==
  /\ who \in sending
  /\ sending' = sending \ {who}
  /\ notifier' = TRUE
  /\ UNCHANGED <<lru, lruSize, busyRef, busySize>>

Update(who, i) ==
  IF isEligible(i) /\ busyRef[i] = 0
  THEN addLRULocked(i) /\ UNCHANGED <<busyRef, busySize, notifier>> /\ notifyIfFull(who)
  ELSE UNCHANGED cacheVars

MarkBusyKeepsLRU(who, i) ==                  \* mutant: a busy image stays in the list
  /\ busyRef' = [busyRef EXCEPT ![i] = @ + 1]
  /\ busySize' = IF busyRef[i] = 0 THEN busySize + Size[i] ELSE busySize
  /\ UNCHANGED <<lru, lruSize, notifier, sending>>

MarkBusy(who, i) ==
  IF ~isEligible(i) THEN UNCHANGED cacheVars
  ELSE IF busyRef[i] > 0
  THEN /\ busyRef' = [busyRef EXCEPT ![i] = @ + 1]
       /\ UNCHANGED <<lru, lruSize, busySize, notifier, sending>>
  ELSE /\ busyRef' = [busyRef EXCEPT ![i] = 1]
       /\ busySize' = busySize + Size[i]
       /\ rmLRULocked(i)
       /\ UNCHANGED notifier /\ notifyIfFull(who)

MarkFree(who, i) ==
  IF ~isEligible(i) \/ busyRef[i] = 0 THEN UNCHANGED cacheVars
  ELSE IF busyRef[i] > 1
  THEN /\ busyRef' = [busyRef EXCEPT ![i] = @ - 1]
       /\ UNCHANGED <<lru, lruSize, busySize, notifier, sending>>
  ELSE /\ busyRef' = [busyRef EXCEPT ![i] = 0]
       /\ busySize' = busySize - Size[i]
       /\ addLRULocked(i)
       /\ UNCHANGED notifier /\ notifyIfFull(who)

\* Pop on a list that is not empty.
Pop ==
  /\ lru' = Front(lru)
  /\ lruSize' = lruSize - Size[Last(lru)]
  /\ UNCHANGED <<busyRef, busySize, notifier, sending>>

\* Sizes are added up by counting: an image of size n stands for n units.
Units(S) == UNION {{i} \X (1 .. Size[i]) : i \in S}
Busy == {i \in Images : busyRef[i] > 0}

(* The accounting: the sizes are those of the listed and of the referenced  *)
(* images, no image is both idle and busy, none is listed twice, and exempt *)
(* images are not managed at all.                                           *)
CacheExact ==
  /\ lruSize = Cardinality(Units(ToSet(lru)))
  /\ busySize = Cardinality(Units(Busy))
  /\ IsInjective(lru)
  /\ \A i \in Images : busyRef[i] > 0 \/ i \in Exempt => ~InLRU(i)

=============================================================================
