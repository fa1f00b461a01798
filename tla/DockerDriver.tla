---------------------------- MODULE DockerDriver ----------------------------
(***************************************************************************)
(* The docker driver (api/agent/drivers/docker: docker.go, cookie.go,      *)
(* image_puller.go, docker_networks.go) over its image cache and its pool  *)
(* of pre-forked containers.  A cookie is a request to run a container; it *)
(* is driven by runHot (agent.go:862-900): CreateCookie, ValidateImage,    *)
(* PullImage when the image is missing, ValidateImage again,               *)
(* CreateContainer, Run, Close.  Beside the cookies run the transfers of   *)
(* the image puller, the image cleaner, and the nannies of the pool.       *)
(*                                                                         *)
(* The docker daemon is a set of images and the containers made of them;   *)
(* each of its calls may fail.  A cookie that was closed stands for the    *)
(* next one.                                                               *)
(***************************************************************************)
EXTENDS ImageCache, DockerPool

CONSTANTS
  Cookies,
  Networks,     \* DockerNetworks
  HasVolume,    \* images that define a volume
  MaxRetries,   \* pull retries of the back-off policy
  Confs         \* the configurations to start with

None == "none"
Cleaner == "cleaner"

ASSUME DriverAssumption ==
  /\ IsFiniteSet(Cookies) /\ MaxRetries \in Nat
  /\ None \notin Images \cup PoolIds \cup Networks

VARIABLES
  cookie,       \* [Cookies -> its progress and what it holds]
  transfer,     \* [Images -> the registered docker-pull, or NoTransfer]
  netCount,     \* DockerNetworks.networks
  onDisk,       \* images the daemon has
  leaked,       \* images of containers a previous process left behind
  cleaner,      \* the goroutine of NewDocker
  tracked,      \* history: images on disk the cache has been told of
  conf          \* what the configuration enables, out of "pool", "recycle", "cache"

drvVars == <<cookie, transfer, netCount, onDisk, leaked, cleaner, tracked, conf>>
vars == <<cacheVars, poolVars, drvVars>>

NoTransfer == [active |-> FALSE, listeners |-> {}, tries |-> 0]
NewCookie == [pc |-> "new", task |-> None, poolId |-> None, netId |-> None,
              image |-> None, marked |-> FALSE, container |-> FALSE]

Init ==
  /\ conf \in Confs
  /\ CacheInit
  /\ PoolInit(IF "pool" \in conf THEN "gate" ELSE "gone", "pool" \notin conf)
  /\ cookie = [c \in Cookies |-> NewCookie]
  /\ transfer = [i \in Images |-> NoTransfer]
  /\ netCount = [n \in Networks |-> 0]
  /\ onDisk \in SUBSET Images
  /\ leaked \in SUBSET onDisk
  /\ cleaner = [pc |-> "kill", img |-> None, todo |-> {}]
  /\ "cache" \notin conf => leaked = {} /\ onDisk = Images
  /\ tracked = {}

InUse(i) == i \in leaked \/ \E c \in Cookies : cookie[c].container /\ cookie[c].task = i

-----------------------------------------------------------------------------
(* CreateCookie: configureNetwork takes an id of the pool, or the least     *)
(* used network; or nothing, for a task that wants no network (DisableNet), *)
(* or with an empty pool and no networks to pick from.                      *)
LeastUsed == {n \in Networks : \A k \in Networks : netCount[n] <= netCount[k]}

CreateCookie(c, i) ==
  LET new == [NewCookie EXCEPT !.pc = "validate", !.task = i] IN
  /\ cookie[c].pc = "new"
  /\ \/ /\ cookie' = [cookie EXCEPT ![c] = new]
        /\ UNCHANGED <<netCount, poolVars>>
     \/ /\ AllocPoolId
        /\ cookie' = [cookie EXCEPT ![c] = [new EXCEPT !.poolId = Last(free)]]
        /\ UNCHANGED netCount
     \/ /\ free = <<>>
        /\ \E n \in LeastUsed :
             /\ netCount' = [netCount EXCEPT ![n] = @ + 1]
             /\ cookie' = [cookie EXCEPT ![c] = [new EXCEPT !.netId = n]]
        /\ UNCHANGED poolVars
  /\ UNCHANGED <<cacheVars, transfer, onDisk, leaked, cleaner, tracked, conf>>

Advance(c, to) == cookie' = [cookie EXCEPT ![c].pc = to]

(* ValidateImage, the inspection: after a pull an image that is missing     *)
(* again was removed in between, and the call is told to go elsewhere.      *)
InspectImage(c) ==
  /\ cookie[c].pc \in {"validate", "revalidate"}
  /\ \/ /\ cookie[c].task \in onDisk
        /\ cookie' = [cookie EXCEPT ![c].pc = "inspected", ![c].image = cookie[c].task]
     \/ /\ cookie[c].task \notin onDisk
        /\ Advance(c, IF cookie[c].pc = "validate" THEN "pull" ELSE "close")
     \/ Advance(c, "close")                          \* the daemon failed
  /\ UNCHANGED <<cacheVars, poolVars, transfer, netCount, onDisk, leaked, cleaner, tracked, conf>>

(* ... and the cache: an image with a volume is refused, but may be cleaned.*)
MarkInspected(c) ==
  LET i == cookie[c].image IN
  /\ cookie[c].pc = "inspected"
  /\ IF i \in HasVolume
     THEN (IF "cache" \in conf THEN Update(c, i) ELSE UNCHANGED cacheVars) /\ Advance(c, "close")
     ELSE /\ IF "cache" \in conf THEN MarkBusy(c, i) ELSE UNCHANGED cacheVars
          /\ cookie' = [cookie EXCEPT ![c].pc = "create", ![c].marked = TRUE]
  /\ tracked' = tracked \cup {k \in onDisk : k = i /\ "cache" \in conf}
  /\ UNCHANGED <<poolVars, transfer, netCount, onDisk, leaked, cleaner, conf>>

(* PullImage: without credentials (authImage fails) the cookie is closed;   *)
(* newTransfer joins the pull of the same image, or starts it.              *)
PullImage(c) ==
  LET i == cookie[c].task IN
  /\ cookie[c].pc = "pull"
  /\ \/ /\ transfer' = [transfer EXCEPT ![i].active = TRUE, ![i].listeners = @ \cup {c}]
        /\ Advance(c, "pulling")
     \/ Advance(c, "close") /\ UNCHANGED transfer
  /\ UNCHANGED <<cacheVars, poolVars, netCount, onDisk, leaked, cleaner, tracked, conf>>

pullRetry(i) ==
  /\ transfer[i].active /\ transfer[i].tries < MaxRetries
  /\ transfer' = [transfer EXCEPT ![i].tries = @ + 1]
  /\ UNCHANGED <<cacheVars, poolVars, cookie, netCount, onDisk, leaked, cleaner, tracked, conf>>

(* The end of startTransfer: every listener hears of it and the transfer is *)
(* unregistered, in one section.  The pull fails when the daemon says so,   *)
(* or the context of whoever started it is over.                            *)
heardFirst(i) == {CHOOSE c \in transfer[i].listeners : TRUE}   \* mutant: one listener
heard(i) == transfer[i].listeners

startTransferEnds(i) ==
  /\ transfer[i].active
  /\ \E to \in {"revalidate", "close"} :
       /\ cookie' = [c \in Cookies |-> IF c \in heard(i) THEN [cookie[c] EXCEPT !.pc = to]
                                       ELSE cookie[c]]
       /\ onDisk' = IF to = "revalidate" THEN onDisk \cup {i} ELSE onDisk
  /\ transfer' = [transfer EXCEPT ![i] = NoTransfer]
  /\ UNCHANGED <<cacheVars, poolVars, netCount, leaked, cleaner, tracked, conf>>

(* CreateContainer and Run: an image removed meanwhile, or a daemon that    *)
(* fails, ends the cookie.                                                  *)
CreateContainer(c) ==
  /\ cookie[c].pc = "create"
  /\ \/ /\ cookie[c].task \in onDisk
        /\ cookie' = [cookie EXCEPT ![c].pc = "run", ![c].container = TRUE]
     \/ Advance(c, "close")
  /\ UNCHANGED <<cacheVars, poolVars, transfer, netCount, onDisk, leaked, cleaner, tracked, conf>>

RunEnds(c) ==
  /\ cookie[c].pc = "run"
  /\ Advance(c, "close")
  /\ UNCHANGED <<cacheVars, poolVars, transfer, netCount, onDisk, leaked, cleaner, tracked, conf>>

(* Close: the container first; a failure is logged, no more.               *)
RemoveContainer(c) ==
  /\ cookie[c].pc = "close"
  /\ cookie' = [cookie EXCEPT ![c].pc = "release", ![c].container = FALSE]
  /\ UNCHANGED <<cacheVars, poolVars, transfer, netCount, onDisk, leaked, cleaner, tracked, conf>>

FreeNetwork(id) == [n \in Networks |-> netCount[n] - IF n = id THEN 1 ELSE 0]

Release(c) ==
  /\ cookie[c].pc = "release"
  /\ IF cookie[c].poolId # None THEN FreePoolId(cookie[c].poolId, "recycle" \in conf) ELSE UNCHANGED poolVars
  /\ netCount' = FreeNetwork(cookie[c].netId)
  /\ IF cookie[c].image # None /\ "cache" \in conf
     THEN MarkFree(c, cookie[c].image) ELSE UNCHANGED cacheVars
  /\ cookie' = [cookie EXCEPT ![c] = NewCookie]
  /\ tracked' = tracked \cup {i \in onDisk : i = cookie[c].image /\ busyRef[i] > 0}
  /\ UNCHANGED <<transfer, onDisk, leaked, cleaner, conf>>

-----------------------------------------------------------------------------
(* The cleanup goroutine: leaked containers, then the images of the disk,   *)
(* then the cleaner's loop until the driver's context ends.                 *)

CleanerTo(pc) == cleaner' = [cleaner EXCEPT !.pc = pc]

killLeakedContainers ==
  /\ cleaner.pc = "kill"
  /\ leaked' \in SUBSET leaked          \* a removal that fails is only logged
  /\ CleanerTo(IF "cache" \in conf THEN "list" ELSE "stopped")
  /\ UNCHANGED <<cacheVars, poolVars, cookie, transfer, netCount, onDisk, tracked, conf>>

syncImageCleaner ==
  /\ cleaner.pc = "list"
  /\ cleaner' = [cleaner EXCEPT !.pc = "sync", !.todo = onDisk]
  /\ UNCHANGED <<cacheVars, poolVars, cookie, transfer, netCount, onDisk, leaked, tracked, conf>>

syncOne ==
  /\ cleaner.pc = "sync"
  /\ IF cleaner.todo = {}
     THEN CleanerTo("check") /\ UNCHANGED <<cacheVars, tracked, conf>>
     ELSE \E i \in cleaner.todo :
            /\ Update(Cleaner, i)
            /\ tracked' = tracked \cup ({i} \cap onDisk)
            /\ cleaner' = [cleaner EXCEPT !.todo = @ \ {i}]
  /\ UNCHANGED <<poolVars, cookie, transfer, netCount, onDisk, leaked, conf>>

(* runImageCleaner: sleep until the cache is full, pop, remove.             *)
cleanerChecks ==
  /\ cleaner.pc = "check"
  /\ CleanerTo(IF IsMaxCapacity THEN "pop" ELSE "sleep")
  /\ UNCHANGED <<cacheVars, poolVars, cookie, transfer, netCount, onDisk, leaked, tracked, conf>>

cleanerWakes ==
  /\ cleaner.pc = "sleep" /\ notifier
  /\ notifier' = FALSE
  /\ CleanerTo("check")
  /\ UNCHANGED <<lru, lruSize, busyRef, busySize, sending>>
  /\ UNCHANGED <<poolVars, cookie, transfer, netCount, onDisk, leaked, tracked, conf>>

cleanerPops ==
  /\ cleaner.pc = "pop"
  /\ IF lru = <<>> THEN CleanerTo("check") /\ UNCHANGED cacheVars
     ELSE Pop /\ cleaner' = [cleaner EXCEPT !.pc = "remove", !.img = Last(lru)]
  /\ UNCHANGED <<poolVars, cookie, transfer, netCount, onDisk, leaked, tracked, conf>>

putBackNot(i) == UNCHANGED cacheVars    \* mutant: a failed removal is forgotten
putBack(i) == Update(Cleaner, i)

(* The daemon removes an image without containers or not; whatever it did,  *)
(* the call may fail (it timed out), and then the image is put back.        *)
removeImage ==
  LET i == cleaner.img IN
  /\ cleaner.pc = "remove"
  /\ \E gone \in SUBSET {i} :
       /\ gone # {} => ~InUse(i)
       /\ onDisk' = onDisk \ gone /\ tracked' = tracked \ gone
       /\ putBack(i) \/ (i \notin onDisk \ gone /\ UNCHANGED cacheVars)
  /\ cleaner' = [cleaner EXCEPT !.pc = "check", !.img = None]
  /\ UNCHANGED <<poolVars, cookie, transfer, netCount, leaked, conf>>

cleanerStops ==
  /\ poolClose = "returned" /\ cleaner.pc \in {"check", "sleep"}
  /\ CleanerTo("stopped")
  /\ UNCHANGED <<cacheVars, poolVars, cookie, transfer, netCount, onDisk, leaked, tracked, conf>>

-----------------------------------------------------------------------------
CookieStep(c) ==
  /\ c \notin sending
  /\ \/ \E i \in Images : CreateCookie(c, i)
     \/ InspectImage(c) \/ MarkInspected(c) \/ PullImage(c) \/ CreateContainer(c)
     \/ RunEnds(c) \/ RemoveContainer(c) \/ Release(c)

CleanerStep ==
  /\ Cleaner \notin sending
  /\ \/ killLeakedContainers \/ syncImageCleaner \/ syncOne \/ cleanerChecks
     \/ cleanerWakes \/ cleanerPops \/ removeImage \/ cleanerStops

Notify(who) == sendNotify(who) /\ UNCHANGED <<poolVars, drvVars>>

PoolStep ==
  /\ prepareImage \/ PoolClosed \/ (\E p \in PoolIds : nannyStep(p))
  /\ UNCHANGED <<cacheVars, drvVars>>

(* Driver.Close comes after the agent's sessions have ended: no cookie is   *)
(* left (agent.go:221-235).                                                 *)
DriverClose ==
  /\ \A c \in Cookies : cookie[c].pc = "new" /\ c \notin sending
  /\ PoolClose
  /\ UNCHANGED <<cacheVars, drvVars>>

Next ==
  /\ ~fatal
  /\ \/ poolClose = "idle" /\ \E c \in Cookies : CookieStep(c)
     \/ \E i \in Images : pullRetry(i) \/ startTransferEnds(i)
     \/ CleanerStep \/ PoolStep \/ DriverClose
     \/ \E who \in sending : Notify(who)

Spec == Init /\ [][Next]_vars

(* Goroutines run, the daemon answers every call in the end, and containers *)
(* end; nobody is obliged to create a cookie, and no pull has to succeed.   *)
Fairness ==
  /\ WF_vars(~fatal /\ CleanerStep)
  /\ \A who \in Cookies \cup {Cleaner} : WF_vars(~fatal /\ Notify(who))
  /\ \A i \in Images : WF_vars(~fatal /\ startTransferEnds(i))

FairSpec == Spec /\ Fairness

-----------------------------------------------------------------------------
CookieRecord ==
  [pc : {"new", "validate", "inspected", "pull", "pulling", "revalidate", "create", "run", "close", "release"},
   task : Images \cup {None}, poolId : PoolIds \cup {None}, netId : Networks \cup {None},
   image : Images \cup {None}, marked : BOOLEAN, container : BOOLEAN]
TransferRecord == [active : BOOLEAN, listeners : SUBSET Cookies, tries : 0 .. MaxRetries]
CleanerRecord ==
  [pc : {"kill", "list", "sync", "check", "sleep", "pop", "remove", "stopped"},
   img : Images \cup {None}, todo : SUBSET Images]

(* Type invariant. *)
TypeOK ==
  /\ lru \in Seq(Images) /\ busyRef \in [Images -> Nat]
  /\ {lruSize, busySize} \subseteq Int /\ notifier \in BOOLEAN
  /\ sending \subseteq Cookies \cup {Cleaner}
  /\ inuse \subseteq PoolIds /\ free \in Seq(PoolIds)
  /\ nanny \in [PoolIds -> NannyState] /\ cancelled \in [PoolIds -> BOOLEAN]
  /\ {poolCtx, gate, fatal, exitedInUse} \subseteq BOOLEAN
  /\ poolClose \in {"idle", "waiting", "returned"}
  /\ cookie \in [Cookies -> CookieRecord] /\ transfer \in [Images -> TransferRecord]
  /\ netCount \in [Networks -> Int]
  /\ onDisk \subseteq Images /\ leaked \subseteq Images /\ tracked \subseteq onDisk
  /\ cleaner \in CleanerRecord

Marking(i) == {c \in Cookies : cookie[c].marked /\ cookie[c].image = i}
Joined(n) == {c \in Cookies : cookie[c].netId = n}

(* The cache's sizes and lists agree, its references are those of the       *)
(* living cookies, one each, whatever way a cookie took through validation, *)
(* pull and failure, and the network counts likewise: nothing is freed      *)
(* twice or kept for ever.                                                  *)
HoldingsExact ==
  /\ CacheExact
  /\ "cache" \in conf => \A i \in Images \ Exempt : busyRef[i] = Cardinality(Marking(i))
  /\ \A n \in Networks : netCount[n] = Cardinality(Joined(n))

(* An image the cache was told of is not forgotten while it is on disk: it  *)
(* is idle, busy, or in the cleaner's hands, also after a removal that      *)
(* failed and with cookies that take the image while it is being removed.   *)
NoImageForgotten ==
  \A i \in tracked \ Exempt : InLRU(i) \/ busyRef[i] > 0 \/ cleaner.img = i

(* No two function containers share the network of one pool container, as   *)
(* long as pool containers do not die while they are handed out: FreePoolId *)
(* goes by an id that outlives the container (docker_pool.go:383).          *)
PoolExclusive ==
  \/ exitedInUse
  \/ /\ \A c, d \in Cookies : c # d /\ cookie[c].poolId # None => cookie[c].poolId # cookie[d].poolId
     /\ \A c \in Cookies : cookie[c].poolId # None => cookie[c].poolId \notin ToSet(free)

(* Everyone who waits for a docker-pull hears of its end, those who joined  *)
(* at the last moment too.                                                  *)
PullsEnd == \A c \in Cookies : cookie[c].pc = "pulling" ~> cookie[c].pc # "pulling" \/ fatal
=============================================================================
