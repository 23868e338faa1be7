----------------------------- MODULE IpReputation -----------------------------
(***************************************************************************)
(* The reputation of exits (iprep.go): a bounded queue of exits, workers   *)
(* that ask up to four sources about the IP behind each, and a cache by    *)
(* IP.  A source that fails often is left alone for a while.               *)
(*                                                                         *)
(* Durations are kept as the ticks that are left of them, up to the        *)
(* longest that matters; their order is that of the code.                  *)
(***************************************************************************)
EXTENDS Integers, Sequences, FiniteSets, SequencesExt

CONSTANTS
    RepAddrs,     \* exits, as host and port
    IpOf,         \* the IP of an exit; NoIp for what is local and leads nowhere
    NoIp,
    RepWorkers,
    RepQueueCap,  \* the length of the queue
    CacheMax,     \* ipRepMaxCache
    SourceFails,  \* ipRepSourceFails
    SourceOff,    \* ipRepSourceOff
    QuotaOff,     \* the day for which ipapi.is is left alone
    GeoGap,       \* geoMinInterval
    Reports       \* what Blackbox may find: sets of signals

ASSUME RepAssumption ==
    /\ RepQueueCap \in Nat /\ CacheMax \in Nat
    /\ {SourceFails, SourceOff, QuotaOff, GeoGap} \subseteq Nat \ {0} /\ SourceOff < QuotaOff

VARIABLES
    iQueue, iPending,  \* ipReputer.queue and pending
    iCache,            \* ipReputer.cache: IP -> score
    iSource,           \* per source: failures in a row, and how long it is off
    iGeoNext,          \* ipReputer.geoNext
    iWork              \* per worker: where it is

repVars == <<iQueue, iPending, iCache, iSource, iGeoNext, iWork>>

Sources == {"blackbox", "ipapi", "geo", "iprisk"}
Unknown == -1
Resting == [at |-> "rest", addr |-> "", ip |-> NoIp, score |-> Unknown, country |-> FALSE, wait |-> 0]

RepIps == {IpOf[a] : a \in RepAddrs}
RepWorkType ==
    [at : {"rest", "look", "pace", "store"} \cup Sources, addr : RepAddrs \cup {""}, ip : RepIps \cup {NoIp},
     score : Unknown .. 100, country : BOOLEAN, wait : 0 .. GeoGap]

RepInit ==
    /\ iQueue = <<>> /\ iPending = {} /\ iCache = <<>>
    /\ iSource = [s \in Sources |-> [fails |-> 0, off |-> 0]]
    /\ iGeoNext = 0
    /\ iWork = [w \in RepWorkers |-> Resting]

WorkAt(w, place) == iWork[w].at = place
Goes(w, place) == iWork' = [iWork EXCEPT ![w].at = place]

-----------------------------------------------------------------------------
\* Request, after a promotion, at the start and once a day.  The cache is looked
\* up by exit though it is kept by IP: it never has it.
RequestCheck(a) ==
    /\ a \notin iPending /\ Len(iQueue) < RepQueueCap
    /\ iPending' = iPending \cup {a} /\ iQueue' = Append(iQueue, a)
    /\ UNCHANGED <<iCache, iSource, iGeoNext, iWork>>

\* Deviation: an exit that is being checked may be asked for again.
TakeExitAnew(w) ==
    /\ WorkAt(w, "rest") /\ iQueue # <<>>
    /\ iQueue' = Tail(iQueue) /\ iPending' = iPending \ {Head(iQueue)}
    /\ iWork' = [iWork EXCEPT ![w] = [Resting EXCEPT !.at = "look", !.addr = Head(iQueue)]]
    /\ UNCHANGED <<iCache, iSource, iGeoNext>>

TakeExit(w) ==
    /\ WorkAt(w, "rest") /\ iQueue # <<>>
    /\ iQueue' = Tail(iQueue)
    /\ iWork' = [iWork EXCEPT ![w] = [Resting EXCEPT !.at = "look", !.addr = Head(iQueue)]]
    /\ UNCHANGED <<iPending, iCache, iSource, iGeoNext>>

-----------------------------------------------------------------------------
\* The end of process: the exit is not pending any more.
RepRest(w) ==
    /\ iPending' = iPending \ {iWork[w].addr}
    /\ iWork' = [iWork EXCEPT ![w] = Resting]

\* process: a name that does not resolve, a local address that leads nowhere and
\* an IP that is known end it; what is known goes to the exit tracker.
LookUpIp(w) ==
    /\ WorkAt(w, "look")
    /\ \E ip \in {IpOf[iWork[w].addr], NoIp} :
           IF ip = NoIp \/ ip \in DOMAIN iCache THEN RepRest(w)
           ELSE /\ iWork' = [iWork EXCEPT ![w].at = "blackbox", ![w].ip = ip]
                /\ UNCHANGED iPending
    /\ UNCHANGED <<iQueue, iCache, iSource, iGeoNext>>

-----------------------------------------------------------------------------
\* srcState.
Available(s) == iSource[s].off = 0

NoteOk(s) == iSource' = [iSource EXCEPT ![s].fails = 0]

AfterFailure(src) ==
    IF src.fails + 1 >= SourceFails THEN [fails |-> 0, off |-> SourceOff]
    ELSE [src EXCEPT !.fails = @ + 1]
NoteFailed(s) == iSource' = [iSource EXCEPT ![s] = AfterFailure(@)]

\* The places in the order of check.
After(s) == CASE s = "blackbox" -> "ipapi" [] s = "ipapi" -> "geo" [] s = "geo" -> "iprisk" [] s = "iprisk" -> "store"

\* A source that is off, or (for the country) has nothing to add, is passed over.
PassSource(w, s) ==
    /\ WorkAt(w, s) /\ (~Available(s) \/ (s = "geo" /\ iWork[w].country))
    /\ Goes(w, After(s))
    /\ UNCHANGED <<iQueue, iPending, iCache, iSource, iGeoNext>>

Score(w, score, country) ==
    iWork' = [iWork EXCEPT ![w].at = After(@), ![w].score = score, ![w].country = @ \/ country]

\* blackboxScore: what the signals that were found take off, up to a limit.
BlackboxPenalty(found) ==
    10 * Cardinality(found \cap {"hosting", "suspicious", "vpnLikely"})
      + 15 * Cardinality(found \cap {"sfs", "vpn"})
      + 25 * Cardinality(found \cap {"proxy", "spamhaus"})
      + 40 * Cardinality(found \cap {"tor", "bogon"})
AtMost(cap, n) == IF n > cap THEN cap ELSE n
AskBlackbox(w) ==
    /\ WorkAt(w, "blackbox") /\ Available("blackbox")
    /\ \/ NoteFailed("blackbox") /\ Goes(w, "ipapi")
       \/ NoteOk("blackbox") /\ \E signals \in Reports : Score(w, 100 - AtMost(90, BlackboxPenalty(signals)), FALSE)
    /\ UNCHANGED <<iQueue, iPending, iCache, iGeoNext>>

\* The second opinion takes off more, or starts from 100; told that its quota is
\* spent, it is left alone for a day, and the failure counts as any other.
SecondSignals == {"abuser", "tor", "proxy", "vpn"}
SecondPenalty(found) ==
    35 * Cardinality(found \cap {"abuser"}) + 20 * Cardinality(found \cap {"tor"})
      + 10 * Cardinality(found \cap {"proxy", "vpn"})
AskIpapi(w) ==
    /\ WorkAt(w, "ipapi") /\ Available("ipapi")
    /\ \/ NoteFailed("ipapi") /\ Goes(w, "geo")
       \/ iSource' = [iSource EXCEPT !["ipapi"] = AfterFailure([@ EXCEPT !.off = QuotaOff])] /\ Goes(w, "geo")
       \/ /\ NoteOk("ipapi")
          /\ \E signals \in {{}, SecondSignals}, country \in BOOLEAN :
                LET base == IF iWork[w].score = Unknown THEN 100 ELSE iWork[w].score
                    left == base - AtMost(45, SecondPenalty(signals))
                IN  Score(w, IF left < 0 THEN 0 ELSE left, country)
    /\ UNCHANGED <<iQueue, iPending, iCache, iGeoNext>>

\* paceGeo: whoever comes puts the next turn one gap from now, and sleeps for
\* what was left of the last.
PaceGeo(w) ==
    /\ WorkAt(w, "geo") /\ Available("geo") /\ ~iWork[w].country
    /\ iWork' = [iWork EXCEPT ![w].at = "pace", ![w].wait = iGeoNext]
    /\ iGeoNext' = GeoGap
    /\ UNCHANGED <<iQueue, iPending, iCache, iSource>>

AskGeo(w) ==
    /\ WorkAt(w, "pace") /\ iWork[w].wait = 0
    /\ (NoteOk("geo") /\ Goes(w, "iprisk")) \/ (NoteFailed("geo") /\ Goes(w, "iprisk"))
    /\ UNCHANGED <<iQueue, iPending, iCache, iGeoNext>>

\* The page, directly and then through an exit.  What it lacks is no failure.
\* Its failures are counted without a lock: a count may be lost.
AskIprisk(w) ==
    /\ WorkAt(w, "iprisk") /\ Available("iprisk")
    /\ \/ NoteFailed("iprisk") /\ Goes(w, "store")
       \/ UNCHANGED iSource /\ Goes(w, "store")
       \/ /\ NoteOk("iprisk")
          /\ \E page \in {0, 100} :
                Score(w, IF iWork[w].score = Unknown THEN page ELSE (iWork[w].score + page) \div 2, FALSE)
    /\ UNCHANGED <<iQueue, iPending, iCache, iGeoNext>>

\* The result, if any, is kept; a cache too large is emptied.
StoreResult(w) ==
    /\ WorkAt(w, "store") /\ RepRest(w)
    /\ LET ips == DOMAIN iCache \cup {iWork[w].ip} IN
       iCache' = IF iWork[w].score = Unknown THEN iCache
                 ELSE IF Cardinality(ips) > CacheMax THEN <<>>
                 ELSE [ip \in ips |-> IF ip = iWork[w].ip THEN iWork[w].score ELSE iCache[ip]]
    /\ UNCHANGED <<iQueue, iSource, iGeoNext>>

ResultAges(ip) ==
    /\ ip \in DOMAIN iCache
    /\ iCache' = [j \in DOMAIN iCache \ {ip} |-> iCache[j]]
    /\ UNCHANGED <<iQueue, iPending, iSource, iGeoNext, iWork>>

\* Time passes; a sleep ends when it is over.
Less(n) == IF n = 0 THEN 0 ELSE n - 1
RepTick ==
    /\ \A w \in RepWorkers : WorkAt(w, "pace") => iWork[w].wait > 0
    /\ iSource' = [s \in Sources |-> [iSource[s] EXCEPT !.off = Less(@)]]
    /\ iGeoNext' = Less(iGeoNext)
    /\ iWork' = [w \in RepWorkers |-> [iWork[w] EXCEPT !.wait = Less(@)]]
    /\ UNCHANGED <<iQueue, iPending, iCache>>

RepStep(w) ==
    \/ TakeExit(w) \/ LookUpIp(w) \/ AskBlackbox(w) \/ AskIpapi(w) \/ PaceGeo(w) \/ AskGeo(w)
    \/ AskIprisk(w) \/ StoreResult(w) \/ \E s \in Sources : PassSource(w, s)

RepNext ==
    \/ RepTick
    \/ \E a \in RepAddrs : RequestCheck(a)
    \/ \E w \in RepWorkers : RepStep(w)
    \/ \E ip \in DOMAIN iCache : ResultAges(ip)

RepSpec == RepInit /\ [][RepNext]_repVars

-----------------------------------------------------------------------------
\* The queue keeps its length and the cache its limit; a score stays on its scale
\* whatever the sources find, one after the other.
RepTypeOK ==
    /\ iQueue \in Seq(RepAddrs) /\ Len(iQueue) <= RepQueueCap /\ iPending \subseteq RepAddrs
    /\ DOMAIN iCache \subseteq RepIps \ {NoIp} /\ Cardinality(DOMAIN iCache) <= CacheMax
    /\ \A ip \in DOMAIN iCache : iCache[ip] \in 0 .. 100
    /\ iSource \in [Sources -> [fails : 0 .. (SourceFails - 1), off : 0 .. QuotaOff]]
    /\ iGeoNext \in 0 .. GeoGap
    /\ iWork \in [RepWorkers -> RepWorkType]
    /\ \A w \in RepWorkers : ~WorkAt(w, "rest") => iWork[w].addr \in RepAddrs

\* An exit that is asked for again and again is in the queue or with a worker,
\* and with one of them only (Request, process).
ExitCheckedOnce ==
    /\ IsInjective(iQueue)
    /\ \A v, w \in RepWorkers :
          /\ ~WorkAt(w, "rest") => ~Contains(iQueue, iWork[w].addr)
          /\ v # w /\ ~WorkAt(v, "rest") /\ ~WorkAt(w, "rest") => iWork[v].addr # iWork[w].addr
==============================================================================
