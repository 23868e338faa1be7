---------------------------- MODULE AdvancedBridge ----------------------------
(***************************************************************************)
(* The embedded sing-box (singbox.go, gateway.go 529-660 and 2233-2258):   *)
(* each link of an advanced protocol gets a local port, which the rest of  *)
(* the gateway takes for an ordinary node.  When the links change, a new   *)
(* instance with other ports takes over from the old one and the slots     *)
(* move.  Two callers do this: the pool watcher with what the sources list *)
(* and initCustomSlots with what the configuration lists.  advMu covers    *)
(* the change of instance, not the moving of the slots.                    *)
(***************************************************************************)
EXTENDS Integers, Functions

CONSTANTS
    Links,        \* advanced links
    ManualLinks,  \* those of the configuration
    Ports         \* local ports, from advancedBasePort up

ASSUME BridgeAssumption == ManualLinks \subseteq Links /\ Ports \subseteq Nat

VARIABLES
    aLinks,   \* advancedBridge.Links: link to local port
    aSeen,    \* gateway.advSeen
    aCool,    \* gateway.advCooldown
    aSlots,   \* the local ports in gateway.custom
    aManual,  \* the local ports in gateway.manualAddrs
    build     \* per caller of ensureAdvancedBridge: where it is

advVars == <<aLinks, aSeen, aCool, aSlots, aManual, build>>

Builders == {"watcher", "init"}
Mapped == {aLinks[l] : l \in DOMAIN aLinks}
BuildAt(b, place) == build[b].at = place

\* gateway.manualAdv
manualAdv == IF BuildAt("init", "start") THEN {} ELSE ManualLinks

\* Per caller: the links it brings, the ports it must drop, bind and check.
AdvInit ==
    /\ aLinks = <<>> /\ aSeen = {} /\ aCool = {} /\ aSlots = {} /\ aManual = {}
    /\ build = [b \in Builders |-> [at |-> "start", new |-> {}, old |-> {}, work |-> {}]]

-----------------------------------------------------------------------------
\* Deviation: a link that cools is mapped again when a source lists it.
WantedAgain(new) == manualAdv \cup aSeen \cup new

\* advCollect: the links wanted; those that cool are not brought back.
Wanted(new) == manualAdv \cup aSeen \cup (new \ aCool)

\* allocatePorts: the lowest ports that are free, one for each link; the old
\* instance still holds its own.  Which link gets which is left open (the code
\* goes by their names).
Allocated(want) ==
    LET free == Ports \ Mapped
    IN  {ports \in Injection(want, free) :
            \A l \in want, p \in free : p < ports[l] => \E k \in want : ports[k] = p}

\* ensureAdvancedBridge under its lock.  The same links, no link at all or a
\* sing-box that does not start: all stays as it is.  The ports of links that
\* are not manual are left to the first check of the watcher.
EnsureLink(b) ==
    LET want == Wanted(build[b].new)
        new(ls) == {aLinks'[l] : l \in ls}
    IN
    /\ BuildAt(b, "ensure")
    /\ \/ build' = [build EXCEPT ![b].at = "check", ![b].new = {}] /\ UNCHANGED <<aLinks, aSeen>>
       \/ /\ want \notin {{}, DOMAIN aLinks}
          /\ aLinks' \in Allocated(want) /\ aSeen' = want
          /\ build' = [build EXCEPT ![b].at = "drop", ![b].old = Mapped,
                          ![b].new = new(want \cap manualAdv),
                          ![b].work = IF b = "watcher" THEN new(want \ manualAdv) ELSE {}]
    /\ UNCHANGED <<aCool, aSlots, aManual>>

\* The old instance is closed and its slots go, without the lock, ...
DropOld(b) ==
    /\ BuildAt(b, "drop")
    /\ aSlots' = aSlots \ build[b].old
    /\ aManual' = aManual \ build[b].old
    /\ build' = [build EXCEPT ![b].at = "bind", ![b].old = {}]
    /\ UNCHANGED <<aLinks, aSeen, aCool>>

\* ... and the new ports of manual links are slots at once.
BindNew(b) ==
    /\ BuildAt(b, "bind")
    /\ aSlots' = aSlots \cup build[b].new
    /\ aManual' = aManual \cup build[b].new
    /\ build' = [build EXCEPT ![b].at = "check", ![b].new = {}]
    /\ UNCHANGED <<aLinks, aSeen, aCool>>

-----------------------------------------------------------------------------
\* initCustomSlots.
Configure ==
    /\ BuildAt("init", "start")
    /\ build' = [build EXCEPT !["init"].at = "ensure", !["init"].new = ManualLinks]
    /\ UNCHANGED <<aLinks, aSeen, aCool, aSlots, aManual>>

\* parseCustomProxies looks up the ports as they are now ...
LookUp ==
    /\ BuildAt("init", "check")
    /\ build' = [build EXCEPT !["init"].at = "add",
                    !["init"].work = {aLinks[l] : l \in ManualLinks \cap DOMAIN aLinks}]
    /\ UNCHANGED <<aLinks, aSeen, aCool, aSlots, aManual>>

\* ... and each is marked and added when its probe has ended, come what may.
AddConfigured(p) ==
    /\ BuildAt("init", "add") /\ p \in build["init"].work
    /\ aManual' = aManual \cup {p} /\ aSlots' = aSlots \cup {p}
    /\ build' = [build EXCEPT !["init"].work = @ \ {p}]
    /\ UNCHANGED <<aLinks, aSeen, aCool>>

-----------------------------------------------------------------------------
\* refreshPool: the round before is over; of what the sources list, the links
\* that are not mapped are new.
FetchLinks ==
    /\ BuildAt("watcher", "start") \/ (BuildAt("watcher", "check") /\ build["watcher"].work = {})
    /\ \E adv \in SUBSET Links :
           build' = [build EXCEPT !["watcher"].at = "ensure", !["watcher"].new = adv \ aSeen]
    /\ UNCHANGED <<aLinks, aSeen, aCool, aSlots, aManual>>

\* advEvictAddr: a link whose port is dead is given up for advLinkCooldown.
Evict(p) ==
    LET gone == {l \in DOMAIN aLinks : aLinks[l] = p /\ l \notin manualAdv}
    IN  aSeen' = aSeen \ gone /\ aCool' = aCool \cup gone

\* A check of a port ends, the first one or (once it was passed) a deep one:
\* it serves, or it is given up (settleDeep keeps the slot of a manual node).
PortPasses(p) ==
    /\ BuildAt("watcher", "check") /\ p \in build["watcher"].work
    /\ build' = [build EXCEPT !["watcher"].work = @ \ {p}]
    /\ aSlots' = aSlots \cup {p}
    /\ UNCHANGED <<aLinks, aSeen, aCool, aManual>>

PortFails(p) ==
    /\ BuildAt("watcher", "check") /\ p \in build["watcher"].work \cup aSlots
    /\ build' = [build EXCEPT !["watcher"].work = @ \ {p}]
    /\ Evict(p)
    /\ aSlots' = IF p \in aManual THEN aSlots ELSE aSlots \ {p}
    /\ UNCHANGED <<aLinks, aManual>>

LinkCooled(l) ==
    /\ l \in aCool /\ aCool' = aCool \ {l}
    /\ UNCHANGED <<aLinks, aSeen, aSlots, aManual, build>>

AdvNext ==
    \/ Configure \/ LookUp \/ FetchLinks
    \/ \E b \in Builders : EnsureLink(b) \/ DropOld(b) \/ BindNew(b)
    \/ \E p \in Ports : AddConfigured(p) \/ PortPasses(p) \/ PortFails(p)
    \/ \E l \in Links : LinkCooled(l)

AdvSpec == AdvInit /\ [][AdvNext]_advVars

-----------------------------------------------------------------------------
\* Every mapping is a port of its own.
AdvTypeOK ==
    /\ DOMAIN aLinks \subseteq Links /\ IsInjective(aLinks)
    /\ Mapped \cup aSlots \cup aManual \subseteq Ports
    /\ aSeen \cup aCool \subseteq Links

\* A link that a check has given up is not mapped again before its time, by
\* whichever of the two callers and however late the check ends (advCollect,
\* advEvictAddr).
GivenUpStaysOut == aSeen \cap aCool \subseteq manualAdv
=============================================================================
