--------------------------- MODULE RoutesProofs ---------------------------
(***************************************************************************)
(* Proofs about what a request may go out through: the bridge to advanced  *)
(* proxies, the layers of dispatch, the reputation of exits and the pool   *)
(* of nodes, each for any links, ports, requests, slots, retries, exits,   *)
(* workers and nodes; and, with those of the accounts of Cline             *)
(* (ClineProofs), the type of the four that run together.                  *)
(***************************************************************************)
EXTENDS MCRoutes, NodePool, ClineProofs, FiniteSetTheorems, SequenceTheorems, TLAPS

-----------------------------------------------------------------------------
(* AdvancedBridge: a link that was seen is wanted, and what is wanted but   *)
(* not manual does not cool.  The configuration is read once, so a manual   *)
(* link stays one.                                                          *)

BuildShape == DOMAIN build = Builders /\ \A b \in Builders : "at" \in DOMAIN build[b]

AdvInv == BuildShape /\ GivenUpStaysOut

LEMMA AdvInitInv == AdvInit => AdvInv
BY DEF AdvInit, AdvInv, BuildShape, GivenUpStaysOut

\* Whatever a step does to a caller of ensureAdvancedBridge, it is not at its start
\* again.
LEMMA ManualStays ==
    ASSUME BuildShape, [AdvNext]_advVars
    PROVE  BuildShape' /\ manualAdv \subseteq manualAdv'
<1> USE DEF BuildShape, BuildAt
<1>0. "init" \in Builders /\ "watcher" \in Builders
  BY DEF Builders
<1>1. BuildShape' /\ (build'["init"].at = "start" => build["init"].at = "start")
  <2>1. CASE Configure
    BY <1>0, <2>1 DEF Configure
  <2>2. CASE LookUp
    <3>1. PICK w : build' = [build EXCEPT !["init"].at = "add", !["init"].work = w]
      BY <2>2 DEF LookUp
    <3>2. /\ DOMAIN build' = Builders /\ build'["init"].at = "add" /\ build'["watcher"] = build["watcher"]
          /\ "at" \in DOMAIN build'["init"]
      BY <1>0, <3>1
    <3> QED
      BY <1>0, <3>2 DEF Builders
  <2>3. CASE FetchLinks
    BY <1>0, <2>3 DEF FetchLinks
  <2>4. ASSUME NEW b \in Builders, EnsureLink(b) PROVE BuildShape' /\ (build'["init"].at = "start" => build["init"].at = "start")
    <3>1. CASE build' = [build EXCEPT ![b].at = "check", ![b].new = {}]
      BY <1>0, <3>1
    <3> DEFINE want == Wanted(build[b].new)
               n == {aLinks'[l] : l \in want \cap manualAdv}
               w == IF b = "watcher" THEN {aLinks'[l] : l \in want \ manualAdv} ELSE {}
    <3>2. \/ build' = [build EXCEPT ![b].at = "check", ![b].new = {}]
          \/ build' = [build EXCEPT ![b].at = "drop", ![b].old = Mapped, ![b].new = n, ![b].work = w]
      BY <2>4, Zenon DEF EnsureLink
    <3> HIDE DEF n, w
    <3>3. CASE build' = [build EXCEPT ![b].at = "drop", ![b].old = Mapped, ![b].new = n, ![b].work = w]
      BY <1>0, <3>3
    <3> QED
      BY <3>1, <3>2, <3>3
  <2>5. ASSUME NEW b \in Builders, DropOld(b) \/ BindNew(b) PROVE BuildShape' /\ (build'["init"].at = "start" => build["init"].at = "start")
    BY <1>0, <2>5 DEF DropOld, BindNew
  <2>6. ASSUME NEW p \in Ports, AddConfigured(p) \/ PortPasses(p) \/ PortFails(p)
        PROVE  BuildShape' /\ (build'["init"].at = "start" => build["init"].at = "start")
    BY <1>0, <2>6 DEF AddConfigured, PortPasses, PortFails
  <2>7. ASSUME UNCHANGED build PROVE BuildShape' /\ (build'["init"].at = "start" => build["init"].at = "start")
    BY <2>7
  <2> QED
    BY <2>1, <2>2, <2>3, <2>4, <2>5, <2>6, <2>7 DEF AdvNext, LinkCooled, advVars
<1> QED
  BY <1>1 DEF manualAdv

LEMMA AdvNextInv == AdvInv /\ [AdvNext]_advVars => AdvInv'
<1> SUFFICES ASSUME AdvInv, [AdvNext]_advVars PROVE AdvInv'
  OBVIOUS
<1>1. BuildShape' /\ manualAdv \subseteq manualAdv'
  BY ManualStays DEF AdvInv
<1>2. aSeen \cap aCool \subseteq manualAdv
  BY DEF AdvInv, GivenUpStaysOut
<1>3. ASSUME NEW b \in Builders, EnsureLink(b) PROVE aSeen' \cap aCool' \subseteq manualAdv
  BY <1>2, <1>3 DEF EnsureLink, Wanted
<1>4. ASSUME NEW p \in Ports, PortFails(p) PROVE aSeen' \cap aCool' \subseteq manualAdv
  BY <1>2, <1>4 DEF PortFails, Evict
<1>5. aSeen' \subseteq aSeen /\ aCool' \subseteq aCool => aSeen' \cap aCool' \subseteq manualAdv
  BY <1>2
<1>6. aSeen' \cap aCool' \subseteq manualAdv
  BY <1>3, <1>4, <1>5 DEF AdvNext, Configure, LookUp, FetchLinks, DropOld, BindNew, AddConfigured,
       PortPasses, LinkCooled, advVars
<1> QED
  BY <1>1, <1>6 DEF AdvInv, GivenUpStaysOut

\* advCollect does not bring back a link that a check has given up, by whichever
\* caller and however late the check ends.
THEOREM LinkStaysOut == AdvSpec => []GivenUpStaysOut
<1>1. AdvInv => GivenUpStaysOut
  BY DEF AdvInv
<1> QED
  BY <1>1, AdvInitInv, AdvNextInv, PTL DEF AdvSpec

-----------------------------------------------------------------------------
(* AdvancedBridge, types: what a caller brings are links until they are     *)
(* given ports, each its own, and then their ports.                         *)

\* Where a caller is, and what it brings: links until the ports are allocated,
\* then their ports.
BuildType ==
    [at : {"start", "ensure", "drop", "bind", "check", "add"}, new : SUBSET (Links \cup Ports),
     old : SUBSET Ports, work : SUBSET Ports]

BuildsSound ==
    /\ build \in [Builders -> BuildType]
    /\ \A b \in Builders : /\ BuildAt(b, "ensure") => build[b].new \subseteq Links
                           /\ BuildAt(b, "drop") \/ BuildAt(b, "bind") => build[b].new \subseteq Ports

LinksSound ==
    /\ DOMAIN aLinks \subseteq Links /\ IsInjective(aLinks)
    /\ \A l \in DOMAIN aLinks : aLinks[l] \in Ports

AdvTyped ==
    /\ BuildsSound /\ LinksSound
    /\ aSlots \subseteq Ports /\ aManual \subseteq Ports
    /\ aSeen \subseteq Links /\ aCool \subseteq Links

LEMMA AdvTypedInit == AdvInit => AdvTyped
<1> SUFFICES ASSUME AdvInit PROVE AdvTyped
  OBVIOUS
<1>1. BuildsSound
  BY DEF AdvInit, BuildsSound, BuildType, BuildAt
<1>2. LinksSound
  BY DEF AdvInit, LinksSound, IsInjective
<1> QED
  BY <1>1, <1>2 DEF AdvInit, AdvTyped

\* A caller that moves keeps the others sound.
LEMMA BuildMoves ==
    ASSUME BuildsSound, NEW b \in Builders, NEW record \in BuildType,
           build' = [build EXCEPT ![b] = record],
           record.at = "ensure" => record.new \subseteq Links,
           record.at \in {"drop", "bind"} => record.new \subseteq Ports
    PROVE  BuildsSound'
BY DEF BuildsSound, BuildAt

\* allocatePorts gives each link a port of its own.
LEMMA PortsAllocated ==
    ASSUME NEW want, NEW ports \in Allocated(want)
    PROVE  /\ DOMAIN ports = want /\ IsInjective(ports)
           /\ \A l \in want : ports[l] \in Ports
BY DEF Allocated, Injection

LEMMA WantedLinks ==
    ASSUME NEW new, new \subseteq Links, aSeen \subseteq Links PROVE Wanted(new) \subseteq Links
BY BridgeAssumption DEF Wanted, manualAdv

LEMMA EnsureTyped ==
    ASSUME AdvTyped, NEW b \in Builders, EnsureLink(b) PROVE AdvTyped'
<1> DEFINE want == Wanted(build[b].new)
           ported(ls) == {aLinks'[l] : l \in ls}
<1>1. /\ build[b] \in BuildType /\ build[b].new \subseteq Links
      /\ UNCHANGED <<aCool, aSlots, aManual>>
  BY DEF AdvTyped, BuildsSound, EnsureLink, BuildAt
<1>2. want \subseteq Links
  BY <1>1, WantedLinks DEF AdvTyped
<1>3. CASE build' = [build EXCEPT ![b].at = "check", ![b].new = {}] /\ UNCHANGED <<aLinks, aSeen>>
  <2> DEFINE record == [build[b] EXCEPT !.at = "check", !.new = {}]
  <2>1. record \in BuildType /\ record.at = "check" /\ build' = [build EXCEPT ![b] = record]
    BY <1>1, <1>3 DEF BuildType
  <2> HIDE DEF record
  <2>2. BuildsSound'
    BY <2>1, BuildMoves DEF AdvTyped
  <2> QED
    BY <1>1, <1>3, <2>2 DEF AdvTyped, LinksSound
<1>4. CASE /\ aLinks' \in Allocated(want) /\ aSeen' = want
           /\ build' = [build EXCEPT ![b].at = "drop", ![b].old = Mapped,
                           ![b].new = ported(want \cap manualAdv),
                           ![b].work = IF b = "watcher" THEN ported(want \ manualAdv) ELSE {}]
  <2> DEFINE work == IF b = "watcher" THEN ported(want \ manualAdv) ELSE {}
             mine == ported(want \cap manualAdv)
  <2>0. /\ DOMAIN aLinks' = want /\ IsInjective(aLinks)'
        /\ \A l \in want : aLinks'[l] \in Ports
    BY <1>4, PortsAllocated, Zenon
  <2>1. LinksSound'
    BY <1>2, <2>0 DEF LinksSound
  <2>2. mine \subseteq Ports /\ work \subseteq Ports
    BY <2>0
  <2>3. Mapped \subseteq Ports
    BY DEF AdvTyped, LinksSound, Mapped
  <2>4. build' = [build EXCEPT ![b].at = "drop", ![b].old = Mapped, ![b].new = mine, ![b].work = work]
    BY <1>4, Zenon
  <2> HIDE DEF work, mine
  <2> DEFINE record == [build[b] EXCEPT !.at = "drop", !.old = Mapped, !.new = mine, !.work = work]
  <2>5. record \in BuildType /\ record.at = "drop" /\ record.new = mine /\ build' = [build EXCEPT ![b] = record]
    BY <1>1, <2>2, <2>3, <2>4 DEF BuildType
  <2> HIDE DEF record
  <2>6. BuildsSound'
    BY <2>2, <2>5, BuildMoves DEF AdvTyped
  <2> QED
    BY <1>1, <1>2, <1>4, <2>1, <2>6 DEF AdvTyped
<1> QED
  BY <1>3, <1>4, Zenon DEF EnsureLink

LEMMA AdvTypedNext == AdvTyped /\ [AdvNext]_advVars => AdvTyped'
<1> SUFFICES ASSUME AdvTyped, [AdvNext]_advVars PROVE AdvTyped'
  OBVIOUS
<1> USE DEF AdvTyped
<1>0. "init" \in Builders /\ "watcher" \in Builders /\ build \in [Builders -> BuildType]
  BY DEF Builders, BuildsSound
<1>1. CASE Configure
  <2> DEFINE record == [build["init"] EXCEPT !.at = "ensure", !.new = ManualLinks]
  <2>1. record \in BuildType /\ record.new \subseteq Links /\ record.at = "ensure"
    BY <1>0, BridgeAssumption DEF BuildType
  <2>2. build' = [build EXCEPT !["init"] = record] /\ UNCHANGED <<aLinks, aSeen, aCool, aSlots, aManual>>
    BY <1>0, <1>1 DEF Configure
  <2> HIDE DEF record
  <2>3. BuildsSound'
    BY <1>0, <2>1, <2>2, BuildMoves
  <2> QED
    BY <2>2, <2>3 DEF LinksSound
<1>2. CASE LookUp
  <2> DEFINE work == {aLinks[l] : l \in ManualLinks \cap DOMAIN aLinks}
             record == [build["init"] EXCEPT !.at = "add", !.work = work]
  <2>1. work \subseteq Ports
    BY DEF LinksSound
  <2>2. build' = [build EXCEPT !["init"].at = "add", !["init"].work = work]
        /\ UNCHANGED <<aLinks, aSeen, aCool, aSlots, aManual>>
    BY <1>2 DEF LookUp
  <2> HIDE DEF work
  <2>3. record \in BuildType /\ record.at = "add" /\ build' = [build EXCEPT !["init"] = record]
    BY <1>0, <2>1, <2>2 DEF BuildType
  <2> HIDE DEF record
  <2>4. BuildsSound'
    BY <1>0, <2>3, BuildMoves
  <2> QED
    BY <2>2, <2>4 DEF LinksSound
<1>3. CASE FetchLinks
  <2>1. PICK adv \in SUBSET Links :
            build' = [build EXCEPT !["watcher"].at = "ensure", !["watcher"].new = adv \ aSeen]
    BY <1>3 DEF FetchLinks
  <2> DEFINE record == [build["watcher"] EXCEPT !.at = "ensure", !.new = adv \ aSeen]
  <2>2. /\ record \in BuildType /\ record.new \subseteq Links /\ record.at = "ensure"
        /\ build' = [build EXCEPT !["watcher"] = record]
    BY <1>0, <2>1 DEF BuildType
  <2> HIDE DEF record
  <2>3. BuildsSound'
    BY <1>0, <2>2, BuildMoves
  <2> QED
    BY <1>3, <2>3 DEF LinksSound, FetchLinks
<1>4. ASSUME NEW b \in Builders, EnsureLink(b) PROVE AdvTyped'
  BY <1>4, EnsureTyped
<1>5. ASSUME NEW b \in Builders, DropOld(b) PROVE AdvTyped'
  <2> DEFINE record == [build[b] EXCEPT !.at = "bind", !.old = {}]
  <2>1. /\ record \in BuildType /\ record.new \subseteq Ports /\ record.at = "bind"
        /\ build' = [build EXCEPT ![b] = record]
    BY <1>0, <1>5 DEF BuildType, DropOld, BuildsSound, BuildAt
  <2> HIDE DEF record
  <2>2. BuildsSound'
    BY <2>1, BuildMoves
  <2> QED
    BY <1>5, <2>2 DEF LinksSound, DropOld
<1>6. ASSUME NEW b \in Builders, BindNew(b) PROVE AdvTyped'
  <2> DEFINE record == [build[b] EXCEPT !.at = "check", !.new = {}]
  <2>1. /\ record \in BuildType /\ record.at = "check" /\ build[b].new \subseteq Ports
        /\ build' = [build EXCEPT ![b] = record]
    BY <1>0, <1>6 DEF BuildType, BindNew, BuildsSound, BuildAt
  <2> HIDE DEF record
  <2>2. BuildsSound'
    BY <2>1, BuildMoves
  <2> QED
    BY <1>6, <2>1, <2>2 DEF LinksSound, BindNew
<1>7. ASSUME NEW p \in Ports, AddConfigured(p) PROVE AdvTyped'
  <2> DEFINE record == [build["init"] EXCEPT !.work = @ \ {p}]
  <2>1. /\ record \in BuildType /\ record.at = "add"
        /\ build' = [build EXCEPT !["init"] = record]
    BY <1>0, <1>7 DEF BuildType, AddConfigured, BuildAt
  <2> HIDE DEF record
  <2>2. BuildsSound'
    BY <1>0, <2>1, BuildMoves
  <2> QED
    BY <1>7, <2>2 DEF LinksSound, AddConfigured
<1>8. ASSUME NEW p \in Ports, PortPasses(p) \/ PortFails(p) PROVE AdvTyped'
  <2> DEFINE record == [build["watcher"] EXCEPT !.work = @ \ {p}]
  <2>1. /\ record \in BuildType /\ record.at = "check"
        /\ build' = [build EXCEPT !["watcher"] = record]
    BY <1>0, <1>8 DEF BuildType, PortPasses, PortFails, BuildAt
  <2> HIDE DEF record
  <2>2. BuildsSound'
    BY <1>0, <2>1, BuildMoves
  <2> QED
    BY <1>8, <2>2 DEF LinksSound, PortPasses, PortFails, Evict
<1>9. ASSUME NEW l \in Links, LinkCooled(l) PROVE AdvTyped'
  BY <1>9 DEF LinkCooled, LinksSound, BuildsSound, BuildAt
<1>10. CASE UNCHANGED advVars
  BY <1>10 DEF advVars, LinksSound, BuildsSound, BuildAt
<1> QED
  BY <1>1, <1>2, <1>3, <1>4, <1>5, <1>6, <1>7, <1>8, <1>9, <1>10 DEF AdvNext

LEMMA AdvTypedTypeOK == AdvTyped => AdvTypeOK
BY DEF AdvTyped, AdvTypeOK, LinksSound, Mapped

-----------------------------------------------------------------------------
(* LayeredDispatch: there is one fill at a time, and it adds one slot at a  *)
(* time, for which there was room.  Others only drop slots.                 *)

FillsSound ==
    /\ IsFiniteSet(lSlots) /\ Cardinality(lSlots) <= SlotCount
    /\ \A f, g \in lFills : f = g
    /\ \A f \in lFills : /\ "add" \in DOMAIN f
                         /\ f.add = {} \/ (Cardinality(lSlots) < SlotCount /\ \E a : f.add = {a})

LEMMA FillsInit == LayeredInit => FillsSound
BY LayeredAssumption, FS_EmptySet DEF LayeredInit, FillsSound, LayeredAssumption

\* fillMu: a fill begins when there is none, with nothing to add.
LEMMA FillStarts ==
    ASSUME FillsSound, NEW f, StartFill(f), UNCHANGED lSlots PROVE FillsSound'
<1>1. PICK b : lFills' = lFills \cup {[by |-> f, batch |-> b, add |-> {}]}
  BY DEF StartFill
<1>2. lFills = {}
  BY DEF StartFill, LockFree
<1>3. /\ \A g, h \in lFills' : g = h
      /\ \A g \in lFills' : "add" \in DOMAIN g /\ g.add = {}
  BY <1>1, <1>2
<1> QED
  BY <1>3 DEF FillsSound

LEMMA SlotDropped ==
    ASSUME FillsSound, NEW s, lSlots' = lSlots \ {s}, UNCHANGED lFills PROVE FillsSound'
<1>1. IsFiniteSet(lSlots') /\ Cardinality(lSlots') <= Cardinality(lSlots)
  BY FS_Subset DEF FillsSound
<1>2. Cardinality(lSlots') \in Nat /\ Cardinality(lSlots) \in Nat
  BY <1>1, FS_CardinalityType DEF FillsSound
<1>3. SlotCount \in Nat
  BY LayeredAssumption
<1>4. Cardinality(lSlots') <= SlotCount /\ (Cardinality(lSlots) < SlotCount => Cardinality(lSlots') < SlotCount)
  BY <1>1, <1>2, <1>3 DEF FillsSound
<1> QED
  BY <1>1, <1>4 DEF FillsSound

LEMMA FillsNext == FillsSound /\ [LayeredNext]_layeredVars => FillsSound'
<1> SUFFICES ASSUME FillsSound, [LayeredNext]_layeredVars PROVE FillsSound'
  OBVIOUS
<1>1. ASSUME UNCHANGED <<lSlots, lFills>> PROVE FillsSound'
  BY <1>1 DEF FillsSound
<1>2. ASSUME NEW f, Refill(f) PROVE FillsSound'
  BY <1>2, FillStarts DEF Refill
<1>3. ASSUME NEW fill, NEW a, ProbeEnds(fill, a) PROVE FillsSound'
  <2>1. PICK add \in {{}, IF Cardinality(lSlots) < SlotCount THEN {a} ELSE {}} :
            lFills' = (lFills \ {fill}) \cup {[fill EXCEPT !.batch = fill.batch \ {a}, !.add = add]}
    BY <1>3 DEF ProbeEnds
  <2>2. fill \in lFills /\ lFills \ {fill} = {} /\ UNCHANGED lSlots
    BY <1>3 DEF ProbeEnds, FillsSound
  <2> DEFINE new == [fill EXCEPT !.batch = fill.batch \ {a}, !.add = add]
  <2>3. "add" \in DOMAIN new /\ new.add = add
    BY <2>2 DEF FillsSound
  <2>4. lFills' = {new}
    BY <2>1, <2>2
  <2>5. add = {} \/ (Cardinality(lSlots) < SlotCount /\ \E b : add = {b})
    BY <2>1
  <2> HIDE DEF new
  <2> QED
    BY <2>2, <2>3, <2>4, <2>5 DEF FillsSound
<1>4. ASSUME NEW fill, AddSlot(fill) PROVE FillsSound'
  <2>1. /\ fill \in lFills /\ lFills \ {fill} = {} /\ lSlots' = lSlots \cup fill.add
        /\ Cardinality(lSlots) < SlotCount
    BY <1>4 DEF AddSlot, FillsSound
  <2>2. PICK a : fill.add = {a}
    BY <1>4 DEF AddSlot, FillsSound
  <2>3. IsFiniteSet(lSlots') /\ Cardinality(lSlots') <= Cardinality(lSlots) + 1 /\ Cardinality(lSlots) \in Nat
        /\ Cardinality(lSlots') \in Nat
    BY <2>1, <2>2, FS_AddElement, FS_CardinalityType DEF FillsSound
  <2> DEFINE new == [fill EXCEPT !.add = {}]
  <2>4. "add" \in DOMAIN new /\ new.add = {}
    BY <2>1 DEF FillsSound
  <2>5. lFills' = {new}
    BY <1>4, <2>1 DEF AddSlot
  <2> HIDE DEF new
  <2> QED
    BY <2>1, <2>3, <2>4, <2>5, LayeredAssumption DEF FillsSound, LayeredAssumption
<1>5. ASSUME NEW fill, EndFill(fill) PROVE FillsSound'
  BY <1>5 DEF EndFill, FillsSound
<1>6. ASSUME NEW r \in LReqs, EnterLayer(r) PROVE FillsSound'
  BY <1>1, <1>6, FillStarts DEF EnterLayer
<1>7. ASSUME NEW r \in LReqs, TryPublic(r) PROVE FillsSound'
  <2>1. UNCHANGED lSlots \/ \E s : lSlots' = lSlots \ {s}
    BY <1>7 DEF TryPublic
  <2>2. UNCHANGED lFills
    BY <1>7 DEF TryPublic
  <2> QED
    BY <1>1, <2>1, <2>2, SlotDropped
<1> QED
  BY <1>1, <1>2, <1>3, <1>4, <1>5, <1>6, <1>7 DEF LayeredNext, Refresh, Dispatch, NextMirror, OutOfTime, TryOther,
     TryLast, EndDispatch, TimeIsUp, LeaveDispatch, layeredVars

\* However many requests, refills and tickers find slots wanting, and however late
\* their probes end, fillSlots fills no more of them than SlotCount.
THEOREM SlotsKeepTheirNumber == LayeredSpec => []SlotsBounded
<1>1. FillsSound => SlotsBounded
  BY DEF FillsSound, SlotsBounded
<1> QED
  BY <1>1, FillsInit, FillsNext, PTL DEF LayeredSpec

-----------------------------------------------------------------------------
\* A request that has asked the anchor for its model is marked.
AnchorMarks(f) ==
    /\ DOMAIN f = LReqs
    /\ \A q \in LReqs : /\ {"anchors", "anchored"} \subseteq DOMAIN f[q]
                        /\ f[q].anchors = 0 \/ (f[q].anchors = 1 /\ f[q].anchored = TRUE)

LEMMA EndedMarks ==
    ASSUME NEW f, AnchorMarks(f), NEW r \in LReqs, NEW result PROVE AnchorMarks(Ended(r, f, result))
BY DEF AnchorMarks, Ended

\* The anchor is asked only by a request without the mark.
LEMMA AskedMarks ==
    ASSUME NEW f, AnchorMarks(f), NEW r \in LReqs, ~f[r].anchored, NEW ok PROVE AnchorMarks(AnchorMarked(r, f, ok))
BY DEF AnchorMarks, AnchorMarked

LEMMA AnchorInit == LayeredInit => AnchorMarks(lReq)
BY DEF LayeredInit, AnchorMarks, NewLReq

LEMMA AnchorNext == AnchorMarks(lReq) /\ [LayeredNext]_layeredVars => AnchorMarks(lReq)'
<1> SUFFICES ASSUME AnchorMarks(lReq), [LayeredNext]_layeredVars PROVE AnchorMarks(lReq')
  BY DEF AnchorMarks
<1>1. ASSUME UNCHANGED lReq PROVE AnchorMarks(lReq')
  BY <1>1
<1>2. ASSUME NEW fill \in lFills, EndFill(fill) PROVE AnchorMarks(lReq')
  BY <1>2 DEF EndFill, AnchorMarks
<1>3. ASSUME NEW r \in LReqs, Dispatch(r) PROVE AnchorMarks(lReq')
  <2> DEFINE next == [lReq EXCEPT ![r].at = "mirror", ![r].dispatch = lReq[r].dispatch + 1, ![r].result = "none"]
             anew == [next EXCEPT ![r].anchored = FALSE, ![r].anchors = 0]
  <2>1. AnchorMarks(next)
    BY DEF AnchorMarks
  <2>2. AnchorMarks(next) => AnchorMarks(anew)
    <3> HIDE DEF next
    <3> QED
      BY DEF AnchorMarks
  <2>3. lReq' = next \/ lReq' = anew
    BY <1>3 DEF Dispatch
  <2> QED
    BY <2>1, <2>2, <2>3
<1>4. ASSUME NEW r \in LReqs, NextMirror(r) PROVE AnchorMarks(lReq')
  BY <1>4 DEF NextMirror, AnchorMarks
<1>5. ASSUME NEW r \in LReqs, EnterLayer(r) PROVE AnchorMarks(lReq')
  <2>1. \/ lReq' = [lReq EXCEPT ![r].at = "mirror", ![r].bad = IF "mirror" \in lReq[r].bad THEN {"dispatch"} ELSE lReq[r].bad]
        \/ lReq' = [lReq EXCEPT ![r].at = "layer"]
        \/ lReq' = [[lReq EXCEPT ![r].at = "layer"] EXCEPT ![r].at = "filling"]
    BY <1>5 DEF EnterLayer
  <2> QED
    BY <2>1 DEF AnchorMarks
<1>6. ASSUME NEW r \in LReqs, OutOfTime(r) PROVE AnchorMarks(lReq')
  BY <1>6, EndedMarks DEF OutOfTime
<1>7. ASSUME NEW r \in LReqs PROVE AnchorMarks(Leave(r))
  BY DEF Leave, AnchorMarks
<1>8. ASSUME NEW r \in LReqs, TryPublic(r) PROVE AnchorMarks(lReq')
  <2>1. CASE lReq' = Leave(r)
    BY <1>7, <2>1
  <2>2. ASSUME NEW s,
               LET sent == [lReq EXCEPT ![r].attempt = lReq[r].attempt + 1, ![r].tried = lReq[r].tried \cup {s}]
               IN  \/ lReq' = Ended(r, sent, "good")
                   \/ lReq' \in {sent, [sent EXCEPT ![r].bad = sent[r].bad \cup {"layer"}]}
        PROVE  AnchorMarks(lReq')
    <3> DEFINE sent == [lReq EXCEPT ![r].attempt = lReq[r].attempt + 1, ![r].tried = lReq[r].tried \cup {s}]
    <3>1. AnchorMarks(sent)
      BY DEF AnchorMarks
    <3>2. \/ lReq' = Ended(r, sent, "good") \/ lReq' = sent
          \/ lReq' = [sent EXCEPT ![r].bad = sent[r].bad \cup {"layer"}]
      BY <2>2
    <3> HIDE DEF sent
    <3>3. AnchorMarks([sent EXCEPT ![r].bad = sent[r].bad \cup {"layer"}])
      BY <3>1 DEF AnchorMarks
    <3> QED
      BY <3>1, <3>2, <3>3, EndedMarks
  <2> QED
    BY <1>8, <2>1, <2>2 DEF TryPublic
<1>9. ASSUME NEW r \in LReqs, TryOther(r) PROVE AnchorMarks(lReq')
  <2> DEFINE sent == [lReq EXCEPT ![r].attempt = lReq[r].attempt + 1]
  <2>1. AnchorMarks(sent)
    BY DEF AnchorMarks
  <2>2. \/ lReq' = Leave(r) \/ lReq' = Ended(r, sent, "good") \/ lReq' = sent
        \/ lReq' = [sent EXCEPT ![r].bad = sent[r].bad \cup {"layer"}]
    BY <1>9 DEF TryOther
  <2> HIDE DEF sent
  <2>3. AnchorMarks([sent EXCEPT ![r].bad = sent[r].bad \cup {"layer"}])
    BY <2>1 DEF AnchorMarks
  <2> QED
    BY <1>7, <2>1, <2>2, <2>3, EndedMarks
<1>10. ASSUME NEW r \in LReqs, TryLast(r) PROVE AnchorMarks(lReq')
  <2>1. ASSUME NEW bad,
               LET failed == [lReq EXCEPT ![r].at = "enter", ![r].layers = <<>>,
                                          ![r].bad = (lReq[r].bad \cap {"dispatch"}) \cup bad]
               IN  \/ lReq' = failed
                   \/ AnchorFree(r) /\ lReq' \in {Ended(r, AnchorMarked(r, lReq, TRUE), "good"), AnchorMarked(r, failed, FALSE)}
        PROVE  AnchorMarks(lReq')
    <3> DEFINE failed == [lReq EXCEPT ![r].at = "enter", ![r].layers = <<>>,
                                      ![r].bad = (lReq[r].bad \cap {"dispatch"}) \cup bad]
    <3>1. AnchorMarks(failed) /\ (failed[r].anchored <=> lReq[r].anchored)
      BY DEF AnchorMarks
    <3>2. \/ lReq' = failed
          \/ AnchorFree(r) /\ (lReq' = Ended(r, AnchorMarked(r, lReq, TRUE), "good") \/ lReq' = AnchorMarked(r, failed, FALSE))
      BY <2>1
    <3> HIDE DEF failed
    <3> QED
      BY <3>1, <3>2, EndedMarks, AskedMarks DEF AnchorFree
  <2>2. lReq' = Ended(r, lReq, "good") => AnchorMarks(lReq')
    BY EndedMarks
  <2> QED
    BY <1>10, <2>1, <2>2 DEF TryLast
<1>11. ASSUME NEW r \in LReqs, EndDispatch(r) PROVE AnchorMarks(lReq')
  <2> DEFINE rest == IF "dispatch" \in lReq[r].bad THEN "bad" ELSE "error"
             given == Ended(r, lReq, rest)
  <2>1. AnchorMarks(given) /\ (given[r].anchored <=> lReq[r].anchored)
    BY DEF AnchorMarks, Ended
  <2>2. \/ lReq' = given
        \/ AnchorFree(r) /\ (lReq' = Ended(r, AnchorMarked(r, lReq, TRUE), "good") \/ lReq' = AnchorMarked(r, given, FALSE))
    BY <1>11 DEF EndDispatch
  <2> HIDE DEF given
  <2> QED
    BY <2>1, <2>2, EndedMarks, AskedMarks DEF AnchorFree
<1>12. ASSUME NEW r \in LReqs, LeaveDispatch(r) PROVE AnchorMarks(lReq')
  BY <1>12 DEF LeaveDispatch, AnchorMarks, NewLReq
<1> QED
  BY <1>1, <1>2, <1>3, <1>4, <1>5, <1>6, <1>8, <1>9, <1>10, <1>11, <1>12 DEF LayeredNext, Refresh, Refill,
     ProbeEnds, AddSlot, TimeIsUp, layeredVars

\* markTried comes before each use of the anchor, and is forgotten only with the
\* model: it is asked once, over all mirrors and dispatches.
THEOREM AnchorAskedOnce == LayeredSpec => []AnchorOnce
<1>1. AnchorMarks(lReq) => AnchorOnce
  BY DEF AnchorMarks, AnchorOnce
<1> QED
  BY <1>1, AnchorInit, AnchorNext, PTL DEF LayeredSpec

-----------------------------------------------------------------------------
(* LayeredDispatch, types: a request that waits has the one fill there is,  *)
(* and attempts belong to the layer it is in.                               *)

\* A request in order: within its bounds, and in a layer while it waits or
\* attempts, with no more attempts than the layer has retries.
ReqSound(q) ==
    /\ q.mirror <= lCfg.mirrors /\ q.dispatch <= MaxDispatches
    /\ q.at \in {"filling", "layer"} => q.layers # <<>>
    /\ q.attempt > 0 => /\ q.at = "layer" /\ Head(q.layers) \in LayerNames
                        /\ q.attempt <= Retries[Head(q.layers)]

ReqsSound(f) == f \in [LReqs -> LReqType] /\ \A q \in LReqs : ReqSound(f[q])

FillType == [by : Fillers, batch : SUBSET LExits, add : SUBSET LExits]

\* A request waits if there is a fill of its own.
Waiting == \A r \in LReqs : ReqAt(r, "filling") <=> \E fill \in lFills : fill.by = r

LayeredTyped ==
    /\ lCfg \in Configs /\ lOver \subseteq LReqs /\ lSlots \subseteq LExits /\ lCand \in Seq(LExits)
    /\ lFills \subseteq FillType /\ ReqsSound(lReq) /\ Waiting

LEMMA SameSound ==
    ASSUME NEW p, ReqSound(p), NEW q, q.at = p.at, q.mirror = p.mirror, q.dispatch = p.dispatch,
           q.layers = p.layers, q.attempt = p.attempt
    PROVE  ReqSound(q)
BY Zenon DEF ReqSound

LEMMA NewReqSound == lCfg \in Configs => NewLReq \in LReqType /\ ReqSound(NewLReq) /\ NewLReq.at = "idle"
<1> SUFFICES ASSUME lCfg \in Configs PROVE NewLReq \in LReqType /\ ReqSound(NewLReq) /\ NewLReq.at = "idle"
  OBVIOUS
<1> DEFINE none == <<>>
<1>1. none \in LRoutes
  BY DEF LRoutes
<1>2. NewLReq = [at |-> "idle", dispatch |-> 0, mirror |-> 0, layers |-> none, attempt |-> 0, tried |-> {},
                 bad |-> {}, anchored |-> FALSE, anchors |-> 0, result |-> "none"]
  BY DEF NewLReq
<1>3. lCfg.mirrors \in Nat /\ MaxDispatches \in Nat
  BY LayeredAssumption
<1> HIDE DEF none
<1> QED
  BY <1>1, <1>2, <1>3 DEF LReqType, ReqSound

LEMMA LayeredTypedInit == LayeredInit => LayeredTyped
<1> SUFFICES ASSUME LayeredInit PROVE LayeredTyped
  OBVIOUS
<1>1. lCfg \in Configs /\ lOver = {} /\ lSlots = {} /\ lCand \in Seq(LExits) /\ lFills = {}
  BY DEF LayeredInit
<1>2. lReq = [r \in LReqs |-> NewLReq]
  BY DEF LayeredInit
<1>3. ReqsSound(lReq)
  BY <1>1, <1>2, NewReqSound DEF ReqsSound
<1>4. Waiting
  BY <1>1, <1>2, NewReqSound DEF Waiting, ReqAt
<1> QED
  BY <1>1, <1>3, <1>4 DEF LayeredTyped

-----------------------------------------------------------------------------
\* f is a state of the requests after r has moved, which does not wait.
Settled(f, r) ==
    /\ ReqsSound(f) /\ f[r].at # "filling"
    /\ \A q \in LReqs \ {r} : f[q].at = lReq[q].at

LEMMA Moved ==
    ASSUME NEW r \in LReqs, NEW f, Settled(f, r), NEW q \in LReqType, ReqSound(q), q.at # "filling",
           NEW g, g = [f EXCEPT ![r] = q]
    PROVE  Settled(g, r)
BY DEF Settled, ReqsSound

\* The step of a request that did not wait leaves all as it should be.
LEMMA StepSettles ==
    ASSUME LayeredTyped, NEW r \in LReqs, ~ReqAt(r, "filling"), Settled(lReq', r), UNCHANGED <<lFills, lCfg>>
    PROVE  ReqsSound(lReq)' /\ Waiting'
<1>1. \A q \in LReqs : lReq'[q].at = "filling" <=> lReq[q].at = "filling"
  BY DEF Settled, ReqAt
<1> QED
  BY <1>1 DEF Settled, ReqsSound, LayeredTyped, Waiting, ReqAt, ReqSound

LEMMA EndedSettled ==
    ASSUME LayeredTyped, NEW r \in LReqs, NEW f, Settled(f, r), NEW result \in {"good", "bad", "error", "over"}
    PROVE  Settled(Ended(r, f, result), r)
<1> DEFINE none == <<>>
           q == [f[r] EXCEPT !.at = "done", !.result = result, !.mirror = 0, !.layers = none,
                             !.attempt = 0, !.tried = {}, !.bad = {}]
<1>1. none \in LRoutes
  BY DEF LRoutes
<1>2. lCfg.mirrors \in Nat
  BY LayeredAssumption DEF LayeredTyped
<1>3. Ended(r, f, result) =
          [f EXCEPT ![r].at = "done", ![r].result = result, ![r].mirror = 0, ![r].layers = none,
                    ![r].attempt = 0, ![r].tried = {}, ![r].bad = {}]
  BY DEF Ended
<1> HIDE DEF none
<1>4. f \in [LReqs -> LReqType] /\ f[r] \in LReqType /\ ReqSound(f[r])
  BY DEF Settled, ReqsSound
<1>5. Ended(r, f, result) = [f EXCEPT ![r] = q]
  BY <1>3, <1>4
<1>6. q \in LReqType /\ q.at = "done" /\ q.mirror = 0 /\ q.attempt = 0 /\ q.dispatch = f[r].dispatch
  BY <1>1, <1>4 DEF LReqType
<1>7. f[r].dispatch <= MaxDispatches
  BY <1>4 DEF ReqSound
<1> HIDE DEF q
<1>8. ReqSound(q)
  BY <1>2, <1>6, <1>7 DEF ReqSound
<1> QED
  BY <1>5, <1>6, <1>8, Moved

LEMMA AnchorSettled ==
    ASSUME NEW r \in LReqs, NEW f, Settled(f, r), NEW ok \in BOOLEAN
    PROVE  Settled(AnchorMarked(r, f, ok), r)
<1> DEFINE q == [f[r] EXCEPT !.anchors = f[r].anchors + 1, !.anchored = TRUE]
<1>0. f[r] \in LReqType
  BY DEF Settled, ReqsSound
<1>1. f \in [LReqs -> LReqType] /\ ReqSound(f[r]) /\ f[r].at # "filling"
  BY DEF Settled, ReqsSound
<1>2. AnchorMarked(r, f, ok) = [f EXCEPT ![r] = q]
  BY <1>1 DEF AnchorMarked
<1>3. f[r].anchors + 1 \in Nat
  BY <1>0 DEF LReqType
<1>4. \A n \in Nat : [f[r] EXCEPT !.anchors = n, !.anchored = TRUE] \in LReqType
  BY <1>0 DEF LReqType
<1>5. q \in LReqType
  BY <1>3, <1>4
<1>6. /\ q.at = f[r].at /\ q.mirror = f[r].mirror /\ q.dispatch = f[r].dispatch /\ q.layers = f[r].layers
      /\ q.attempt = f[r].attempt
  BY <1>0 DEF LReqType
<1> HIDE DEF q
<1>7. ReqSound(q)
  BY <1>1, <1>6 DEF ReqSound
<1> QED
  BY <1>1, <1>2, <1>5, <1>6, <1>7, Moved

\* A request that does not wait may be asked for its next move.
LEMMA Stays == ASSUME LayeredTyped, NEW r \in LReqs, ~ReqAt(r, "filling") PROVE Settled(lReq, r)
BY DEF Settled, LayeredTyped, ReqAt

LEMMA LeaveSettled ==
    ASSUME LayeredTyped, NEW r \in LReqs, ReqAt(r, "layer") PROVE Settled(Leave(r), r)
<1> DEFINE bad == IF "layer" \in lReq[r].bad THEN {"mirror"} \cup (lReq[r].bad \ {"layer"}) ELSE lReq[r].bad
           rest == Tail(lReq[r].layers)
           q == [lReq[r] EXCEPT !.at = "enter", !.layers = rest, !.attempt = 0, !.tried = {}, !.bad = bad]
<1>1. lReq \in [LReqs -> LReqType] /\ ReqSound(lReq[r]) /\ lReq[r].at = "layer"
  BY DEF LayeredTyped, ReqsSound, ReqAt
<1>2. lReq[r].layers \in LRoutes /\ lReq[r].layers # <<>>
  BY <1>1 DEF LReqType, ReqSound
<1>3. rest \in LRoutes
  BY <1>2 DEF LRoutes
<1>4. bad \in SUBSET {"layer", "mirror", "dispatch"}
  BY <1>1 DEF LReqType
<1>5. Leave(r) = [lReq EXCEPT ![r].at = "enter", ![r].layers = rest, ![r].attempt = 0, ![r].tried = {},
                              ![r].bad = bad]
  BY <1>1 DEF Leave
<1> HIDE DEF bad, rest
<1>6. Leave(r) = [lReq EXCEPT ![r] = q]
  BY <1>1, <1>5
<1>7. /\ q \in LReqType /\ q.at = "enter" /\ q.attempt = 0
      /\ q.mirror = lReq[r].mirror /\ q.dispatch = lReq[r].dispatch
  BY <1>1, <1>3, <1>4 DEF LReqType
<1> HIDE DEF q
<1>8. ReqSound(q)
  BY <1>1, <1>7 DEF ReqSound
<1>9. Settled(lReq, r)
  BY <1>1, Stays DEF ReqAt
<1> QED
  BY <1>6, <1>7, <1>8, <1>9, Moved

-----------------------------------------------------------------------------
\* What is still to be read of a list is of exits, and so is what is taken of it.
LEMMA TakenTyped ==
    ASSUME NEW list \in Seq(LExits), NEW limit, NEW n \in TakeLengths(limit, list)
    PROVE  Taken(n, list) \subseteq LExits /\ SubSeq(list, n + 1, Len(list)) \in Seq(LExits)
<1>1. n \in 0 .. Len(list)
  BY DEF TakeLengths
<1>2. \A i \in 1 .. n : list[i] \in LExits
  BY <1>1
<1>3. Taken(n, list) \subseteq LExits
  BY <1>2 DEF Taken
<1> QED
  BY <1>1, <1>3

LEMMA StartTyped ==
    ASSUME LayeredTyped, NEW f \in Fillers, StartFill(f)
    PROVE  /\ lFills = {} /\ lCand' \in Seq(LExits)
           /\ \E batch \in SUBSET LExits : lFills' = {[by |-> f, batch |-> batch, add |-> {}]}
<1>1. lFills = {}
  BY DEF StartFill, LockFree
<1>2. PICK list \in Listings \cup {lCand} : \E n \in TakeLengths((SlotCount - Cardinality(lSlots)) + 3, list) :
          /\ lCand' = SubSeq(list, n + 1, Len(list))
          /\ lFills' = lFills \cup {[by |-> f, batch |-> Taken(n, list), add |-> {}]}
  BY DEF StartFill
<1>3. list \in Seq(LExits)
  BY LayeredAssumption DEF LayeredTyped
<1> QED
  BY <1>1, <1>2, <1>3, TakenTyped

LEMMA RefillTyped ==
    ASSUME LayeredTyped, NEW f \in {"refill", "refresh"}, Refill(f) PROVE LayeredTyped'
<1>1. f \in Fillers /\ f \notin LReqs
  BY LayeredAssumption DEF Fillers
<1>2. StartFill(f) /\ UNCHANGED <<lCfg, lSlots, lReq, lOver>>
  BY DEF Refill
<1>3. PICK batch \in SUBSET LExits : lFills' = {[by |-> f, batch |-> batch, add |-> {}]}
  BY <1>1, <1>2, StartTyped
<1>4. lFills = {} /\ lCand' \in Seq(LExits)
  BY <1>1, <1>2, StartTyped
<1>5. lFills' \subseteq FillType /\ \A fill \in lFills' : fill.by \notin LReqs
  BY <1>1, <1>3 DEF FillType
<1>6. ReqsSound(lReq)' /\ Waiting'
  BY <1>2, <1>4, <1>5 DEF LayeredTyped, ReqsSound, ReqSound, Waiting, ReqAt
<1> QED
  BY <1>2, <1>4, <1>5, <1>6 DEF LayeredTyped

\* A fill that goes on is that of whom it was.
LEMMA FillGoesOn ==
    ASSUME LayeredTyped, NEW fill \in lFills, NEW new \in FillType, new.by = fill.by,
           lFills' = (lFills \ {fill}) \cup {new}, UNCHANGED <<lCfg, lCand, lReq, lOver>>,
           lSlots' \subseteq LExits
    PROVE  LayeredTyped'
BY DEF LayeredTyped, ReqsSound, ReqSound, Waiting, ReqAt

LEMMA ProbeTyped ==
    ASSUME LayeredTyped, NEW fill \in lFills, NEW a \in LExits, ProbeEnds(fill, a) PROVE LayeredTyped'
<1>1. PICK add \in {{}, IF Cardinality(lSlots) < SlotCount THEN {a} ELSE {}} :
          lFills' = (lFills \ {fill}) \cup {[fill EXCEPT !.batch = fill.batch \ {a}, !.add = add]}
  BY DEF ProbeEnds
<1> DEFINE new == [fill EXCEPT !.batch = fill.batch \ {a}, !.add = add]
<1>2. fill \in FillType /\ add \subseteq LExits
  BY <1>1 DEF LayeredTyped
<1>3. new \in FillType /\ new.by = fill.by
  BY <1>2 DEF FillType
<1>4. lSlots' \subseteq LExits /\ UNCHANGED <<lCfg, lCand, lReq, lOver>>
  BY DEF ProbeEnds, LayeredTyped
<1> HIDE DEF new
<1> QED
  BY <1>1, <1>3, <1>4, FillGoesOn DEF new

LEMMA AddTyped ==
    ASSUME LayeredTyped, NEW fill \in lFills, AddSlot(fill) PROVE LayeredTyped'
<1> DEFINE new == [fill EXCEPT !.add = {}]
<1>1. fill \in FillType
  BY DEF LayeredTyped
<1>2. new \in FillType /\ new.by = fill.by /\ fill.add \subseteq LExits
  BY <1>1 DEF FillType
<1>3. lSlots' \subseteq LExits /\ UNCHANGED <<lCfg, lCand, lReq, lOver>> /\ lFills' = (lFills \ {fill}) \cup {new}
  BY <1>2 DEF AddSlot, LayeredTyped
<1> HIDE DEF new
<1> QED
  BY <1>2, <1>3, FillGoesOn

\* The only fill ends, and who waited for it goes on.
LEMMA EndFillTyped ==
    ASSUME LayeredTyped, FillsSound, NEW fill \in lFills, EndFill(fill) PROVE LayeredTyped'
<1>1. lFills = {fill} /\ lFills' = {} /\ UNCHANGED <<lCfg, lCand, lSlots, lOver>>
  BY DEF EndFill, FillsSound
<1>2. \A q \in LReqs : lReq[q].at = "filling" => q = fill.by
  BY <1>1 DEF LayeredTyped, Waiting, ReqAt
<1>3. CASE fill.by \notin LReqs
  <2>1. lReq' = lReq
    BY <1>3 DEF EndFill
  <2> QED
    BY <1>1, <1>2, <1>3, <2>1 DEF LayeredTyped, ReqsSound, ReqSound, Waiting, ReqAt
<1>4. ASSUME fill.by \in LReqs PROVE LayeredTyped'
  <2> DEFINE r == fill.by
             q == [lReq[r] EXCEPT !.at = "layer"]
  <2>1. lReq \in [LReqs -> LReqType] /\ ReqSound(lReq[r]) /\ lReq[r] \in LReqType /\ r \in LReqs
    BY <1>4 DEF LayeredTyped, ReqsSound
  <2>2. lReq[r].at = "filling"
    BY <1>1, <1>4 DEF LayeredTyped, Waiting, ReqAt
  <2>3. /\ q \in LReqType /\ q.at = "layer" /\ q.mirror = lReq[r].mirror /\ q.dispatch = lReq[r].dispatch
        /\ q.layers = lReq[r].layers /\ q.attempt = lReq[r].attempt
    BY <2>1 DEF LReqType
  <2>4. lReq' = [lReq EXCEPT ![r] = q]
    BY <1>4, <2>1 DEF EndFill
  <2> HIDE DEF q, r
  <2>5. ReqSound(q)
    BY <2>1, <2>2, <2>3 DEF ReqSound
  <2>6. Settled(lReq', r) /\ lReq'[r].at # "filling"
    BY <2>1, <2>3, <2>4, <2>5 DEF Settled, ReqsSound, LayeredTyped
  <2>7. Waiting'
    BY <1>1, <1>2, <2>6 DEF Waiting, ReqAt, Settled, r
  <2>8. ReqsSound(lReq)'
    BY <1>1, <2>6 DEF Settled, ReqsSound, ReqSound
  <2> QED
    BY <1>1, <2>7, <2>8 DEF LayeredTyped
<1> QED
  BY <1>3, <1>4

-----------------------------------------------------------------------------
\* Moves of one request that does not wait; a, if any, is a slot that is dropped.
Step(r) ==
    /\ ~ReqAt(r, "filling") /\ Settled(lReq', r)
    /\ UNCHANGED <<lCfg, lCand, lFills>> /\ lSlots' \subseteq lSlots /\ lOver' \subseteq LReqs

LEMMA StepTyped == ASSUME LayeredTyped, NEW r \in LReqs, Step(r) PROVE LayeredTyped'
<1>1. ReqsSound(lReq)' /\ Waiting'
  BY StepSettles DEF Step
<1> QED
  BY <1>1 DEF LayeredTyped, Step

LEMMA DispatchSteps == ASSUME LayeredTyped, NEW r \in LReqs, Dispatch(r) PROVE Step(r)
<1> DEFINE next == [lReq EXCEPT ![r].at = "mirror", ![r].dispatch = lReq[r].dispatch + 1, ![r].result = "none"]
           anew == [next EXCEPT ![r].anchored = FALSE, ![r].anchors = 0]
           p == [lReq[r] EXCEPT !.at = "mirror", !.dispatch = lReq[r].dispatch + 1, !.result = "none"]
           q == [p EXCEPT !.anchored = FALSE, !.anchors = 0]
<1>1. /\ lReq \in [LReqs -> LReqType] /\ lReq[r] \in LReqType /\ ReqSound(lReq[r])
      /\ lReq[r].at \in {"idle", "done"} /\ Settled(lReq, r) /\ ~ReqAt(r, "filling")
  BY Stays DEF LayeredTyped, ReqsSound, Dispatch, ReqAt
<1>2. lReq[r].dispatch + 1 <= MaxDispatches /\ lReq[r].dispatch + 1 \in Nat
  BY <1>1, LayeredAssumption DEF Dispatch, LReqType
<1>3. /\ p \in LReqType /\ p.at = "mirror" /\ p.dispatch = lReq[r].dispatch + 1
      /\ p.mirror = lReq[r].mirror /\ p.attempt = lReq[r].attempt
  BY <1>1, <1>2 DEF LReqType
<1>4. next = [lReq EXCEPT ![r] = p]
  BY <1>1
<1> HIDE DEF p
<1>5. ReqSound(p)
  BY <1>1, <1>2, <1>3 DEF ReqSound
<1> HIDE DEF next
<1>6. Settled(next, r) /\ next[r] = p
  BY <1>1, <1>3, <1>4, <1>5, Moved
<1>7. /\ q \in LReqType /\ q.at = "mirror" /\ q.dispatch = p.dispatch
      /\ q.mirror = p.mirror /\ q.attempt = p.attempt
  BY <1>3 DEF LReqType
<1>8. anew = [next EXCEPT ![r] = q]
  BY <1>4, <1>6
<1> HIDE DEF q
<1>9. ReqSound(q)
  BY <1>3, <1>5, <1>7 DEF ReqSound
<1> HIDE DEF anew
<1>10. Settled(anew, r)
  BY <1>6, <1>7, <1>8, <1>9, Moved
<1>11. lReq' = next \/ lReq' = anew
  BY DEF Dispatch, next, anew
<1> QED
  BY <1>1, <1>6, <1>10, <1>11 DEF Step, Dispatch, LayeredTyped

\* The routes are of layers.
LEMMA RouteLayers == lCfg \in Configs => Routes \subseteq LRoutes
<1> SUFFICES ASSUME lCfg \in Configs PROVE Routes \subseteq LRoutes
  OBVIOUS
<1>1. lCfg.order \in Seq(LayerNames)
  BY LayeredAssumption
<1>2. lCfg.order \in LRoutes /\ Append(lCfg.order, "direct") \in LRoutes
  BY <1>1 DEF LRoutes
<1>3. /\ <<"zen">> \in LRoutes /\ <<"direct">> \in LRoutes /\ <<"race">> \in LRoutes /\ <<>> \in LRoutes
  BY DEF LRoutes, LayerNames
<1> QED
  BY <1>2, <1>3 DEF Routes

LEMMA MirrorSteps == ASSUME LayeredTyped, NEW r \in LReqs, NextMirror(r) PROVE Step(r)
<1>1. /\ lReq \in [LReqs -> LReqType] /\ lReq[r] \in LReqType /\ ReqSound(lReq[r])
      /\ lReq[r].at = "mirror" /\ Settled(lReq, r) /\ ~ReqAt(r, "filling") /\ lCfg.mirrors \in Nat
  BY Stays, LayeredAssumption DEF LayeredTyped, ReqsSound, NextMirror, ReqAt
<1>2. PICK path \in LRoutes :
          lReq' = [lReq EXCEPT ![r].at = "enter", ![r].mirror = lReq[r].mirror + 1, ![r].layers = path]
  BY RouteLayers DEF NextMirror, LayeredTyped
<1>3. lReq[r].mirror + 1 <= lCfg.mirrors /\ lReq[r].mirror + 1 \in Nat
  BY <1>1 DEF NextMirror, LReqType
<1> DEFINE q == [lReq[r] EXCEPT !.at = "enter", !.mirror = lReq[r].mirror + 1, !.layers = path]
<1>4. /\ q \in LReqType /\ q.at = "enter" /\ q.mirror = lReq[r].mirror + 1
      /\ q.dispatch = lReq[r].dispatch /\ q.attempt = lReq[r].attempt
  BY <1>1, <1>3 DEF LReqType
<1>5. lReq' = [lReq EXCEPT ![r] = q]
  BY <1>1, <1>2
<1> HIDE DEF q
<1>6. ReqSound(q)
  BY <1>1, <1>3, <1>4 DEF ReqSound
<1>7. Settled(lReq', r)
  BY <1>1, <1>4, <1>5, <1>6, Moved
<1> QED
  BY <1>1, <1>7 DEF Step, NextMirror, LayeredTyped

LEMMA EnterTyped == ASSUME LayeredTyped, NEW r \in LReqs, EnterLayer(r) PROVE LayeredTyped'
<1>1. /\ lReq \in [LReqs -> LReqType] /\ lReq[r] \in LReqType /\ ReqSound(lReq[r])
      /\ lReq[r].at = "enter" /\ Settled(lReq, r) /\ ~ReqAt(r, "filling")
      /\ UNCHANGED <<lCfg, lSlots, lOver>>
  BY Stays DEF LayeredTyped, ReqsSound, EnterLayer, ReqAt
<1>2. lReq[r].attempt = 0
  BY <1>1 DEF ReqSound, LReqType
<1>3. ASSUME lReq' = [lReq EXCEPT ![r].at = "mirror",
                                  ![r].bad = IF "mirror" \in lReq[r].bad THEN {"dispatch"} ELSE lReq[r].bad],
             UNCHANGED <<lCand, lFills>>
      PROVE  LayeredTyped'
  <2> DEFINE bad == IF "mirror" \in lReq[r].bad THEN {"dispatch"} ELSE lReq[r].bad
             q == [lReq[r] EXCEPT !.at = "mirror", !.bad = bad]
  <2>1. bad \in SUBSET {"layer", "mirror", "dispatch"}
    BY <1>1 DEF LReqType
  <2>2. lReq' = [lReq EXCEPT ![r].at = "mirror", ![r].bad = bad]
    BY <1>3
  <2> HIDE DEF bad
  <2>3. /\ q \in LReqType /\ q.at = "mirror" /\ q.mirror = lReq[r].mirror
        /\ q.dispatch = lReq[r].dispatch /\ q.attempt = lReq[r].attempt
    BY <1>1, <2>1 DEF LReqType
  <2>4. lReq' = [lReq EXCEPT ![r] = q]
    BY <1>1, <2>2
  <2> HIDE DEF q
  <2>5. ReqSound(q)
    BY <1>1, <1>2, <2>3 DEF ReqSound
  <2>6. Settled(lReq', r)
    BY <1>1, <2>3, <2>4, <2>5, Moved
  <2> QED
    BY <1>1, <1>3, <2>6, StepTyped DEF Step, LayeredTyped
<1>4. ASSUME lReq[r].layers # <<>>, lReq' = [lReq EXCEPT ![r].at = "layer"], UNCHANGED <<lCand, lFills>>
      PROVE  LayeredTyped'
  <2> DEFINE q == [lReq[r] EXCEPT !.at = "layer"]
  <2>1. /\ q \in LReqType /\ q.at = "layer" /\ q.mirror = lReq[r].mirror /\ q.layers = lReq[r].layers
        /\ q.dispatch = lReq[r].dispatch /\ q.attempt = lReq[r].attempt
    BY <1>1 DEF LReqType
  <2>2. lReq' = [lReq EXCEPT ![r] = q]
    BY <1>1, <1>4
  <2> HIDE DEF q
  <2>3. ReqSound(q)
    BY <1>1, <1>2, <1>4, <2>1 DEF ReqSound
  <2>4. Settled(lReq', r)
    BY <1>1, <2>1, <2>2, <2>3, Moved
  <2> QED
    BY <1>1, <1>4, <2>4, StepTyped DEF Step, LayeredTyped
<1>5. ASSUME lReq[r].layers # <<>>, StartFill(r), lReq' = [[lReq EXCEPT ![r].at = "layer"] EXCEPT ![r].at = "filling"]
      PROVE  LayeredTyped'
  <2> DEFINE q == [lReq[r] EXCEPT !.at = "filling"]
  <2>1. /\ q \in LReqType /\ q.at = "filling" /\ q.mirror = lReq[r].mirror /\ q.layers = lReq[r].layers
        /\ q.dispatch = lReq[r].dispatch /\ q.attempt = lReq[r].attempt
    BY <1>1 DEF LReqType
  <2>2. lReq' = [lReq EXCEPT ![r] = q]
    BY <1>1, <1>5
  <2> HIDE DEF q
  <2>3. ReqSound(q)
    BY <1>1, <1>2, <1>5, <2>1 DEF ReqSound
  <2>4. ReqsSound(lReq)'
    BY <1>1, <2>1, <2>2, <2>3 DEF LayeredTyped, ReqsSound, ReqSound
  <2>5. r \in Fillers
    BY DEF Fillers
  <2>6. PICK batch \in SUBSET LExits : lFills' = {[by |-> r, batch |-> batch, add |-> {}]}
    BY <1>5, <2>5, StartTyped
  <2>7. lFills = {} /\ lCand' \in Seq(LExits)
    BY <1>5, <2>5, StartTyped
  <2>8. lFills' \subseteq FillType /\ (\E fill \in lFills' : TRUE) /\ \A fill \in lFills' : fill.by = r
    BY <2>5, <2>6 DEF FillType
  <2>9. \A q1 \in LReqs : lReq'[q1].at = "filling" <=> q1 = r
    BY <1>1, <2>1, <2>2, <2>7 DEF LayeredTyped, Waiting, ReqAt
  <2>10. Waiting'
    BY <2>8, <2>9 DEF Waiting, ReqAt
  <2> QED
    BY <1>1, <2>4, <2>7, <2>8, <2>10 DEF LayeredTyped
<1> QED
  BY <1>3, <1>4, <1>5 DEF EnterLayer

\* An attempt in a layer that has some left, and what it may leave behind.
LEMMA SentSettled ==
    ASSUME LayeredTyped, NEW r \in LReqs, ReqAt(r, "layer"), Layer(r) \in LayerNames,
           lReq[r].attempt < Retries[Layer(r)], NEW sent, NEW tried \in SUBSET LExits,
           sent = [lReq EXCEPT ![r].attempt = lReq[r].attempt + 1, ![r].tried = tried]
    PROVE  /\ Settled(sent, r)
           /\ Settled([sent EXCEPT ![r].bad = sent[r].bad \cup {"layer"}], r)
<1> DEFINE p == [lReq[r] EXCEPT !.attempt = lReq[r].attempt + 1, !.tried = tried]
           q == [p EXCEPT !.bad = p.bad \cup {"layer"}]
<1>1. /\ lReq \in [LReqs -> LReqType] /\ lReq[r] \in LReqType /\ ReqSound(lReq[r])
      /\ lReq[r].at = "layer" /\ Settled(lReq, r)
  BY Stays DEF LayeredTyped, ReqsSound, ReqAt
<1>2. /\ lReq[r].attempt + 1 \in Nat /\ Retries[Head(lReq[r].layers)] \in Nat
      /\ lReq[r].attempt + 1 <= Retries[Head(lReq[r].layers)] /\ Head(lReq[r].layers) \in LayerNames
  BY <1>1, LayeredAssumption DEF LReqType, Retries, Layer, LayerNames
<1>3. /\ p \in LReqType /\ p.at = "layer" /\ p.attempt = lReq[r].attempt + 1 /\ p.layers = lReq[r].layers
      /\ p.mirror = lReq[r].mirror /\ p.dispatch = lReq[r].dispatch
  BY <1>1, <1>2 DEF LReqType
<1>4. sent = [lReq EXCEPT ![r] = p]
  BY <1>1
<1> HIDE DEF p
<1>5. ReqSound(p)
  BY <1>1, <1>2, <1>3 DEF ReqSound
<1>6. Settled(sent, r) /\ sent[r] = p /\ sent \in [LReqs -> LReqType]
  BY <1>1, <1>3, <1>4, <1>5, Moved
<1>7. /\ q \in LReqType /\ q.at = "layer" /\ q.attempt = p.attempt /\ q.layers = p.layers
      /\ q.mirror = p.mirror /\ q.dispatch = p.dispatch
  BY <1>3 DEF LReqType
<1> DEFINE spoilt == [sent EXCEPT ![r].bad = sent[r].bad \cup {"layer"}]
<1>8. spoilt = [sent EXCEPT ![r] = q]
  BY <1>6
<1> HIDE DEF q, spoilt
<1>9. ReqSound(q)
  BY <1>3, <1>5, <1>7, SameSound
<1>10. Settled(spoilt, r)
  BY <1>6, <1>7, <1>8, <1>9, Moved
<1> QED
  BY <1>6, <1>10 DEF spoilt

LEMMA PublicSteps == ASSUME LayeredTyped, NEW r \in LReqs, TryPublic(r) PROVE Step(r)
<1>1. /\ ReqAt(r, "layer") /\ Layer(r) = "public" /\ ~ReqAt(r, "filling") /\ lReq \in [LReqs -> LReqType]
      /\ lReq[r] \in LReqType /\ UNCHANGED <<lCfg, lCand, lFills, lOver>>
  BY DEF TryPublic, ReqAt, LayeredTyped, ReqsSound
<1>2. CASE lReq' = Leave(r) /\ UNCHANGED lSlots
  BY <1>1, <1>2, LeaveSettled DEF Step, LayeredTyped
<1>3. ASSUME lReq[r].attempt < SlotRetries, NEW s \in SlotsLeft(r),
             LET sent == [lReq EXCEPT ![r].attempt = lReq[r].attempt + 1, ![r].tried = lReq[r].tried \cup {s}]
             IN  \/ lReq' = Ended(r, sent, "good") /\ UNCHANGED lSlots
                 \/ lReq' \in {sent, [sent EXCEPT ![r].bad = sent[r].bad \cup {"layer"}]} /\ lSlots' = lSlots \ {s}
      PROVE  Step(r)
  <2> DEFINE tried == lReq[r].tried \cup {s}
             sent == [lReq EXCEPT ![r].attempt = lReq[r].attempt + 1, ![r].tried = tried]
             spoilt == [sent EXCEPT ![r].bad = sent[r].bad \cup {"layer"}]
  <2>1. tried \in SUBSET LExits /\ Layer(r) \in LayerNames /\ lReq[r].attempt < Retries[Layer(r)]
    BY <1>1, <1>3 DEF LayeredTyped, SlotsLeft, LReqType, LayerNames, Retries
  <2>2. \/ lReq' = Ended(r, sent, "good") /\ UNCHANGED lSlots
        \/ lReq' = sent /\ lSlots' = lSlots \ {s}
        \/ lReq' = spoilt /\ lSlots' = lSlots \ {s}
    BY <1>3, Zenon
  <2> HIDE DEF tried
  <2>3. Settled(sent, r) /\ Settled(spoilt, r)
    BY <1>1, <2>1, SentSettled
  <2> HIDE DEF sent, spoilt
  <2>4. Settled(lReq', r)
    BY <2>2, <2>3, EndedSettled
  <2>5. lSlots' \subseteq lSlots
    BY <2>2
  <2> QED
    BY <1>1, <2>4, <2>5 DEF Step, LayeredTyped
<1> QED
  BY <1>2, <1>3 DEF TryPublic

LEMMA OtherSteps == ASSUME LayeredTyped, NEW r \in LReqs, TryOther(r) PROVE Step(r)
<1>1. /\ ReqAt(r, "layer") /\ Layer(r) \in {"zen", "custom"} /\ ~ReqAt(r, "filling")
      /\ lReq \in [LReqs -> LReqType] /\ lReq[r] \in LReqType /\ UNCHANGED <<lCfg, lCand, lSlots, lFills, lOver>>
  BY DEF TryOther, ReqAt, LayeredTyped, ReqsSound
<1>2. CASE lReq' = Leave(r)
  BY <1>1, <1>2, LeaveSettled DEF Step, LayeredTyped
<1>3. ASSUME lReq[r].attempt < Retries[Layer(r)],
             LET sent == [lReq EXCEPT ![r].attempt = lReq[r].attempt + 1]
             IN  \/ lReq' = Ended(r, sent, "good")
                 \/ lReq' \in {sent, [sent EXCEPT ![r].bad = sent[r].bad \cup {"layer"}]}
      PROVE  Step(r)
  <2> DEFINE tried == lReq[r].tried
             sent == [lReq EXCEPT ![r].attempt = lReq[r].attempt + 1]
             spoilt == [sent EXCEPT ![r].bad = sent[r].bad \cup {"layer"}]
  <2>1. tried \in SUBSET LExits /\ Layer(r) \in LayerNames
    BY <1>1 DEF LReqType, LayerNames
  <2>2. lReq' = Ended(r, sent, "good") \/ lReq' = sent \/ lReq' = spoilt
    BY <1>3, Zenon
  <2>3. sent = [lReq EXCEPT ![r].attempt = lReq[r].attempt + 1, ![r].tried = tried]
    BY <1>1 DEF LReqType
  <2> HIDE DEF tried, sent
  <2>4. Settled(sent, r) /\ Settled(spoilt, r)
    BY <1>1, <1>3, <2>1, <2>3, SentSettled
  <2> HIDE DEF spoilt
  <2>5. Settled(lReq', r)
    BY <2>2, <2>4, EndedSettled
  <2> QED
    BY <1>1, <2>5 DEF Step, LayeredTyped
<1> QED
  BY <1>1, <1>2, <1>3 DEF TryOther

LEMMA LastSteps == ASSUME LayeredTyped, NEW r \in LReqs, TryLast(r) PROVE Step(r)
<1>1. /\ ReqAt(r, "layer") /\ Layer(r) \in {"direct", "race"} /\ ~ReqAt(r, "filling") /\ Settled(lReq, r)
      /\ lReq \in [LReqs -> LReqType] /\ lReq[r] \in LReqType /\ ReqSound(lReq[r])
      /\ UNCHANGED <<lCfg, lCand, lSlots, lFills, lOver>>
  BY Stays DEF TryLast, ReqAt, LayeredTyped, ReqsSound
<1>2. lReq[r].attempt = 0
  BY <1>1 DEF ReqSound, LReqType, Layer, LayerNames
<1>3. lReq' = Ended(r, lReq, "good") => Settled(lReq', r)
  BY <1>1, EndedSettled
<1>4. ASSUME NEW bad \in {{}, {"mirror"}},
             LET failed == [lReq EXCEPT ![r].at = "enter", ![r].layers = <<>>,
                                        ![r].bad = (lReq[r].bad \cap {"dispatch"}) \cup bad]
             IN  \/ lReq' = failed
                 \/ lReq' \in {Ended(r, AnchorMarked(r, lReq, TRUE), "good"), AnchorMarked(r, failed, FALSE)}
      PROVE  Settled(lReq', r)
  <2> DEFINE none == <<>>
             left == (lReq[r].bad \cap {"dispatch"}) \cup bad
             failed == [lReq EXCEPT ![r].at = "enter", ![r].layers = none, ![r].bad = left]
             q == [lReq[r] EXCEPT !.at = "enter", !.layers = none, !.bad = left]
  <2>1. none \in LRoutes /\ left \in SUBSET {"layer", "mirror", "dispatch"}
    BY DEF LRoutes
  <2>2. \/ lReq' = failed \/ lReq' = Ended(r, AnchorMarked(r, lReq, TRUE), "good")
        \/ lReq' = AnchorMarked(r, failed, FALSE)
    BY <1>4, Zenon
  <2> HIDE DEF none, left
  <2>3. /\ q \in LReqType /\ q.at = "enter" /\ q.attempt = 0
        /\ q.mirror = lReq[r].mirror /\ q.dispatch = lReq[r].dispatch
    BY <1>1, <1>2, <2>1 DEF LReqType
  <2>4. failed = [lReq EXCEPT ![r] = q]
    BY <1>1
  <2> HIDE DEF q, failed
  <2>5. ReqSound(q)
    BY <1>1, <2>3 DEF ReqSound
  <2>6. Settled(failed, r)
    BY <1>1, <2>3, <2>4, <2>5, Moved
  <2> QED
    BY <1>1, <2>2, <2>6, EndedSettled, AnchorSettled
<1>5. Settled(lReq', r)
  BY <1>3, <1>4 DEF TryLast
<1> QED
  BY <1>1, <1>5 DEF Step, LayeredTyped

LEMMA EndSteps == ASSUME LayeredTyped, NEW r \in LReqs, EndDispatch(r) PROVE Step(r)
<1> DEFINE rest == IF "dispatch" \in lReq[r].bad THEN "bad" ELSE "error"
           given == Ended(r, lReq, rest)
<1>1. ~ReqAt(r, "filling") /\ Settled(lReq, r) /\ UNCHANGED <<lCfg, lCand, lSlots, lFills, lOver>>
  BY Stays DEF EndDispatch, ReqAt
<1>2. \/ lReq' = given \/ lReq' = Ended(r, AnchorMarked(r, lReq, TRUE), "good")
      \/ lReq' = AnchorMarked(r, given, FALSE)
  BY DEF EndDispatch
<1>3. Settled(given, r)
  BY <1>1, EndedSettled
<1> HIDE DEF given
<1>4. Settled(lReq', r)
  BY <1>1, <1>2, <1>3, EndedSettled, AnchorSettled
<1> QED
  BY <1>1, <1>4 DEF Step, LayeredTyped

LEMMA LayeredTypedNext == LayeredTyped /\ FillsSound /\ [LayeredNext]_layeredVars => LayeredTyped'
<1> SUFFICES ASSUME LayeredTyped, FillsSound, [LayeredNext]_layeredVars PROVE LayeredTyped'
  OBVIOUS
<1>1. CASE Refresh
  BY <1>1, LayeredAssumption DEF Refresh, LayeredTyped, ReqsSound, ReqSound, Waiting, ReqAt
<1>2. CASE Refill("refill") \/ Refill("refresh")
  BY <1>2, RefillTyped
<1>3. ASSUME NEW fill \in lFills, EndFill(fill) \/ AddSlot(fill) \/ \E a \in LExits : ProbeEnds(fill, a)
      PROVE  LayeredTyped'
  BY <1>3, EndFillTyped, AddTyped, ProbeTyped
<1>4. ASSUME NEW r \in LReqs,
             Dispatch(r) \/ NextMirror(r) \/ TryPublic(r) \/ TryOther(r) \/ TryLast(r) \/ EndDispatch(r)
      PROVE  LayeredTyped'
  <2>1. Step(r)
    BY <1>4, DispatchSteps, MirrorSteps, PublicSteps, OtherSteps, LastSteps, EndSteps
  <2> QED
    BY <2>1, StepTyped
<1>5. ASSUME NEW r \in LReqs, EnterLayer(r) PROVE LayeredTyped'
  BY <1>5, EnterTyped
<1>6. ASSUME NEW r \in LReqs, OutOfTime(r) PROVE LayeredTyped'
  <2>1. ~ReqAt(r, "filling") /\ Settled(lReq, r) /\ UNCHANGED <<lCfg, lCand, lSlots, lFills, lOver>>
    BY <1>6, Stays DEF OutOfTime, ReqAt
  <2>2. Settled(lReq', r)
    BY <1>6, <2>1, EndedSettled DEF OutOfTime
  <2> QED
    BY <2>1, <2>2, StepTyped DEF Step, LayeredTyped
<1>7. ASSUME NEW r \in LReqs, TimeIsUp(r) PROVE LayeredTyped'
  BY <1>7 DEF TimeIsUp, LayeredTyped, ReqsSound, ReqSound, Waiting, ReqAt
<1>8. ASSUME NEW r \in LReqs, LeaveDispatch(r) PROVE LayeredTyped'
  <2>1. ~ReqAt(r, "filling") /\ Settled(lReq, r) /\ UNCHANGED <<lCfg, lCand, lSlots, lFills>> /\ lOver' \subseteq LReqs
    BY <1>8, Stays DEF LeaveDispatch, ReqAt, LayeredTyped
  <2>2. NewLReq \in LReqType /\ ReqSound(NewLReq) /\ NewLReq.at = "idle" /\ lReq' = [lReq EXCEPT ![r] = NewLReq]
    BY <1>8, NewReqSound DEF LeaveDispatch, LayeredTyped
  <2>3. Settled(lReq', r)
    BY <2>1, <2>2, Moved
  <2> QED
    BY <2>1, <2>3, StepTyped DEF Step, LayeredTyped
<1>9. CASE UNCHANGED layeredVars
  BY <1>9 DEF layeredVars, LayeredTyped, ReqsSound, ReqSound, Waiting, ReqAt
<1> QED
  BY <1>1, <1>2, <1>3, <1>4, <1>5, <1>6, <1>7, <1>8, <1>9 DEF LayeredNext

LEMMA LayeredTypedTypeOK == LayeredTyped => LayeredTypeOK
<1> SUFFICES ASSUME LayeredTyped PROVE LayeredTypeOK
  OBVIOUS
<1>1. \A fill \in lFills : fill \in FillType
  BY DEF LayeredTyped
<1>2. ASSUME NEW r \in LReqs
      PROVE  /\ lReq[r].mirror <= lCfg.mirrors /\ lReq[r].dispatch <= MaxDispatches
             /\ lReq[r].attempt > 0 =>
                   ReqAt(r, "layer") /\ Layer(r) \in LayerNames /\ lReq[r].attempt <= Retries[Layer(r)]
             /\ ReqAt(r, "filling") <=> \E fill \in lFills : fill.by = r
  <2>1. ReqSound(lReq[r])
    BY DEF LayeredTyped, ReqsSound
  <2>2. ReqAt(r, "filling") <=> \E fill \in lFills : fill.by = r
    BY DEF LayeredTyped, Waiting
  <2> QED
    BY <2>1, <2>2, Zenon DEF ReqSound, Layer, ReqAt
<1> QED
  BY <1>1, <1>2, Zenon DEF LayeredTyped, LayeredTypeOK, FillType, ReqsSound

-----------------------------------------------------------------------------
(* IpReputation: what is in the queue or with a worker is pending, and what *)
(* is pending is not put into the queue.                                    *)

Busy(w) == ~WorkAt(w, "rest")

WorkShape == DOMAIN iWork = RepWorkers /\ \A w \in RepWorkers : {"at", "addr"} \subseteq DOMAIN iWork[w]

EachPending ==
    /\ iQueue \in Seq(RepAddrs)
    /\ \A i \in 1 .. Len(iQueue) : iQueue[i] \in iPending
    /\ \A w \in RepWorkers : Busy(w) => iWork[w].addr \in iPending

\* ExitCheckedOnce, in terms of places in the queue.
OnePlace ==
    /\ \A i, j \in 1 .. Len(iQueue) : iQueue[i] = iQueue[j] => i = j
    /\ \A w \in RepWorkers, i \in 1 .. Len(iQueue) : Busy(w) => iQueue[i] # iWork[w].addr
    /\ \A v, w \in RepWorkers : Busy(v) /\ Busy(w) /\ v # w => iWork[v].addr # iWork[w].addr

RepInv == WorkShape /\ EachPending /\ OnePlace

LEMMA RepInitInv == RepInit => RepInv
<1> SUFFICES ASSUME RepInit PROVE RepInv
  OBVIOUS
<1>1. WorkShape /\ \A w \in RepWorkers : ~Busy(w)
  BY DEF RepInit, WorkShape, Busy, WorkAt, Resting
<1>2. iQueue = <<>> /\ iQueue \in Seq(RepAddrs) /\ Len(iQueue) = 0
  BY DEF RepInit
<1> QED
  BY <1>1, <1>2 DEF RepInv, EachPending, OnePlace

\* A worker goes on with its exit, and nothing else of what the invariant is
\* about changes.
GoesOn ==
    /\ UNCHANGED <<iQueue, iPending>> /\ WorkShape'
    /\ \A w \in RepWorkers : iWork'[w].addr = iWork[w].addr /\ (Busy(w)' => Busy(w))

LEMMA OnwardInv == RepInv /\ GoesOn => RepInv'
BY DEF RepInv, GoesOn, EachPending, OnePlace

LEMMA RestInv ==
    ASSUME RepInv, NEW w \in RepWorkers, Busy(w), RepRest(w), UNCHANGED iQueue
    PROVE  RepInv'
<1>1. /\ WorkShape' /\ ~Busy(w)'
      /\ \A v \in RepWorkers \ {w} : iWork'[v] = iWork[v] /\ (Busy(v)' <=> Busy(v))
  BY DEF RepInv, RepRest, WorkShape, Busy, WorkAt, Resting
<1>2. EachPending'
  BY <1>1 DEF RepInv, RepRest, EachPending, OnePlace
<1>3. OnePlace'
  BY <1>1 DEF RepInv, OnePlace
<1> QED
  BY <1>1, <1>2, <1>3 DEF RepInv

LEMMA RequestInv == ASSUME RepInv, NEW a \in RepAddrs, RequestCheck(a) PROVE RepInv'
<1>1. \A v \in RepWorkers : Busy(v)' <=> Busy(v)
  BY DEF RequestCheck, Busy, WorkAt
<1>2. /\ iQueue' = Append(iQueue, a) /\ iPending' = iPending \cup {a} /\ a \notin iPending
      /\ iWork' = iWork
  BY DEF RequestCheck
<1>3. /\ Len(iQueue') = Len(iQueue) + 1 /\ iQueue'[Len(iQueue) + 1] = a
      /\ \A i \in 1 .. Len(iQueue) : iQueue'[i] = iQueue[i]
      /\ iQueue' \in Seq(RepAddrs) /\ Len(iQueue) \in Nat
  BY <1>2 DEF RepInv, EachPending
<1> QED
  BY <1>1, <1>2, <1>3 DEF RepInv, WorkShape, EachPending, OnePlace

LEMMA TakeInv == ASSUME RepInv, NEW w \in RepWorkers, TakeExit(w) PROVE RepInv'
<1>1. /\ iQueue # <<>> /\ iQueue' = Tail(iQueue) /\ iPending' = iPending
      /\ WorkShape' /\ iWork'[w].addr = Head(iQueue)
      /\ \A v \in RepWorkers \ {w} : iWork'[v] = iWork[v] /\ (Busy(v)' <=> Busy(v))
  BY DEF TakeExit, RepInv, WorkShape, Busy, WorkAt, Resting
<1>2. /\ iQueue' \in Seq(RepAddrs) /\ Len(iQueue') = Len(iQueue) - 1 /\ Len(iQueue) \in Nat \ {0}
      /\ Head(iQueue) = iQueue[1]
      /\ \A i \in 1 .. Len(iQueue') : iQueue'[i] = iQueue[i + 1]
  BY <1>1 DEF RepInv, EachPending
<1>3. EachPending'
  BY <1>1, <1>2 DEF RepInv, EachPending
<1>4. OnePlace'
  BY <1>1, <1>2 DEF RepInv, OnePlace
<1> QED
  BY <1>1, <1>3, <1>4 DEF RepInv

LEMMA StepInv == ASSUME RepInv, NEW w \in RepWorkers, RepStep(w) PROVE RepInv'
<1> USE DEF Busy, WorkAt
<1>0. WorkShape
  BY DEF RepInv
<1>1. CASE TakeExit(w)
  BY <1>1, TakeInv
<1>2. CASE LookUpIp(w)
  <2>1. CASE RepRest(w)
    BY <1>2, <2>1, RestInv DEF LookUpIp
  <2>2. ASSUME NEW ip, iWork' = [iWork EXCEPT ![w].at = "blackbox", ![w].ip = ip], UNCHANGED <<iQueue, iPending>>
        PROVE  RepInv'
    BY <1>0, <1>2, <2>2, OnwardInv DEF LookUpIp, GoesOn, WorkShape
  <2> QED
    BY <1>2, <2>1, <2>2 DEF LookUpIp
<1>3. CASE AskBlackbox(w)
  <2>1. UNCHANGED <<iQueue, iPending>>
    BY <1>3 DEF AskBlackbox
  <2>2. iWork[w].at = "blackbox" /\ After("blackbox") = "ipapi"
    BY <1>3 DEF AskBlackbox, After
  <2>3. CASE iWork' = [iWork EXCEPT ![w].at = "ipapi"]
    BY <1>0, <2>1, <2>2, <2>3, OnwardInv DEF GoesOn, WorkShape
  <2>4. CASE \E score : Score(w, score, FALSE)
    <3>1. PICK score : Score(w, score, FALSE)
      BY <2>4
    <3>2. \E country : iWork' = [iWork EXCEPT ![w].at = "ipapi", ![w].score = score, ![w].country = country]
      BY <2>2, <3>1 DEF Score
    <3> QED
      BY <1>0, <2>1, <2>2, <3>2, OnwardInv DEF GoesOn, WorkShape
  <2> QED
    BY <1>3, <2>3, <2>4, Zenon DEF AskBlackbox, Goes
<1>4. CASE AskIpapi(w)
  BY <1>0, <1>4, OnwardInv DEF AskIpapi, Goes, Score, After, GoesOn, WorkShape
<1>5. CASE PaceGeo(w)
  BY <1>0, <1>5, OnwardInv DEF PaceGeo, GoesOn, WorkShape
<1>6. CASE AskGeo(w)
  BY <1>0, <1>6, OnwardInv DEF AskGeo, Goes, GoesOn, WorkShape
<1>7. CASE AskIprisk(w)
  BY <1>0, <1>7, OnwardInv DEF AskIprisk, Goes, Score, After, GoesOn, WorkShape
<1>8. CASE StoreResult(w)
  BY <1>8, RestInv DEF StoreResult
<1>9. ASSUME NEW s \in Sources, PassSource(w, s) PROVE RepInv'
  BY <1>0, <1>9, OnwardInv DEF PassSource, Goes, Sources, GoesOn, WorkShape
<1> QED
  BY <1>1, <1>2, <1>3, <1>4, <1>5, <1>6, <1>7, <1>8, <1>9 DEF RepStep

LEMMA RepNextInv == RepInv /\ [RepNext]_repVars => RepInv'
<1> SUFFICES ASSUME RepInv, [RepNext]_repVars PROVE RepInv'
  OBVIOUS
<1>1. CASE RepTick
  BY <1>1, OnwardInv DEF RepTick, RepInv, GoesOn, WorkShape, Busy, WorkAt
<1>2. ASSUME NEW a \in RepAddrs, RequestCheck(a) PROVE RepInv'
  BY <1>2, RequestInv
<1>3. ASSUME NEW w \in RepWorkers, RepStep(w) PROVE RepInv'
  BY <1>3, StepInv
<1>4. ASSUME NEW ip, ResultAges(ip) PROVE RepInv'
  BY <1>4, OnwardInv DEF ResultAges, RepInv, GoesOn, WorkShape, Busy, WorkAt
<1>5. CASE UNCHANGED repVars
  BY <1>5, OnwardInv DEF repVars, RepInv, GoesOn, WorkShape, Busy, WorkAt
<1> QED
  BY <1>1, <1>2, <1>3, <1>4, <1>5 DEF RepNext

\* Request and process: whoever asks for the check of an exit and however many
\* workers there are, the exit is checked by one at a time.
THEOREM OneCheckAtATime == RepSpec => []ExitCheckedOnce
<1>1. RepInv => ExitCheckedOnce
  <2> SUFFICES ASSUME RepInv PROVE ExitCheckedOnce
    OBVIOUS
  <2>1. DOMAIN iQueue = 1 .. Len(iQueue)
    BY DEF RepInv, EachPending
  <2>2. IsInjective(iQueue)
    BY <2>1 DEF RepInv, OnePlace, IsInjective
  <2>3. ASSUME NEW w \in RepWorkers, Busy(w) PROVE ~Contains(iQueue, iWork[w].addr)
    BY <2>3 DEF RepInv, OnePlace, Contains
  <2>4. ASSUME NEW v \in RepWorkers, NEW w \in RepWorkers, v # w, Busy(v), Busy(w) PROVE iWork[v].addr # iWork[w].addr
    BY <2>4 DEF RepInv, OnePlace
  <2> QED
    BY <2>2, <2>3, <2>4 DEF ExitCheckedOnce, Busy
<1> QED
  BY RepInitInv, RepNextInv, <1>1, PTL DEF RepSpec

-----------------------------------------------------------------------------
(* IpReputation, types: a score stays on its scale, the cache is emptied    *)
(* before it outgrows its limit, and a worker that asks knows the IP.       *)

CacheSound ==
    /\ DOMAIN iCache \subseteq RepIps \ {NoIp} /\ IsFiniteSet(DOMAIN iCache) /\ Cardinality(DOMAIN iCache) <= CacheMax
    /\ \A ip \in DOMAIN iCache : iCache[ip] \in 0 .. 100

SourceType == [fails : 0 .. (SourceFails - 1), off : 0 .. QuotaOff]

\* A worker that does not rest has an exit, and its IP once it was looked up.
Placed(v) ==
    /\ v.at # "rest" => v.addr \in RepAddrs
    /\ v.at \notin {"rest", "look"} => v.ip \in RepIps \ {NoIp}

WorkSound == iWork \in [RepWorkers -> RepWorkType] /\ \A w \in RepWorkers : Placed(iWork[w])

Asking(w) == iWork[w].at \in {"pace"} \cup Sources

RepTyped ==
    /\ iQueue \in Seq(RepAddrs) /\ Len(iQueue) <= RepQueueCap /\ iPending \subseteq RepAddrs
    /\ CacheSound /\ iSource \in [Sources -> SourceType] /\ iGeoNext \in 0 .. GeoGap /\ WorkSound

LEMMA RestingTyped == Resting \in RepWorkType /\ Resting.at = "rest"
BY RepAssumption DEF Resting, RepWorkType, Unknown

LEMMA RepTypedInit == RepInit => RepTyped
<1> SUFFICES ASSUME RepInit PROVE RepTyped
  OBVIOUS
<1>1. iQueue = <<>> /\ iPending = {} /\ iCache = <<>> /\ iGeoNext = 0
  BY DEF RepInit
<1>2. iQueue \in Seq(RepAddrs) /\ Len(iQueue) <= RepQueueCap
  BY <1>1, RepAssumption
<1>3. DOMAIN iCache = {}
  BY <1>1
<1>4. CacheSound
  BY <1>3, FS_EmptySet, RepAssumption DEF CacheSound
<1>5. iSource \in [Sources -> SourceType]
  BY RepAssumption DEF RepInit, SourceType
<1>6. WorkSound
  BY RestingTyped DEF RepInit, WorkSound, Placed
<1> QED
  BY <1>1, <1>2, <1>4, <1>5, <1>6, RepAssumption DEF RepTyped

\* A worker that moves keeps the others sound.
LEMMA WorkerMoves ==
    ASSUME WorkSound, NEW w \in RepWorkers, NEW v \in RepWorkType, Placed(v), iWork' = [iWork EXCEPT ![w] = v]
    PROVE  WorkSound'
BY DEF WorkSound, Placed

\* It goes to another place with its exit.
LEMMA WorkerGoes ==
    ASSUME WorkSound, NEW w \in RepWorkers, Asking(w), NEW place \in {"pace", "store"} \cup Sources,
           Goes(w, place)
    PROVE  WorkSound'
<1> DEFINE v == [iWork[w] EXCEPT !.at = place]
<1>1. /\ iWork \in [RepWorkers -> RepWorkType] /\ iWork[w] \in RepWorkType
      /\ iWork[w].addr \in RepAddrs /\ iWork[w].ip \in RepIps \ {NoIp}
  BY DEF WorkSound, Placed, Asking, Sources
<1>2. v \in RepWorkType /\ v.addr = iWork[w].addr /\ v.ip = iWork[w].ip
  BY <1>1 DEF RepWorkType
<1>3. iWork' = [iWork EXCEPT ![w] = v]
  BY <1>1 DEF Goes
<1> HIDE DEF v
<1> QED
  BY <1>1, <1>2, <1>3, WorkerMoves DEF Placed

LEMMA WorkerScores ==
    ASSUME WorkSound, NEW w \in RepWorkers, Asking(w), NEW score \in 0 .. 100, NEW country \in BOOLEAN,
           After(iWork[w].at) \in {"pace", "store"} \cup Sources, Score(w, score, country)
    PROVE  WorkSound'
<1> DEFINE known == iWork[w].country \/ country
           place == After(iWork[w].at)
           v == [iWork[w] EXCEPT !.at = place, !.score = score, !.country = known]
<1>1. /\ iWork \in [RepWorkers -> RepWorkType] /\ iWork[w] \in RepWorkType
      /\ iWork[w].addr \in RepAddrs /\ iWork[w].ip \in RepIps \ {NoIp}
  BY DEF WorkSound, Placed, Asking, Sources
<1>2. known \in BOOLEAN /\ place \in {"pace", "store"} \cup Sources /\ score \in Unknown .. 100
  BY DEF Unknown
<1>3. iWork' = [iWork EXCEPT ![w].at = place, ![w].score = score, ![w].country = known]
  BY <1>1 DEF Score
<1> HIDE DEF known, place
<1>4. v \in RepWorkType /\ v.addr = iWork[w].addr /\ v.ip = iWork[w].ip
  BY <1>1, <1>2 DEF RepWorkType
<1>5. iWork' = [iWork EXCEPT ![w] = v]
  BY <1>1, <1>3
<1> HIDE DEF v
<1> QED
  BY <1>1, <1>4, <1>5, WorkerMoves DEF Placed

LEMMA AllPlaces ==
    /\ After("blackbox") = "ipapi" /\ After("ipapi") = "geo" /\ After("geo") = "iprisk" /\ After("iprisk") = "store"
    /\ \A s \in Sources : s # "rest" /\ After(s) \in {"pace", "store"} \cup Sources
BY DEF After, Sources

\* Whatever is found, no more is taken off than the limit.
LEMMA Penalties ==
    ASSUME NEW found
    PROVE  AtMost(90, BlackboxPenalty(found)) \in 0 .. 90 /\ AtMost(45, SecondPenalty(found)) \in 0 .. 45
<1>1. /\ IsFiniteSet({"hosting", "suspicious", "vpnLikely"}) /\ IsFiniteSet({"sfs", "vpn"})
      /\ IsFiniteSet({"proxy", "spamhaus"}) /\ IsFiniteSet({"tor", "bogon"})
      /\ IsFiniteSet({"abuser"}) /\ IsFiniteSet({"tor"}) /\ IsFiniteSet({"proxy", "vpn"})
  <2>1. \A a : IsFiniteSet({a})
    BY FS_Singleton
  <2>2. \A S, x : IsFiniteSet(S) => IsFiniteSet(S \cup {x})
    BY FS_AddElement
  <2>3. ASSUME NEW a, NEW b, NEW c PROVE {a, b} = {a} \cup {b} /\ {a, b, c} = {a, b} \cup {c}
    OBVIOUS
  <2>4. ASSUME NEW a, NEW b, NEW c PROVE IsFiniteSet({a, b}) /\ IsFiniteSet({a, b, c})
    <3>1. IsFiniteSet({a} \cup {b})
      BY <2>1, <2>2, Zenon
    <3>2. IsFiniteSet({a, b})
      BY <2>3, <3>1
    <3>3. IsFiniteSet({a, b} \cup {c})
      BY <2>2, <3>2, Zenon
    <3> QED
      BY <2>3, <3>2, <3>3
  <2> QED
    BY <2>1, <2>4, Zenon
<1>2. \A S : IsFiniteSet(S) => Cardinality(found \cap S) \in Nat
  BY FS_Intersection, FS_CardinalityType
<1>3. BlackboxPenalty(found) \in Nat /\ SecondPenalty(found) \in Nat
  BY <1>1, <1>2 DEF BlackboxPenalty, SecondPenalty
<1> QED
  BY <1>3 DEF AtMost

LEMMA FailureTyped ==
    ASSUME NEW src \in SourceType
    PROVE  AfterFailure(src) \in SourceType /\ AfterFailure([src EXCEPT !.off = QuotaOff]) \in SourceType
<1>1. /\ SourceFails \in Nat \ {0} /\ SourceOff \in Nat /\ QuotaOff \in Nat /\ SourceOff < QuotaOff
  BY RepAssumption
<1>2. ASSUME NEW s \in SourceType PROVE AfterFailure(s) \in SourceType
  BY <1>1, <1>2 DEF AfterFailure, SourceType
<1>3. [src EXCEPT !.off = QuotaOff] \in SourceType
  BY <1>1 DEF SourceType
<1> QED
  BY <1>2, <1>3

LEMMA NotesTyped ==
    ASSUME iSource \in [Sources -> SourceType], NEW s \in Sources, NoteOk(s) \/ NoteFailed(s) \/ UNCHANGED iSource
    PROVE  iSource' \in [Sources -> SourceType]
<1>1. CASE NoteOk(s)
  <2>1. [iSource[s] EXCEPT !.fails = 0] \in SourceType
    BY RepAssumption DEF SourceType
  <2>2. iSource' = [iSource EXCEPT ![s] = [iSource[s] EXCEPT !.fails = 0]]
    BY <1>1 DEF NoteOk
  <2> QED
    BY <2>1, <2>2
<1>2. CASE NoteFailed(s)
  <2>1. iSource' = [iSource EXCEPT ![s] = AfterFailure(iSource[s])]
    BY <1>2 DEF NoteFailed
  <2> QED
    BY <2>1, FailureTyped
<1> QED
  BY <1>1, <1>2

LEMMA RestTyped ==
    ASSUME RepTyped, NEW w \in RepWorkers, RepRest(w) PROVE WorkSound' /\ iPending' \subseteq RepAddrs
BY WorkerMoves, RestingTyped DEF RepTyped, RepRest, Placed

LEMMA TakeTyped == ASSUME RepTyped, NEW w \in RepWorkers, TakeExit(w) PROVE RepTyped'
<1> DEFINE v == [Resting EXCEPT !.at = "look", !.addr = Head(iQueue)]
<1>1. /\ Head(iQueue) \in RepAddrs /\ iQueue' \in Seq(RepAddrs) /\ Len(iQueue') <= RepQueueCap
  BY RepAssumption DEF TakeExit, RepTyped
<1>2. v \in RepWorkType /\ v.addr = Head(iQueue) /\ v.at = "look"
  BY <1>1, RestingTyped DEF RepWorkType
<1>3. iWork' = [iWork EXCEPT ![w] = v] /\ UNCHANGED <<iPending, iCache, iSource, iGeoNext>>
  BY DEF TakeExit
<1> HIDE DEF v
<1>4. WorkSound'
  BY <1>1, <1>2, <1>3, WorkerMoves DEF RepTyped, Placed
<1> QED
  BY <1>1, <1>3, <1>4 DEF RepTyped, CacheSound

LEMMA LookUpTyped == ASSUME RepTyped, NEW w \in RepWorkers, LookUpIp(w) PROVE RepTyped'
<1>1. /\ WorkAt(w, "look") /\ ~WorkAt(w, "rest") /\ UNCHANGED <<iQueue, iCache, iSource, iGeoNext>>
      /\ iWork \in [RepWorkers -> RepWorkType] /\ iWork[w] \in RepWorkType /\ iWork[w].addr \in RepAddrs
  BY DEF LookUpIp, WorkAt, RepTyped, WorkSound, Placed
<1>2. PICK ip \in {IpOf[iWork[w].addr], NoIp} :
          IF ip = NoIp \/ ip \in DOMAIN iCache THEN RepRest(w)
          ELSE iWork' = [iWork EXCEPT ![w].at = "blackbox", ![w].ip = ip] /\ UNCHANGED iPending
  BY DEF LookUpIp
<1>3. CASE RepRest(w)
  BY <1>1, <1>3, RestTyped DEF RepTyped, CacheSound
<1>4. CASE /\ ip # NoIp /\ iWork' = [iWork EXCEPT ![w].at = "blackbox", ![w].ip = ip]
           /\ UNCHANGED iPending
  <2> DEFINE v == [iWork[w] EXCEPT !.at = "blackbox", !.ip = ip]
  <2>1. ip \in RepIps \ {NoIp}
    BY <1>1, <1>4 DEF RepIps
  <2>2. v \in RepWorkType /\ v.addr = iWork[w].addr /\ v.ip = ip
    BY <1>1, <2>1 DEF RepWorkType, Sources
  <2>3. iWork' = [iWork EXCEPT ![w] = v]
    BY <1>1, <1>4
  <2> HIDE DEF v
  <2>4. WorkSound'
    BY <1>1, <2>1, <2>2, <2>3, WorkerMoves DEF RepTyped, Placed
  <2> QED
    BY <1>1, <1>4, <2>4 DEF RepTyped, CacheSound
<1> QED
  BY <1>2, <1>3, <1>4

\* A worker asks a source, and keeps what it finds.
Asks(w) ==
    /\ WorkSound' /\ iSource' \in [Sources -> SourceType] /\ iGeoNext' \in 0 .. GeoGap
    /\ UNCHANGED <<iQueue, iPending, iCache>>

LEMMA AsksTyped == ASSUME RepTyped, NEW w \in RepWorkers, Asks(w) PROVE RepTyped'
BY DEF RepTyped, Asks, CacheSound

LEMMA BlackboxAsks == ASSUME RepTyped, NEW w \in RepWorkers, AskBlackbox(w) PROVE Asks(w)
<1>1. iWork[w].at = "blackbox" /\ Asking(w) /\ WorkSound /\ "blackbox" \in Sources /\ "ipapi" \in Sources
  BY DEF AskBlackbox, WorkAt, RepTyped, Sources, Asking
<1>2. NoteOk("blackbox") \/ NoteFailed("blackbox")
  BY DEF AskBlackbox
<1>3. iSource' \in [Sources -> SourceType]
  BY <1>1, <1>2, NotesTyped DEF RepTyped
<1>4. ASSUME NEW signals, Score(w, 100 - AtMost(90, BlackboxPenalty(signals)), FALSE) PROVE WorkSound'
  <2> DEFINE score == 100 - AtMost(90, BlackboxPenalty(signals))
  <2>1. score \in 0 .. 100
    BY Penalties
  <2> HIDE DEF score
  <2>2. Score(w, score, FALSE)
    BY <1>4 DEF score
  <2>3. After(iWork[w].at) \in {"pace", "store"} \cup Sources
    BY <1>1, AllPlaces
  <2> QED
    BY <1>1, <2>1, <2>2, <2>3, WorkerScores
<1>5. WorkSound'
  <2>1. Goes(w, "ipapi") \/ \E signals \in Reports : Score(w, 100 - AtMost(90, BlackboxPenalty(signals)), FALSE)
    BY DEF AskBlackbox
  <2> QED
    BY <1>1, <1>4, <2>1, WorkerGoes
<1> QED
  BY <1>3, <1>5 DEF Asks, AskBlackbox, RepTyped

LEMMA IpapiAsks == ASSUME RepTyped, NEW w \in RepWorkers, AskIpapi(w) PROVE Asks(w)
<1>1. /\ iWork[w].at = "ipapi" /\ Asking(w) /\ WorkSound /\ "ipapi" \in Sources /\ "geo" \in Sources
      /\ iSource \in [Sources -> SourceType]
  BY DEF AskIpapi, WorkAt, RepTyped, Sources, Asking
<1>2. iSource' \in [Sources -> SourceType]
  <2>1. CASE NoteOk("ipapi") \/ NoteFailed("ipapi")
    BY <1>1, <2>1, NotesTyped
  <2>2. CASE iSource' = [iSource EXCEPT !["ipapi"] = AfterFailure([iSource["ipapi"] EXCEPT !.off = QuotaOff])]
    BY <1>1, <2>2, FailureTyped
  <2> QED
    BY <2>1, <2>2 DEF AskIpapi
<1>3. ASSUME NEW signals, NEW country \in BOOLEAN,
             LET base == IF iWork[w].score = Unknown THEN 100 ELSE iWork[w].score
                 left == base - AtMost(45, SecondPenalty(signals))
             IN  Score(w, IF left < 0 THEN 0 ELSE left, country)
      PROVE  WorkSound'
  <2> DEFINE base == IF iWork[w].score = Unknown THEN 100 ELSE iWork[w].score
             left == base - AtMost(45, SecondPenalty(signals))
             score == IF left < 0 THEN 0 ELSE left
  <2>1. iWork[w] \in RepWorkType
    BY <1>1 DEF WorkSound
  <2>2. base \in 0 .. 100
    <3>1. iWork[w].score \in Unknown .. 100
      BY <2>1 DEF RepWorkType
    <3> QED
      BY <3>1 DEF Unknown
  <2> HIDE DEF base
  <2>3. score \in 0 .. 100
    BY <2>2, Penalties
  <2>4. Score(w, score, country)
    BY <1>3 DEF base
  <2> HIDE DEF score
  <2>5. After(iWork[w].at) \in {"pace", "store"} \cup Sources
    BY <1>1, AllPlaces
  <2> QED
    BY <1>1, <2>3, <2>4, <2>5, WorkerScores
<1>4. WorkSound'
  BY <1>1, <1>3, WorkerGoes DEF AskIpapi
<1> QED
  BY <1>2, <1>4 DEF Asks, AskIpapi, RepTyped

LEMMA GeoAsks == ASSUME RepTyped, NEW w \in RepWorkers, PaceGeo(w) \/ AskGeo(w) PROVE Asks(w)
<1>1. WorkSound /\ "geo" \in Sources /\ "iprisk" \in Sources
  BY DEF RepTyped, Sources
<1>2. CASE PaceGeo(w)
  <2> DEFINE v == [iWork[w] EXCEPT !.at = "pace", !.wait = iGeoNext]
  <2>1. /\ iWork[w].at = "geo" /\ iWork[w] \in RepWorkType /\ iWork[w].addr \in RepAddrs
        /\ iWork[w].ip \in RepIps \ {NoIp} /\ iWork \in [RepWorkers -> RepWorkType]
    BY <1>1, <1>2 DEF PaceGeo, WorkAt, WorkSound, Placed
  <2>2. v \in RepWorkType /\ v.addr = iWork[w].addr /\ v.ip = iWork[w].ip
    BY <2>1 DEF RepWorkType, RepTyped
  <2>3. iWork' = [iWork EXCEPT ![w] = v]
    BY <1>2, <2>1 DEF PaceGeo
  <2> HIDE DEF v
  <2>4. WorkSound'
    BY <1>1, <2>1, <2>2, <2>3, WorkerMoves DEF Placed
  <2> QED
    BY <1>2, <2>4, RepAssumption DEF Asks, PaceGeo, RepTyped
<1>3. CASE AskGeo(w)
  <2>1. Asking(w) /\ Goes(w, "iprisk") /\ (NoteOk("geo") \/ NoteFailed("geo"))
    BY <1>3 DEF AskGeo, WorkAt, Asking
  <2> QED
    BY <1>1, <1>3, <2>1, WorkerGoes, NotesTyped DEF Asks, AskGeo, RepTyped
<1> QED
  BY <1>2, <1>3

LEMMA IpriskAsks == ASSUME RepTyped, NEW w \in RepWorkers, AskIprisk(w) PROVE Asks(w)
<1>1. iWork[w].at = "iprisk" /\ Asking(w) /\ WorkSound /\ "iprisk" \in Sources
  BY DEF AskIprisk, WorkAt, RepTyped, Sources, Asking
<1>2. NoteOk("iprisk") \/ NoteFailed("iprisk") \/ UNCHANGED iSource
  BY DEF AskIprisk
<1>3. iSource' \in [Sources -> SourceType]
  BY <1>1, <1>2, NotesTyped DEF RepTyped
<1>4. ASSUME NEW page \in {0, 100},
             Score(w, IF iWork[w].score = Unknown THEN page ELSE (iWork[w].score + page) \div 2, FALSE)
      PROVE  WorkSound'
  <2> DEFINE score == IF iWork[w].score = Unknown THEN page ELSE (iWork[w].score + page) \div 2
  <2>1. iWork[w].score \in Unknown .. 100
    BY <1>1 DEF WorkSound, RepWorkType
  <2>2. \A n \in 0 .. 100 : (n + 0) \div 2 \in 0 .. 100 /\ (n + 100) \div 2 \in 0 .. 100
    OBVIOUS
  <2>3. score \in 0 .. 100
    BY <2>1, <2>2 DEF Unknown
  <2> HIDE DEF score
  <2>4. Score(w, score, FALSE)
    BY <1>4 DEF score
  <2>5. After(iWork[w].at) \in {"pace", "store"} \cup Sources
    BY <1>1, AllPlaces
  <2> QED
    BY <1>1, <2>3, <2>4, <2>5, WorkerScores
<1>5. WorkSound'
  BY <1>1, <1>4, WorkerGoes DEF AskIprisk
<1> QED
  BY <1>3, <1>5 DEF Asks, AskIprisk, RepTyped

\* The cache is emptied before it is larger than its limit.
LEMMA StoreTyped == ASSUME RepTyped, NEW w \in RepWorkers, StoreResult(w) PROVE RepTyped'
<1> DEFINE ips == DOMAIN iCache \cup {iWork[w].ip}
           kept == [ip \in ips |-> IF ip = iWork[w].ip THEN iWork[w].score ELSE iCache[ip]]
<1>1. WorkSound' /\ iPending' \subseteq RepAddrs /\ UNCHANGED <<iQueue, iSource, iGeoNext>>
  BY RestTyped DEF StoreResult
<1>2. CacheSound'
  <2>1. CacheSound /\ iWork[w].score \in Unknown .. 100 /\ iWork[w].ip \in RepIps \ {NoIp}
    <3>1. iWork[w] \in RepWorkType /\ Placed(iWork[w]) /\ iWork[w].at = "store"
      BY DEF RepTyped, WorkSound, StoreResult, WorkAt
    <3> QED
      BY <3>1 DEF Placed, RepWorkType, RepTyped
  <2>2. IsFiniteSet(ips) /\ Cardinality(ips) \in Nat
    BY <2>1, FS_AddElement, FS_CardinalityType DEF CacheSound
  <2>3. CASE iCache' = iCache
    BY <2>1, <2>3 DEF CacheSound
  <2>4. CASE iCache' = <<>>
    <3>1. DOMAIN iCache' = {}
      BY <2>4
    <3> QED
      BY <3>1, FS_EmptySet, RepAssumption DEF CacheSound
  <2>5. CASE iCache' = kept /\ iWork[w].score # Unknown /\ ~(Cardinality(ips) > CacheMax)
    BY <2>1, <2>2, <2>5, RepAssumption DEF CacheSound, Unknown
  <2> QED
    BY <2>3, <2>4, <2>5 DEF StoreResult
<1> QED
  BY <1>1, <1>2 DEF RepTyped

LEMMA RepStepTyped == ASSUME RepTyped, NEW w \in RepWorkers, RepStep(w) PROVE RepTyped'
<1>1. ASSUME NEW s \in Sources, PassSource(w, s) PROVE RepTyped'
  <2>1. Asking(w) /\ Goes(w, After(s)) /\ After(s) \in {"pace", "store"} \cup Sources
    BY <1>1, AllPlaces DEF PassSource, WorkAt, Asking
  <2> QED
    BY <1>1, <2>1, WorkerGoes, AsksTyped DEF Asks, PassSource, RepTyped
<1> QED
  BY <1>1, TakeTyped, LookUpTyped, BlackboxAsks, IpapiAsks, GeoAsks, IpriskAsks, AsksTyped, StoreTyped DEF RepStep

LEMMA RepTypedNext == RepTyped /\ [RepNext]_repVars => RepTyped'
<1> SUFFICES ASSUME RepTyped, [RepNext]_repVars PROVE RepTyped'
  OBVIOUS
<1>1. CASE RepTick
  <2>1. \A n, m \in Nat : n <= m => Less(n) \in 0 .. m
    BY DEF Less
  <2>2. QuotaOff \in Nat /\ GeoGap \in Nat
    BY RepAssumption
  <2>3. \A src \in SourceType : [src EXCEPT !.off = Less(src.off)] \in SourceType
    BY <2>1, <2>2 DEF SourceType
  <2>4. iSource' \in [Sources -> SourceType]
    BY <1>1, <2>3 DEF RepTick, RepTyped
  <2>5. ASSUME NEW v \in RepWorkType
        PROVE  /\ [v EXCEPT !.wait = Less(v.wait)] \in RepWorkType
               /\ [v EXCEPT !.wait = Less(v.wait)].addr = v.addr
               /\ [v EXCEPT !.wait = Less(v.wait)].at = v.at
               /\ [v EXCEPT !.wait = Less(v.wait)].ip = v.ip
    <3>0. v.wait \in 0 .. GeoGap
      BY DEF RepWorkType
    <3>1. Less(v.wait) \in 0 .. GeoGap
      BY <2>1, <2>2, <3>0
    <3> DEFINE n == Less(v.wait)
    <3> HIDE DEF n
    <3>2. n \in 0 .. GeoGap
      BY <3>1 DEF n
    <3>3. /\ [v EXCEPT !.wait = n] \in RepWorkType /\ [v EXCEPT !.wait = n].addr = v.addr
          /\ [v EXCEPT !.wait = n].at = v.at /\ [v EXCEPT !.wait = n].ip = v.ip
      BY <3>2 DEF RepWorkType
    <3> QED
      BY <3>3 DEF n
  <2>6. WorkSound'
    BY <1>1, <2>5 DEF RepTick, RepTyped, WorkSound, Placed
  <2>7. iGeoNext' \in 0 .. GeoGap
    BY <1>1, <2>1, <2>2 DEF RepTick, RepTyped
  <2> QED
    BY <1>1, <2>4, <2>6, <2>7 DEF RepTick, RepTyped, CacheSound
<1>2. ASSUME NEW a \in RepAddrs, RequestCheck(a) PROVE RepTyped'
  <2>1. iQueue' \in Seq(RepAddrs) /\ Len(iQueue') <= RepQueueCap /\ iPending' \subseteq RepAddrs
    BY <1>2, RepAssumption DEF RequestCheck, RepTyped
  <2> QED
    BY <1>2, <2>1 DEF RequestCheck, RepTyped, CacheSound, WorkSound, Placed
<1>3. ASSUME NEW w \in RepWorkers, RepStep(w) PROVE RepTyped'
  BY <1>3, RepStepTyped
<1>4. ASSUME NEW ip, ResultAges(ip) PROVE RepTyped'
  <2>1. CacheSound
    BY DEF RepTyped
  <2>2. DOMAIN iCache' = DOMAIN iCache \ {ip} /\ \A j \in DOMAIN iCache' : iCache'[j] = iCache[j]
    BY <1>4 DEF ResultAges
  <2>3. IsFiniteSet(DOMAIN iCache') /\ Cardinality(DOMAIN iCache') <= Cardinality(DOMAIN iCache)
        /\ Cardinality(DOMAIN iCache') \in Nat /\ Cardinality(DOMAIN iCache) \in Nat
    BY <2>1, <2>2, FS_Subset, FS_CardinalityType DEF CacheSound
  <2>4. CacheSound'
    BY <2>1, <2>2, <2>3, RepAssumption DEF CacheSound
  <2> QED
    BY <1>4, <2>4 DEF ResultAges, RepTyped, WorkSound, Placed
<1>5. CASE UNCHANGED repVars
  BY <1>5 DEF repVars, RepTyped, CacheSound, WorkSound, Placed
<1> QED
  BY <1>1, <1>2, <1>3, <1>4, <1>5 DEF RepNext

LEMMA RepTypedTypeOK == RepTyped => RepTypeOK
BY DEF RepTyped, RepTypeOK, CacheSound, SourceType, WorkSound, Placed, WorkAt

-----------------------------------------------------------------------------

\* The routes together: each component keeps its type, for any accounts, links,
\* ports, requests, slots, exits and workers.
RoutesInv == ClineInv /\ AdvTyped /\ LayeredTyped /\ FillsSound /\ RepTyped

\* Whatever component runs, the state of each keeps its type, its bounds included:
\* a pool of slots that is never over-full, an index of the rotation within the list,
\* links on ports of their own, a bounded cache of results.
THEOREM RoutesTyped == RoutesSpec => []RoutesTypeOK
<1>1. RoutesInit => RoutesInv
  BY ClineInitInv, AdvTypedInit, LayeredTypedInit, FillsInit, RepTypedInit DEF RoutesInit, RoutesInv
<1>2. RoutesInv /\ [RoutesNext]_<<route, clineVars, advVars, layeredVars, repVars>> => RoutesInv'
  <2> SUFFICES ASSUME RoutesInv, [RoutesNext]_<<route, clineVars, advVars, layeredVars, repVars>> PROVE RoutesInv'
    OBVIOUS
  <2>1. [ClineNext]_clineVars /\ [AdvNext]_advVars /\ [LayeredNext]_layeredVars /\ [RepNext]_repVars
    BY Zenon DEF RoutesNext
  <2> QED
    BY <2>1, ClineNextInv, AdvTypedNext, LayeredTypedNext, FillsNext, RepTypedNext, Zenon DEF RoutesInv
<1>3. RoutesInv => RoutesTypeOK
  BY TypeIsShapeAndBounds, AdvTypedTypeOK, LayeredTypedTypeOK, RepTypedTypeOK DEF RoutesInv, RoutesTypeOK, ClineInv
<1> QED
  BY <1>1, <1>2, <1>3, PTL DEF RoutesSpec

-----------------------------------------------------------------------------
(* NodePool: what the pools, the queue and the checkers hold are addresses  *)
(* of nodes.                                                                *)

Places == {"idle", "probe", "promote", "ask", "remove"}
DeepOf(place) == IF place = "idle" THEN {Nobody} ELSE Plain

\* A round has nodes of sources; a checker has a node unless it is idle.
NodeInv ==
    /\ custom \subseteq Plain /\ fresh \subseteq Plain /\ quota \subseteq Plain
    /\ todo \subseteq Plain /\ dead \subseteq Plain
    /\ queue \in Seq(Plain) /\ Len(queue) <= QueueCap
    /\ round \subseteq Sourced /\ config \subseteq ManualPlain
    /\ shared \in [Range(ExitIp) -> {"none", "ok", "soft"}]
    /\ deep \in [Checkers -> [at : Places, node : Plain \cup {Nobody}]]
    /\ \A d \in Checkers : deep[d].node \in DeepOf(deep[d].at)

LEMMA NodeInitInv == NodeInit => NodeInv
BY NodeAssumption DEF NodeInit, NodeInv, Places, DeepOf, Checkers

LEMMA NodeInvTypeOK == NodeInv => NodeTypeOK
<1> SUFFICES ASSUME NodeInv PROVE NodeTypeOK
  OBVIOUS
<1>1. queue \in BoundedSeq(Plain, QueueCap)
  <2>1. queue \in [1 .. Len(queue) -> Plain] /\ Len(queue) \in 0 .. QueueCap
    BY NodeAssumption DEF NodeInv
  <2> QED
    BY <2>1 DEF BoundedSeq, SeqOf
<1>2. \A d \in Checkers : deep[d].node \in Plain <=> ~DeepAt(d, "idle")
  BY NodeAssumption DEF NodeInv, DeepAt, DeepOf
<1> QED
  BY <1>1, <1>2, NodeAssumption DEF NodeInv, NodeTypeOK

\* A checker that goes on keeps its node, and one that is done has none.
LEMMA BecomeTyped ==
    ASSUME NodeInv, NEW d \in Checkers, ~DeepAt(d, "idle"), NEW place \in Places, Become(d, place)
    PROVE  /\ deep' \in [Checkers -> [at : Places, node : Plain \cup {Nobody}]]
           /\ \A c \in Checkers : deep'[c].node \in DeepOf(deep'[c].at)
<1> DEFINE node == IF place = "idle" THEN Nobody ELSE deep[d].node
           v == [at |-> place, node |-> node]
<1>1. deep' = [deep EXCEPT ![d] = v]
  BY DEF Become
<1>2. node \in Plain \cup {Nobody} /\ node \in DeepOf(place)
  BY DEF NodeInv, DeepAt, DeepOf
<1>3. v \in [at : Places, node : Plain \cup {Nobody}] /\ v.at = place /\ v.node = node
  BY <1>2
<1> HIDE DEF v, node
<1> QED
  BY <1>1, <1>2, <1>3 DEF NodeInv

\* settleDeep's three ends
LEMMA SettleTyped ==
    ASSUME NodeInv, NEW d \in Checkers, DeepAt(d, "probe"), NEW a,
           SettleOk(d, a) \/ SettleSoft(d) \/ DeepHard(d, a)
    PROVE  /\ deep' \in [Checkers -> [at : Places, node : Plain \cup {Nobody}]]
           /\ \A c \in Checkers : deep'[c].node \in DeepOf(deep'[c].at)
           /\ fresh' \subseteq Plain
<1>1. ~DeepAt(d, "idle")
  BY DEF DeepAt
<1>2. PICK place \in Places : Become(d, place)
  BY DEF SettleOk, SettleSoft, DeepHard, Places
<1>3. fresh' \subseteq Plain
  BY DEF SettleOk, SettleSoft, DeepHard, NodeInv
<1> QED
  BY <1>1, <1>2, <1>3, BecomeTyped

LEMMA CheckTyped == ASSUME NodeInv, NEW d \in Checkers, Check(d) PROVE NodeInv'
<1>1. CASE Probe(d)
  <2> DEFINE a == deep[d].node
  <2>1. DeepAt(d, "probe") /\ a \in Plain
    BY <1>1 DEF Probe, NodeInv, DeepAt, DeepOf
  <2>2. ExitIp[a] \in Range(ExitIp)
    BY <2>1, NodeAssumption DEF Range
  <2>3. SettleOk(d, a) \/ SettleSoft(d) \/ DeepHard(d, a)
    BY <1>1 DEF Probe
  <2>4. quota' \subseteq Plain
    BY <1>1, <2>1 DEF Probe, NodeInv
  <2>5. shared' \in [Range(ExitIp) -> {"none", "ok", "soft"}]
    BY <1>1, <2>2 DEF Probe, Keep, NodeInv
  <2>6. UNCHANGED <<custom, queue, round, config, todo, dead>>
    BY <1>1 DEF Probe
  <2> QED
    BY <2>1, <2>3, <2>4, <2>5, <2>6, SettleTyped DEF NodeInv
<1>2. CASE TakeVerdict(d)
  <2> DEFINE a == deep[d].node
  <2>1. DeepAt(d, "probe") /\ UNCHANGED <<custom, queue, quota, shared, round, config, todo, dead>>
    BY <1>2 DEF TakeVerdict
  <2>2. SettleOk(d, a) \/ SettleSoft(d)
    BY <1>2 DEF TakeVerdict
  <2> QED
    BY <2>1, <2>2, SettleTyped DEF NodeInv
<1>3. CASE Promote(d)
  <2>1. ~DeepAt(d, "idle") /\ deep[d].node \in Plain /\ Become(d, "idle")
    BY <1>3 DEF Promote, DeepAt, NodeInv, DeepOf
  <2>2. custom' \subseteq Plain /\ UNCHANGED <<fresh, queue, quota, shared, round, config, todo, dead>>
    BY <1>3, <2>1 DEF Promote, NodeInv
  <2> QED
    BY <2>1, <2>2, BecomeTyped DEF NodeInv, Places
<1>4. CASE AskManual(d)
  <2>1. ~DeepAt(d, "idle") /\ UNCHANGED <<nodePools, round, config, todo, dead>>
    BY <1>4 DEF AskManual, DeepAt
  <2>2. PICK place \in Places : Become(d, place)
    BY <1>4 DEF AskManual, Places
  <2> QED
    BY <2>1, <2>2, BecomeTyped DEF NodeInv, nodePools
<1>5. CASE DropDead(d)
  <2>1. ~DeepAt(d, "idle") /\ Become(d, "idle") /\ custom' \subseteq Plain
        /\ UNCHANGED <<fresh, queue, quota, shared, round, config, todo, dead>>
    BY <1>5 DEF DropDead, DeepAt, NodeInv
  <2> QED
    BY <2>1, BecomeTyped DEF NodeInv, Places
<1> QED
  BY <1>1, <1>2, <1>3, <1>4, <1>5 DEF Check

\* A checker that was idle takes a node.
LEMMA NodeTaken ==
    ASSUME NodeInv, NEW d \in Checkers, NEW a \in Plain, deep' = [deep EXCEPT ![d] = [at |-> "probe", node |-> a]]
    PROVE  /\ deep' \in [Checkers -> [at : Places, node : Plain \cup {Nobody}]]
           /\ \A c \in Checkers : deep'[c].node \in DeepOf(deep'[c].at)
<1> DEFINE v == [at |-> "probe", node |-> a]
<1>1. v \in [at : Places, node : Plain \cup {Nobody}] /\ v.at = "probe" /\ v.node = a
  BY DEF Places
<1>2. deep' = [deep EXCEPT ![d] = v]
  OBVIOUS
<1> HIDE DEF v
<1> QED
  BY <1>1, <1>2 DEF NodeInv, DeepOf

LEMMA NodeNextInv == NodeInv /\ [NodeNext]_nodeVars => NodeInv'
<1> SUFFICES ASSUME NodeInv, [NodeNext]_nodeVars PROVE NodeInv'
  OBVIOUS
<1>1. CASE Fetch
  BY <1>1 DEF Fetch, nodePools, NodeInv
<1>2. CASE TakeQueued
  <2>1. queue # <<>> /\ queue \in Seq(Plain)
    BY <1>2 DEF TakeQueued, NodeInv
  <2>2. Head(queue) \in Plain /\ Tail(queue) \in Seq(Plain) /\ Len(Tail(queue)) = Len(queue) - 1
    BY <2>1, HeadTailProperties
  <2>3. queue' \in Seq(Plain) /\ Len(queue') <= QueueCap
    BY <1>2, <2>1, <2>2, NodeAssumption DEF TakeQueued, NodeInv
  <2>4. UNCHANGED <<custom, fresh, quota, shared, round, config, todo, dead>>
        /\ deep' = [deep EXCEPT !["worker"] = [at |-> "probe", node |-> Head(queue)]]
    BY <1>2 DEF TakeQueued
  <2> QED
    BY <2>2, <2>3, <2>4, NodeTaken DEF NodeInv, Checkers
<1>3. CASE PassStart
  BY <1>3 DEF PassStart, Candidates, nodePools, NodeInv
<1>4. ASSUME NEW d \in Checkers, Check(d) PROVE NodeInv'
  BY <1>4, CheckTyped
<1>5. ASSUME NEW a \in Plain, InitAdd(a) PROVE NodeInv'
  BY <1>5 DEF InitAdd, NodeInv
<1>6. ASSUME NEW a \in Plain, FirstCheck(a) PROVE NodeInv'
  <2>1. fresh' \subseteq Plain /\ UNCHANGED <<custom, quota, shared, config, deep, todo, dead>> /\ round' \subseteq Sourced
    BY <1>6 DEF FirstCheck, PassFirst, NodeInv
  <2>2. queue' \in Seq(Plain) /\ Len(queue') <= QueueCap
    <3>1. queue \in Seq(Plain) /\ Len(queue) <= QueueCap /\ QueueCap \in Nat
      BY NodeAssumption DEF NodeInv
    <3>2. CASE queue' = queue
      BY <3>1, <3>2
    <3>3. CASE Len(queue) < QueueCap /\ queue' = Append(queue, a)
      BY <3>1, <3>3, AppendProperties
    <3> QED
      BY <1>6, <3>2, <3>3 DEF FirstCheck, PassFirst
  <2> QED
    BY <2>1, <2>2 DEF NodeInv
<1>7. ASSUME NEW a \in Plain, PassTake(a) PROVE NodeInv'
  BY <1>7, NodeTaken DEF PassTake, nodePools, NodeInv, Checkers
<1>8. ASSUME NEW a \in Plain, GiveUpNode(a) \/ Die(a) \/ QuotaOver(a) PROVE NodeInv'
  BY <1>8 DEF GiveUpNode, Die, QuotaOver, nodePools, NodeInv
<1>9. ASSUME NEW ip \in Range(ExitIp), VerdictOld(ip) PROVE NodeInv'
  BY <1>9 DEF VerdictOld, NodeInv
<1>10. CASE UNCHANGED nodeVars
  BY <1>10 DEF nodeVars, nodePools, NodeInv
<1> QED
  BY <1>1, <1>2, <1>3, <1>4, <1>5, <1>6, <1>7, <1>8, <1>9, <1>10 DEF NodeNext

\* The pools and the queue keep their types and the queue its length, for any
\* nodes and any order of checks, and a checker has a node exactly while it is at
\* work (proxypool.go, deepprobe.go).
THEOREM NodeTyped == NodeSpec => []NodeTypeOK
BY NodeInitInv, NodeNextInv, NodeInvTypeOK, PTL DEF NodeSpec
=============================================================================
