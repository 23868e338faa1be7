----------------------------- MODULE MCRoutes -----------------------------
(***************************************************************************)
(* Small instances of the components a request may go out through, which   *)
(* share no state: the accounts of Cline, the bridge to advanced proxies,  *)
(* the layers of dispatch and the reputation of exits.  Each behaviour is  *)
(* one of one of them, the others rest: what they do side by side is what  *)
(* each does alone.                                                        *)
(***************************************************************************)
EXTENDS ClinePool, AdvancedBridge, LayeredDispatch, IpReputation, TLC

VARIABLE route  \* the component that runs

-----------------------------------------------------------------------------
MCPlans == {<<>>, <<"exit", "direct">>}

\* The public layer, all others, no direct fallback, no pool, and
\* the relay only.
Config(mirrors, order, race, direct, force, pool, anchor) ==
    [mirrors |-> mirrors, order |-> order, race |-> race, direct |-> direct, force |-> force,
     pool |-> pool, anchor |-> anchor]
MCConfigs ==
    {Config(1, <<"public">>, FALSE, TRUE, FALSE, TRUE, FALSE),
     Config(2, <<"custom">>, TRUE, FALSE, FALSE, TRUE, TRUE),
     Config(2, <<"custom", "zen">>, FALSE, FALSE, FALSE, TRUE, FALSE),
     Config(2, <<"custom">>, FALSE, TRUE, FALSE, FALSE, TRUE),
     Config(2, <<"custom">>, FALSE, TRUE, TRUE, TRUE, TRUE)}
MCListings == {<<>>, <<"e1", "e2">>}

\* Two exits on one IP.
MCIpOf == [a \in RepAddrs |-> "i"]
MCReports == {{"tor", "proxy", "spamhaus", "bogon"}}

Symmetry == Permutations(ClineAccts) \cup Permutations(LReqs)

-----------------------------------------------------------------------------
\* What has many initial states has one of them while it rests.
RoutesInit ==
    /\ route \in {"cline", "bridge", "layers", "reputation"}
    /\ ClineInit /\ AdvInit /\ LayeredInit /\ RepInit
    /\ route # "cline" => cOrder = <<>>
    /\ route # "layers" => lCfg = Config(1, <<"public">>, FALSE, TRUE, FALSE, TRUE, FALSE)

RoutesNext ==
    /\ UNCHANGED route
    /\ IF route = "cline" THEN ClineNext ELSE UNCHANGED clineVars
    /\ IF route = "bridge" THEN AdvNext ELSE UNCHANGED advVars
    /\ IF route = "layers" THEN LayeredNext ELSE UNCHANGED layeredVars
    /\ IF route = "reputation" THEN RepNext ELSE UNCHANGED repVars

RoutesSpec == RoutesInit /\ [][RoutesNext]_<<route, clineVars, advVars, layeredVars, repVars>>

\* The state of each component keeps its type.
RoutesTypeOK == ClineTypeOK /\ AdvTypeOK /\ LayeredTypeOK /\ RepTypeOK
=============================================================================
