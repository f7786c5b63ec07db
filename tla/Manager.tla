------------------------------- MODULE Manager -------------------------------
(***************************************************************************)
(* Parts of the proxy manager, side by side: the closing of connections,   *)
(* the refreshes of their tools, the pending stores, the fact extractors,  *)
(* the tools the server offers and the consult of the tool graph.  They    *)
(* share no variable, so a behaviour moves one of them and leaves the      *)
(* others as they began.                                                   *)
(***************************************************************************)
EXTENDS PendingStores, ToolsRefresh, RetiringExtractors, UpstreamShutdown, ToolExposure,
        GraphConsult

VARIABLE part

managerVars == <<part, pendingVars, refreshVars, extractorVars, shutdownVars, exposureVars,
                 consultVars>>

ExposureRests ==
  /\ settings.source = "off" /\ Profile = "strict" /\ bundle.readable /\ bundle.scope = "strict"
  /\ \A n \in Names : table[n] = Free

Parts == {"pending", "refresh", "extractor", "shutdown", "exposure", "consult"}

\* The parts that rest have one initial state.
ManagerInit ==
  /\ part \in Parts
  /\ PendingInit /\ RefreshInit /\ ExtractorInit /\ ShutdownInit
  /\ ExposureInit /\ (part # "exposure" => ExposureRests)
  /\ ConsultInit /\ (part # "consult" => known /\ verdictRows = {})

PendingMoves ==
  /\ part = "pending" /\ PendingNext
  /\ UNCHANGED <<refreshVars, extractorVars, shutdownVars, exposureVars, consultVars>>

RefreshMoves ==
  /\ part = "refresh" /\ RefreshNext
  /\ UNCHANGED <<pendingVars, extractorVars, shutdownVars, exposureVars, consultVars>>

ExtractorsMove ==
  /\ part = "extractor" /\ ExtractorNext
  /\ UNCHANGED <<pendingVars, refreshVars, shutdownVars, exposureVars, consultVars>>

ShutdownMoves ==
  /\ part = "shutdown" /\ ShutdownNext
  /\ UNCHANGED <<pendingVars, refreshVars, extractorVars, exposureVars, consultVars>>

ExposureMoves ==
  /\ part = "exposure" /\ ExposureNext
  /\ UNCHANGED <<pendingVars, refreshVars, extractorVars, shutdownVars, consultVars>>

ConsultMoves ==
  /\ part = "consult" /\ ConsultNext
  /\ UNCHANGED <<pendingVars, refreshVars, extractorVars, shutdownVars, exposureVars>>

ManagerNext ==
  /\ UNCHANGED part
  /\ \/ PendingMoves \/ RefreshMoves \/ ExtractorsMove \/ ShutdownMoves
     \/ ExposureMoves \/ ConsultMoves

ManagerSpec == ManagerInit /\ [][ManagerNext]_managerVars
-----------------------------------------------------------------------------
(* What stop() and a swap of settings must close is closed: the fact       *)
(* extractors that were retired and the transports of every generation.    *)
NothingIsLeft == ExtractorsAreKept /\ NothingLeftOpen

(* What is offered and let through was judged by what is in force, what is *)
(* offered is registered, and a reused verdict is the graph's own.         *)
OffersAreSound == ExposureIsSound /\ ConsultIsSound

(* What a step may never do: publish where no reader looks, put an older   *)
(* listing over a newer one, take a name of the embedding host.            *)
PublicationsHold == PublicationsAreLive /\ ListingsAdvance /\ NothingIsTaken
=============================================================================
