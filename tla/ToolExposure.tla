----------------------------- MODULE ToolExposure -----------------------------
(***************************************************************************)
(* What the proxy offers: the tool graph's verdict on the upstream tools,  *)
(* the advertisement the manager decides from it (get_proxy_tools), the    *)
(* tools the server registers for it (app_lifespan) and the gate every     *)
(* call passes (_enforce_toolgraph_call_policy).                           *)
(*                                                                         *)
(* The verdict comes from a policy bundle, a file another program          *)
(* publishes and every pass and call looks at again, or from one consult   *)
(* of the graph at startup.  A tool is its name and the version of its     *)
(* contract (0: the upstreams do not have it); every upstream's tools are  *)
(* one catalogue.  Settings are read live, so they may move at any time.   *)
(***************************************************************************)
EXTENDS Integers

CONSTANTS
  Names,          \* prefixed tool names
  MaxContract,    \* versions of a tool's contract
  Catalogs,       \* catalogues a start may find: name -> version
  MaxRevision,    \* bound: changes of the catalogue
  Bundles,        \* what may be published: readable, scope, approves (name -> version or 0)
  HostNames,      \* names the embedding host may use itself
  MaxStamp,       \* bound: publications of the bundle
  SettingsSet,    \* settings: source, exposure profile, the profile the bundle is asked for
  MaxSettings,    \* bound: reloads of the settings
  Hidden,         \* (name, version) pairs withheld whatever the profile is
  Flagged,        \* (name, version) pairs the server's own rules flag
  NoBundle, NotAsked,
  Free, Host      \* a name nobody holds in the server's table; one of the host's tools

\* What the policy keeps of a bundle.
Contents == [scope : {b.scope : b \in Bundles}, approves : {b.approves : b \in Bundles}]

ASSUME ExposureAssumption ==
  /\ {MaxContract, MaxRevision, MaxStamp, MaxSettings} \subseteq Nat
  /\ Catalogs \subseteq [Names -> 0..MaxContract]
  /\ \A s \in SettingsSet : s.source \in {"off", "bundle", "stdio"}
  /\ \A b \in Bundles : b.readable \in BOOLEAN
  /\ NoBundle \notin Contents /\ \A asked \in SUBSET Names : asked # NotAsked
  /\ Free # Host /\ {Free, Host} \cap (0..MaxContract) = {}

VARIABLES
  session,     \* "new", "consulting", "decided", "up", "failed", "down"
  catalog,     \* name -> version of the upstream's tool
  revision,    \* _tool_catalog_revision
  bundle,      \* the file: there (stat answers), stamp, readable, scope, approves
  settings,    \* the live configuration
  reloads,     \* reloads of the settings so far
  policy,      \* the manager's _toolgraph_* fields
  answer,      \* the graph's answer to the consult: asked, refused
  advertised,  \* names in _advertised_tools
  table,       \* the server's table: name -> Free, Host or the version registered
  owned,       \* registered_proxy_tools: name -> version, 0: not this lifespan's
  due          \* an announced change of the catalogue no pass has answered

exposureVars == <<session, catalog, revision, bundle, settings, reloads, policy, answer,
                  advertised, table, owned, due>>

Present == {n \in Names : catalog[n] > 0}
Profile == settings.profile

NoPolicy == [owner |-> "none", kept |-> NoBundle, stamp |-> 0, bound |-> -1, rejects |-> {},
             consulted |-> NotAsked, withhold |-> FALSE, degraded |-> FALSE]
NoAnswer == [asked |-> {}, refused |-> {}]
-----------------------------------------------------------------------------
(* The bundle.                                                             *)

Content(b) == [scope |-> b.scope, approves |-> b.approves]

\* A tool is bound to its decision by name and by the contract the decision was made for.
Bind(p, kept) ==
  [p EXCEPT !.rejects = {n \in Present : kept.approves[n] # catalog[n]},
            !.consulted = NotAsked, !.bound = revision]

Rebound(p) ==
  IF p.kept # NoBundle /\ p.bound # revision THEN Bind(p, p.kept) ELSE p

Retired(p, owners) == IF p.owner \in owners THEN NoPolicy ELSE p

\* A bug: a rejected reload keeps the stamp, so a later look takes the file as unchanged.
RejectedKeepsStamp(p) ==
  LET q == [Retired(p, {"stdio"}) EXCEPT !.owner = "bundle", !.degraded = TRUE]
  IN  IF Profile = "strict" THEN [q EXCEPT !.withhold = TRUE]
      ELSE Rebound([q EXCEPT !.withhold = FALSE])

Rejected(p) ==
  LET q == [Retired(p, {"stdio"}) EXCEPT !.stamp = 0, !.owner = "bundle", !.degraded = TRUE]
  IN  IF Profile = "strict" THEN [q EXCEPT !.withhold = TRUE]
      ELSE Rebound([q EXCEPT !.withhold = FALSE])

Adopted(p) ==
  [Bind(p, bundle) EXCEPT !.kept = Content(bundle), !.stamp = bundle.stamp,
                          !.owner = "bundle", !.degraded = FALSE, !.withhold = FALSE]

\* The file loads: it is there, parses, and is scoped to the profile in force.
Loads == /\ bundle.readable
         /\ settings.query = Profile
         /\ bundle.scope = Profile

Unchanged(p, force) == ~force /\ bundle.stamp = p.stamp

\* The policy after a look at the settings and the file.  torn: the file was
\* replaced while it was being read.
Refreshed(p, force, torn) ==
  CASE settings.source = "off" -> Retired(p, {"bundle", "stdio"})
    [] settings.source = "stdio" -> Retired(p, {"bundle"})
    [] settings.source = "bundle" ->
         IF ~bundle.there THEN Rejected(p)
         ELSE IF Unchanged(p, force) THEN Rebound(p)
         ELSE IF Loads /\ ~torn THEN Adopted(p) ELSE Rejected(p)

\* The file is opened, so a publication may meet the read.
Reads(p, force) == settings.source = "bundle" /\ bundle.there /\ ~Unchanged(p, force)
-----------------------------------------------------------------------------
(* Decisions.                                                              *)

\* The gate of a call: the bundle's verdict, under the strict profile only.
Denied(p, n) ==
  /\ settings.source = "bundle" /\ Profile = "strict"
  /\ p.withhold \/ n \in p.rejects

\* A consult covers what it asked about; what came later was never judged.
External(p) ==
  IF p.consulted = NotAsked THEN p.rejects ELSE p.rejects \cup (Present \ p.consulted)

Suspect(p) == External(p) \cup {n \in Present : <<n, catalog[n]>> \in Flagged}

\* filter_tools
Offered(p) ==
  IF p.withhold THEN {}
  ELSE {n \in Present : /\ <<n, catalog[n]>> \notin Hidden
                        /\ ~(Profile = "strict" /\ n \in Suspect(p))}
-----------------------------------------------------------------------------
Published(stamp, content) ==
  [there |-> TRUE, stamp |-> stamp, readable |-> content.readable, scope |-> content.scope,
   approves |-> content.approves]

ExposureInit ==
  /\ session = "new"
  /\ catalog \in Catalogs /\ revision = 0
  /\ bundle \in {Published(1, content) : content \in Bundles}
  /\ settings \in SettingsSet /\ reloads = 0
  /\ policy = NoPolicy /\ answer = NoAnswer
  /\ advertised = {} /\ due = FALSE
  /\ table \in {t \in [Names -> {Free, Host}] : \A n \in Names \ HostNames : t[n] = Free}
  /\ owned = [n \in Names |-> 0]

(* The embedding host, the upstreams, the publisher and the operator.      *)
\* Moves before the start are among the initial states; a bundle nobody looks at
\* stays as it is.
Running == session \in {"consulting", "decided", "up"}

HostAdds(n) ==
  /\ Running /\ n \in HostNames /\ table[n] = Free /\ owned[n] = 0
  /\ table' = [table EXCEPT ![n] = Host]
  /\ UNCHANGED <<session, catalog, revision, bundle, settings, reloads, policy, answer,
                 advertised, owned, due>>

\* The host may drop any entry of its own server's table.
HostRemoves(n) ==
  /\ Running /\ table[n] # Free
  /\ table' = [table EXCEPT ![n] = Free]
  /\ UNCHANGED <<session, catalog, revision, bundle, settings, reloads, policy, answer,
                 advertised, owned, due>>

\* A reconnect or a refresh installs another listing, and announces it.
CatalogMoves(n, v) ==
  /\ Running /\ revision < MaxRevision /\ catalog[n] # v
  /\ catalog' = [catalog EXCEPT ![n] = v]
  /\ revision' = revision + 1
  /\ due' = (session = "up")
  /\ UNCHANGED <<session, bundle, settings, reloads, policy, answer, advertised, table, owned>>

PublishBundle(content) ==
  /\ Running /\ settings.source = "bundle" /\ bundle.stamp < MaxStamp
  /\ bundle' = Published(bundle.stamp + 1, content)
  /\ UNCHANGED <<session, catalog, revision, settings, reloads, policy, answer, advertised,
                 table, owned, due>>

\* The file cannot be looked at for a while, and comes back as it was.
Flickers ==
  /\ Running /\ settings.source = "bundle"
  /\ bundle' = [bundle EXCEPT !.there = ~@]
  /\ UNCHANGED <<session, catalog, revision, settings, reloads, policy, answer, advertised,
                 table, owned, due>>

ReloadSettings(s) ==
  /\ Running /\ reloads < MaxSettings /\ s # settings
  /\ settings' = s /\ reloads' = reloads + 1
  /\ UNCHANGED <<session, catalog, revision, bundle, policy, answer, advertised, table, owned,
                 due>>
-----------------------------------------------------------------------------
(* Startup.                                                                *)

StartOff ==
  /\ session = "new" /\ settings.source = "off"
  /\ session' = "decided"
  /\ UNCHANGED <<catalog, revision, bundle, settings, reloads, policy, answer, advertised,
                 table, owned, due>>

StartOnBundle ==
  /\ session = "new" /\ settings.source = "bundle"
  /\ policy' = Refreshed(policy, TRUE, FALSE)
  /\ session' = IF policy'.degraded /\ Profile = "strict" THEN "failed" ELSE "decided"
  /\ UNCHANGED <<catalog, revision, bundle, settings, reloads, answer, advertised, table,
                 owned, due>>

\* _consult_toolgraph starts: nothing to ask about is an answer.
ConsultBegins ==
  /\ session = "new" /\ settings.source = "stdio"
  /\ policy' = [NoPolicy EXCEPT !.owner = "stdio",
                                !.consulted = IF Present = {} THEN {} ELSE NotAsked]
  /\ answer' = [NoAnswer EXCEPT !.asked = Present]
  /\ session' = IF Present = {} THEN "decided" ELSE "consulting"
  /\ UNCHANGED <<catalog, revision, bundle, settings, reloads, advertised, table, owned, due>>

ConsultAnswers(refused) ==
  /\ session = "consulting" /\ refused \subseteq answer.asked
  /\ session' = "decided"
  /\ answer' = [answer EXCEPT !.refused = refused]
  /\ policy' = [policy EXCEPT !.rejects = refused, !.consulted = answer.asked]
  /\ UNCHANGED <<catalog, revision, bundle, settings, reloads, advertised, table, owned, due>>

\* _tg_whole_call: the graph gave no usable verdict.
ConsultFails(knob) ==
  /\ session = "consulting"
  /\ session' = IF knob = "fail_start" THEN "failed" ELSE "decided"
  /\ policy' = [policy EXCEPT !.withhold = (knob = "closed"), !.degraded = (knob = "open")]
  /\ UNCHANGED <<catalog, revision, bundle, settings, reloads, answer, advertised, table,
                 owned, due>>
-----------------------------------------------------------------------------
(* A pass: get_proxy_tools, the reconciliation of the registry and          *)
(* retain_registered_advertisement, without an await in between.           *)

Desired(p) == [n \in Names |-> IF n \in Offered(p) THEN catalog[n] ELSE 0]

\* Names this lifespan holds that the new advertisement does not describe.
Stale(p) == {n \in Names : owned[n] # 0 /\ owned[n] # Desired(p)[n]}

\* stuck: removals that fail with the tool still installed.
Held(p, stuck) == {n \in Names : owned[n] # 0} \ (Stale(p) \ stuck)

\* Names of the advertisement whose place is free once the outdated tools are gone.
Claimable(p, stuck) ==
  {n \in Offered(p) \ Held(p, stuck) : table[n] = Free \/ n \in Stale(p) \ stuck}

\* refused: claims that fail in add_tool.
Pass(p, stuck, refused) ==
  LET claimed == Claimable(p, stuck) \ refused
      held == Held(p, stuck)
  IN  /\ policy' = p
      /\ table' = [n \in Names |->
                     IF n \in claimed THEN catalog[n]
                     ELSE IF n \in Stale(p) \ stuck THEN Free ELSE table[n]]
      /\ owned' = [n \in Names |-> IF n \in claimed THEN catalog[n]
                                   ELSE IF n \in held THEN owned[n] ELSE 0]
      /\ advertised' = Offered(p) \cap (held \cup claimed)

Passes ==
  LET p == Refreshed(policy, FALSE, FALSE)
  IN  \E stuck \in SUBSET {n \in Stale(p) : table[n] # Free} :
        \E refused \in SUBSET Claimable(p, stuck) : Pass(p, stuck, refused)

Advertise ==
  /\ session = "decided"
  /\ session' = "up" /\ Passes
  /\ UNCHANGED <<catalog, revision, bundle, settings, reloads, answer, due>>

Readvertise ==
  /\ session = "up" /\ due
  /\ due' = FALSE /\ Passes
  /\ UNCHANGED <<session, catalog, revision, bundle, settings, reloads, answer>>

\* Only under a bundle is the policy looked at again before a call.
ToolCall ==
  /\ session = "up" /\ settings.source = "bundle"
  /\ policy' = Refreshed(policy, FALSE, FALSE)
  /\ UNCHANGED <<session, catalog, revision, bundle, settings, reloads, answer, advertised,
                 table, owned, due>>

\* A call whose read of the bundle meets a publication.
TornCall(content) ==
  /\ session = "up" /\ bundle.stamp < MaxStamp /\ Reads(policy, FALSE)
  /\ policy' = Refreshed(policy, FALSE, TRUE)
  /\ bundle' = Published(bundle.stamp + 1, content)
  /\ UNCHANGED <<session, catalog, revision, settings, reloads, answer, advertised, table,
                 owned, due>>

\* Teardown: no more announcements; removals that fail leave their tool behind; the
\* manager's stop() forgets its connections.
Teardown(stuck) ==
  /\ session = "up" /\ stuck \subseteq {n \in Names : owned[n] # 0 /\ table[n] # Free}
  /\ session' = "down" /\ due' = FALSE
  /\ table' = [n \in Names |-> IF owned[n] # 0 /\ n \notin stuck THEN Free ELSE table[n]]
  /\ catalog' = [n \in Names |-> 0] /\ revision' = 0
  /\ policy' = [policy EXCEPT !.bound = -1]
  /\ UNCHANGED <<bundle, settings, reloads, answer, advertised, owned>>
-----------------------------------------------------------------------------
ExposureNext ==
  \/ \E n \in Names : HostAdds(n) \/ HostRemoves(n)
  \/ \E n \in Names, v \in 0..MaxContract : CatalogMoves(n, v)
  \/ \E content \in Bundles : PublishBundle(content) \/ TornCall(content)
  \/ Flickers
  \/ \E s \in SettingsSet : ReloadSettings(s)
  \/ StartOff \/ StartOnBundle \/ ConsultBegins
  \/ \E refused \in SUBSET Names : ConsultAnswers(refused)
  \/ \E knob \in {"open", "closed", "fail_start"} : ConsultFails(knob)
  \/ Advertise \/ Readvertise \/ ToolCall
  \/ \E stuck \in SUBSET Names : Teardown(stuck)

ExposureSpec == ExposureInit /\ [][ExposureNext]_exposureVars
-----------------------------------------------------------------------------
Deciding == session \in {"decided", "up"}
Now == Refreshed(policy, FALSE, FALSE)
Approved(n) == bundle.approves[n] = catalog[n]

\* Type correctness.
ExposureTypeOK ==
  /\ session \in {"new", "consulting", "decided", "up", "failed", "down"}
  /\ catalog \in [Names -> 0..MaxContract] /\ revision \in 0..MaxRevision
  /\ settings \in SettingsSet /\ reloads \in 0..MaxSettings /\ due \in BOOLEAN
  /\ policy.owner \in {"none", "bundle", "stdio"} /\ policy.rejects \subseteq Names
  /\ advertised \subseteq Names
  /\ table \in [Names -> {Free, Host} \cup 1..MaxContract]
  /\ owned \in [Names -> 0..MaxContract]

(* Whatever was published, unpublished, reloaded and re-listed before it, a *)
(* strict call passes exactly when the bundle on disk can be looked at and *)
(* approves the contract the tool has now: a verdict kept under an old     *)
(* catalogue never decides, and a failure that is over withholds nothing.  *)
GateFollowsTheBundle ==
  (Deciding /\ settings.source = "bundle" /\ Profile = "strict") =>
     \A n \in Present :
        /\ ~Denied(Now, n) => bundle.there /\ bundle.readable /\ Approved(n)
        /\ (bundle.there /\ Loads /\ Approved(n)) => ~Denied(Now, n)

(* What a pass would offer now under the strict profile has been judged:   *)
(* by the bundle on disk, or by the graph that was asked at startup, which *)
(* never saw a tool that came later.  A source that was switched off       *)
(* withholds nothing any more.                                             *)
OffersAreJudged ==
  (Deciding /\ Profile = "strict") =>
     /\ settings.source = "bundle" => \A n \in Offered(Now) : bundle.there /\ Approved(n)
     /\ (settings.source = "stdio" /\ policy.owner = "stdio" /\ ~policy.degraded) =>
           Offered(Now) \subseteq answer.asked \ answer.refused
     /\ settings.source = "off" =>
           {n \in Present : <<n, catalog[n]>> \notin Hidden \cup Flagged} \subseteq Offered(Now)

(* What ranking and telemetry take for the advertisement is registered,    *)
(* and no tool of this lifespan is left in the server's table without the  *)
(* lifespan knowing it is its own to remove.                               *)
RegistryIsOwned ==
  session # "down" =>
     /\ \A n \in advertised : owned[n] # 0
     /\ \A n \in Names : owned[n] # 0 => table[n] \in {Free, owned[n]}
     /\ \A n \in Names : table[n] \notin {Free, Host} => owned[n] = table[n]

ExposureIsSound ==
  ExposureTypeOK /\ GateFollowsTheBundle /\ OffersAreJudged /\ RegistryIsOwned

(* No pass and no teardown takes a name from the embedding host, and no    *)
(* rebuild of the advertisement wipes the verdict of the startup consult   *)
(* while its source is in force.                                           *)
NothingIsTaken ==
  [][/\ \A n \in Names : table[n] = Host => table'[n] = Host \/ HostRemoves(n)
     /\ (session \in {"decided", "up"} /\ policy.owner = "stdio" /\ settings.source = "stdio")
          => policy' = policy]_exposureVars
=============================================================================
