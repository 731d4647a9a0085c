--------------------------- MODULE CoverageReport ---------------------------
(***************************************************************************)
(* tools/coverage_report.py and tools/reconciliation_report.py: the        *)
(* assignments and the policy joined with what lives in Datadog.           *)
(* A monitor is [id, tags, query, message, timeout_h]: tags a function,    *)
(* query [text, keys], message the subset of {"next", "runbook", "url"} it *)
(* contains, timeout_h 0 for never.  An SLO is [id, slo_id, service,       *)
(* service_tags, team, owner, env, status, members]; status is one of      *)
(* "ok", "error", "no_data", "absent" and members "some", "empty",         *)
(* "absent".  A finding is [check, class, of, what].                       *)
(***************************************************************************)
EXTENDS ProfileEngine, SloResolver

Finding(check, class, of, what) ==
    [check |-> check, class |-> class, of |-> of, what |-> what]

EstateChecks == {"C2", "C4", "C9", "C10", "C12"}

\* Does this finding stop a deploy?  Three checks have findings of both kinds.
BlocksDeploy(f) ==
    /\ f.check \notin EstateChecks
    /\ f.check = "C3" => f.class = "managed_monitors"
    /\ f.check = "C13" => f.class = "live_slo_error"
    /\ f.check = "C18" => f.class = "declared_slo"

\* The acceptances in force on a day.
Acceptances(policy, today) ==
    {policy.exceptions[i] : i \in {j \in DOMAIN policy.exceptions :
        /\ policy.exceptions[j].control = "finding_acceptance"
        /\ policy.exceptions[j].expires >= today}}

-----------------------------------------------------------------------------
(* C18: the declared objectives joined with the live ones. *)

\* What the platform declares: the domain SLOs and the resolved ones.
DeclaredSlos(policy, resolved) ==
    {[slo_id |-> s.slo_id, service |-> s.service, team |-> s.team, type |-> s.type] :
        s \in policy.slos \cup resolved}

\* An objective the platform resolves that nobody can measure, or nobody owns.
DeclarationFindings(policy, resolved) ==
    UNION {{Finding("C18", "declared_slo", <<"slo", s.slo_id>>, "placeholder") :
                side \in {x \in DOMAIN s.query : s.query[x].marks # {}}}
               \cup {Finding("C18", "telemetry_dependency", <<"slo", s.slo_id>>, "dependency") :
                         x \in {d \in {TRUE} : s.dependency}}
               \cup {Finding("C18", "declared_slo", <<"slo", s.slo_id>>, "owner") :
                         t \in {s.team} \ DOMAIN policy.teams} :
           s \in resolved}

CatalogEntities(policy, services) ==
    {s.name : s \in services} \cup {s.service : s \in policy.slos}

\* Of two live SLOs of one slo_id the first that is listed is examined.
FirstOfId(held, s) == \A t \in held : t.slo_id = s.slo_id => s.id <= t.id

LiveFindings(entities, all, held, s) ==
    LET declared == {d \in all : d.slo_id = s.slo_id}
    IN  IF s.slo_id = <<>> THEN {Finding("C18", "estate_slo", <<"live", s.id>>, "unjoined")}
        ELSE IF ~FirstOfId(held, s)
             THEN {Finding("C18", "estate_slo", <<"live", s.id>>, "duplicate")}
        ELSE IF declared = {} THEN {Finding("C18", "estate_slo", <<"slo", s.slo_id>>, "orphan")}
        ELSE UNION {
            {Finding("C18", "estate_slo", <<"slo", s.slo_id>>, "service") :
                 x \in {s.service} \ entities}
            \cup {Finding("C18", "declared_slo", <<"slo", s.slo_id>>, "associated") :
                 x \in {y \in {s.service} \cap entities : y # d.service}}
            \cup {Finding("C18", "declared_slo", <<"slo", s.slo_id>>, "ownership") :
                 x \in {s.team, s.owner} \ {d.team}}
            \cup {Finding("C18", "declared_slo", <<"slo", s.slo_id>>, "env") : x \in {s.env} \ {"prod"}}
            \cup {Finding("C18", "declared_slo", <<"slo", s.slo_id>>, "no_data") :
                 x \in {s.status} \cap {"no_data"}}
            \cup {Finding("C18", "declared_slo", <<"slo", s.slo_id>>, "no_members") :
                 x \in {y \in {s.members} \cap {"empty"} : d.type = "monitor"}}
            : d \in declared}

SloCatalogFindings(policy, services, resolved, held) ==
    LET declared == DeclaredSlos(policy, resolved)
    IN  DeclarationFindings(policy, resolved)
            \cup (UNION {LiveFindings(CatalogEntities(policy, services), declared, held, s) :
                        s \in held})
            \cup {Finding("C18", "declared_slo", <<"slo", d.slo_id>>, "not_live") :
                     d \in {x \in declared : x.slo_id \notin {s.slo_id : s \in held}}}

-----------------------------------------------------------------------------
(* The resource checks. *)

\* Where an archetype is deployed.
Deployed(monitors, archetype) ==
    {<<TagOf(m.tags, "env"), TagOf(m.tags, "alert_band")>> :
        m \in {x \in monitors : TagOf(x.tags, "archetype") = archetype}}

\* The mandatory archetypes a resource lacks, of those made for its
\* environment and band.
\* (In any environment and band.)
MissingAnywhere(policy, monitors, a) ==
    {aid \in ArchetypesFor(policy, a.service_archetype, a.platform, TRUE) :
        Deployed(monitors, aid) = {}}
MissingArchetypes(policy, monitors, a) ==
    {aid \in ArchetypesFor(policy, a.service_archetype, a.platform, TRUE) :
        /\ <<a.env, a.alert_band>> \notin Deployed(monitors, aid)
        /\ a.env \in policy.archetypes[aid].envs
        /\ a.alert_band \in policy.archetypes[aid].bands}

ResourceFindings(policy, monitors, a) ==
    {Finding("C2", "all", <<"resource", a.id>>, "unowned") : x \in {a.owner_source} \cap {"unowned_pool"}}
        \cup {Finding("C3", "discovered_resources", <<"resource", a.id>>, "tags") :
                 x \in {y \in {TRUE} : a.violations \cap
                     {"invalid_env", "invalid_service_archetype", "invalid_tier",
                      "unknown_team", "service_archetype_inferred"} # {}}}
        \cup IF a.alert_band = "none"
             THEN {Finding("C10", "all", <<"resource", a.id>>, "no_reason") :
                      x \in {a.observe_only_reason} \cap {None}}
             ELSE {Finding("C1", "all", <<"resource", a.id>>, "uncovered") :
                      x \in {y \in {TRUE} : MissingArchetypes(policy, monitors, a) # {}}}
                  \cup {Finding("C10", "all", <<"resource", a.id>>, "security_profile") :
                      x \in {y \in {a.monitoring_profile} \ {"regulated", "critical"} :
                                a.domain = "security"}}
                  \cup {Finding("C10", "all", <<"resource", a.id>>, "tier0_band") :
                      x \in {y \in {a.alert_band} \ {"critical"} :
                                a.tier = "tier0" /\ a.env = "prod"}}

\* C4: a service without an objective of its own or of its domain.
ServicesWithoutSlo(policy, assignments, slos) ==
    {Finding("C4", "all", <<"service", a.service>>, "no_slo") : a \in
        {x \in assignments :
            /\ x.service # <<>>
            /\ x.service \notin UNION {s.service_tags : s \in slos}
            /\ x.service \notin {s.service : s \in policy.slos}
            /\ x.domain \notin {s.domain : s \in policy.slos}}}

-----------------------------------------------------------------------------
(* The monitor checks. *)

Managed(m) == TagOf(m.tags, "managed_by") = "terraform"

PagingSource(m) ==
    LET archetype == TagOf(m.tags, "archetype")
    IN  IF archetype \in {"slo_burn", "composite"} THEN archetype ELSE "archetype"

PagesHere(m) == TagOf(m.tags, "pages") = "true"

\* C14: the first rule a paging monitor breaks.
PagingProblem(policy, m) ==
    LET t == m.tags
    IN  IF ~PagesHere(m) THEN {}
        ELSE IF TagOf(t, "env") # "prod" THEN {"env"}
        ELSE IF TagOf(t, "alert_band") # "critical" THEN {"band"}
        ELSE IF TagOf(t, "priority") = "P2" /\ PagingSource(m) \notin policy.p2_pages_only_from
             THEN {"p2_symptom"}
        ELSE IF TagOf(t, "priority") \in {"P3", "P4"} THEN {"priority"} ELSE {}

\* C8: what a managed monitor listed earlier has too, the key or the query.
Overlaps(monitors, m) ==
    LET Earlier(x) == x.id < m.id /\ Managed(x)
        Keyed(x) == "dedup_key" \in DOMAIN x.tags
    IN  {w \in {"key"} : Keyed(m) /\ \E x \in monitors :
                            Earlier(x) /\ Keyed(x) /\ x.tags["dedup_key"] = m.tags["dedup_key"]}
            \cup {w \in {"query"} : m.query.text # <<>> /\ \E x \in monitors :
                                    Earlier(x) /\ x.query.text = m.query.text}

MonitorFindings(policy, monitors, m) ==
    LET t == m.tags
        F(check, class, what) == Finding(check, class, <<"monitor", m.id>>, what)
        auto == policy.auto_resolve
    IN  IF ~Managed(m) THEN {F("C9", "all", "unmanaged")}
        ELSE {F("C5", "all", "runbook") : x \in {TagOf(t, "runbook")} \cap {None}}
             \cup {F("C6", "all", "automation") : x \in {TagOf(t, "automation_ref")} \cap {None}}
             \cup {F("C7", "all", "routing") : x \in {y \in {TRUE} :
                      None \in {TagOf(t, "team"), TagOf(t, "priority"),
                                TagOf(t, "notification_profile")}}}
             \cup {F("C3", "managed_monitors", "missing_tag") : x \in {y \in {TRUE} :
                      ~(policy.required_monitor_tags \subseteq DOMAIN t)}}
             \cup {F("C8", "all", x) : x \in Overlaps(monitors, m)}
             \cup {F("C11", "all", "keys") : x \in {y \in {TRUE} :
                      Cardinality(m.query.keys) > policy.cardinality.max_group_by_keys}}
             \cup {F("C11", "all", "banned") : x \in {y \in {TRUE} :
                      m.query.keys \cap policy.cardinality.forbidden_group_keys # {}}}
             \cup {F("C14", "all", x) : x \in PagingProblem(policy, m)}
             \cup {F("C15", "all", "action") : x \in {y \in {TRUE} :
                      m.message \cap {"next", "runbook"} = {}}}
             \cup {F("C16", "all", "notebook") : x \in {TagOf(t, "runbook_notebook")} \cap {None}}
             \cup {F("C16", "all", "url") : x \in m.message \cap {"url"}}
             \cup {F("C17", "all", "auto_resolve") :
                      x \in {m.timeout_h} \ auto.min_hours..auto.max_hours}

-----------------------------------------------------------------------------
(* The report and its two gates. *)

\* C12: every exception past its date, whatever it excepts.
\* (Only the acceptances are dated.)
ExpiredAcceptances(policy, today) ==
    {policy.exceptions[i].id : i \in {j \in DOMAIN policy.exceptions :
        /\ policy.exceptions[j].control = "finding_acceptance"
        /\ policy.exceptions[j].expires < today}}
ExpiredExceptions(policy, today) ==
    {policy.exceptions[i].id : i \in {j \in DOMAIN policy.exceptions :
        policy.exceptions[j].expires < today}}

\* resolved is what the SLO resolver makes of the services in production.
RunChecks(policy, services, resolved, assignments, monitors, slos, today) ==
    (UNION {ResourceFindings(policy, monitors, a) : a \in assignments})
        \cup ServicesWithoutSlo(policy, assignments, slos)
        \cup (UNION {MonitorFindings(policy, monitors, m) : m \in monitors})
        \cup {Finding("C12", "all", <<"exception", id>>, "expired") :
                 id \in ExpiredExceptions(policy, today)}
        \cup {Finding("C13", "declared_telemetry_dependency", <<"slo", s.slo_id>>, "dependency") :
                 s \in {x \in policy.slos : x.dependency}}
        \cup {Finding("C13", "live_slo_error", <<"live", s.id>>, "error") :
                 s \in {x \in slos : x.status = "error"}}
        \cup SloCatalogFindings(policy, services, resolved, slos)

\* The acceptance of a class: its own, or the one of the whole check.
\* (An acceptance of any class of the check will do.)
BudgetOfCheck(policy, today, check, class) ==
    LET rules == {e \in Acceptances(policy, today) : e.check = check}
    IN  IF rules # {} THEN (CHOOSE e \in rules : TRUE).max ELSE 0
Budget(policy, today, check, class) ==
    LET Rule(k) == {e \in Acceptances(policy, today) : e.check = check /\ e.applies_to = k}
    IN  IF Rule(class) # {} THEN (CHOOSE e \in Rule(class) : TRUE).max
        ELSE IF Rule("all") # {} THEN (CHOOSE e \in Rule("all") : TRUE).max ELSE 0

\* How many findings of a class fail the run: those beyond the budget.
Unaccepted(policy, today, findings, check, class) ==
    LET n == Cardinality({f \in findings : f.check = check /\ f.class = class})
        budget == Budget(policy, today, check, class)
    IN  IF n > budget THEN n - budget ELSE 0

Classes(findings) == {<<f.check, f.class>> : f \in findings}

GovernancePass(policy, today, findings) ==
    \A k \in Classes(findings) : Unaccepted(policy, today, findings, k[1], k[2]) = 0

\* A class blocks as a whole or not at all.
DeployPass(policy, today, findings) ==
    \A k \in Classes(findings) :
        BlocksDeploy(Finding(k[1], k[2], <<>>, "any"))
            => Unaccepted(policy, today, findings, k[1], k[2]) = 0

-----------------------------------------------------------------------------
(* reconciliation_report: one row for a managed monitor. *)

ReconciliationProblems(policy, m) ==
    LET t == m.tags
        notebook == Given(TagOf(t, "runbook_notebook"),
                          TagOf(policy.runbooks, TagOf(t, "runbook")))
    IN  {x \in {"no runbook attached"} : notebook = None}
            \cup {x \in {"no auto-resolve"} : m.timeout_h = 0}
            \cup {x \in {"URL in message"} : "url" \in m.message}
            \cup {x \in {"no SLO"} : TagOf(t, "slo_id") = None}
            \cup {x \in {"no workflow"} : TagOf(t, "automation_ref") = None}
            \cup {x \in {"no owner"} : TagOf(t, "team") = None}
            \cup {x \in {"pages outside production"} : PagesHere(m) /\ TagOf(t, "env") # "prod"}

ReconciliationPass(policy, monitors) ==
    \A m \in monitors : Managed(m) => ReconciliationProblems(policy, m) = {}

=============================================================================
