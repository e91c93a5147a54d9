-------------------------------- MODULE Session --------------------------------
(***************************************************************************)
(* The variables a case starts with: what the user configured, what an     *)
(* ingested PRD adds to that (local/prd_ingest.rs, local/project.rs), what *)
(* the run takes from the latest PRD (local/run.rs) and what is seeded     *)
(* afresh for each case (server/store.rs). Operators only; CaseRun runs    *)
(* the cases.                                                              *)
(***************************************************************************)
EXTENDS Integers, FiniteSets

CONSTANT Vars       \* session variables

NoVar == "-"

\* Where a value comes from. An extracted value is the number of its step.
Configured == 0
Empty      == -1    \* unset: it interpolates to the environment's, or to nothing
Literal    == -2    \* a fixed value of the strategy
Seeded     == -3    \* a token or an OAuth value made for this case
Expanded   == -4    \* a template with this case's tokens
Verbatim   == -5    \* a template whose {...} is no token and was left in place
Ingested   == -6    \* a credential or an address of a PRD

-----------------------------------------------------------------------------
(* The settings, as functions from the variables that are set. *)

\* load_variables: variables.json over .testsprite.env.
LoadVariables(env, file) ==
    [v \in DOMAIN env \cup DOMAIN file |-> IF v \in DOMAIN file THEN file[v] ELSE env[v]]

\* What variables.json holds after seeding: when it is written at all, what
\* .testsprite.env held goes into it too.
Seeding(env, file, seeds) ==
    LoadVariables([v \in seeds |-> Ingested], LoadVariables(env, file))

\* seed_variables_missing: what is set in either place stays.
SeedVariablesMissing(env, file, seeds) ==
    IF seeds \subseteq DOMAIN LoadVariables(env, file) THEN file ELSE Seeding(env, file, seeds)

-----------------------------------------------------------------------------
(* PRDs *)

\* An entry of a strategy: the name it gives a value, which is its key without
\* `_template`, the camelCase of that name, and what a template has in braces.
Prose == {"CRITICAL", "uuid_generation"}
Entry == [name : STRING, alias : STRING, template : BOOLEAN, braces : SUBSET STRING]

\* A document that may be ingested: the variables of its test credentials, of
\* its test_environment if it has one and of its `endpoints`, and its
\* test_data_strategy.
Document ==
    [credentials : SUBSET Vars, hasEnvironment : BOOLEAN, environment : SUBSET Vars,
     endpoints : SUBSET Vars, strategy : SUBSET Entry]

\* parse_environment: `endpoints` stand in for a missing test_environment.
Environment(doc) == IF doc.hasEnvironment THEN doc.environment ELSE doc.endpoints

\* variable_seeds
VariableSeeds(doc) == doc.credentials \cup Environment(doc)

\* ingest: the strategy goes with the PRD.
Ingest(doc) == [features |-> {}, test_data_strategy |-> doc.strategy]

\* load_prd: what was saved as the PRD is a field of what is loaded.
LoadPrd(prd) == [prd |-> prd]

\* strategy_vars: the entries that name a variable, under either name. The block
\* is looked for at the top of the value.
StrategyVars(value, v) ==
    IF "test_data_strategy" \notin DOMAIN value THEN {}
    ELSE {e \in value.test_data_strategy : e.name \notin Prose /\ v \in {e.name, e.alias}}

-----------------------------------------------------------------------------
(* A case *)

\* dynamic_tokens, which templates may name, and what else a flow is seeded with.
Tokens == {"uuid", "uuid8", "ts", "rand"}
Runtime == Tokens \cup {"state", "pkceVerifier", "pkceChallenge"}

\* inject_strategy_vars: neither kind of entry touches what is set.
InjectedLiteral(config, value, v) ==
    v \notin DOMAIN config /\ \E e \in StrategyVars(value, v) : ~e.template

\* The template kept for the executor, if any.
Stashed(config, value, v) ==
    {e \in StrategyVars(value, v) : e.template /\ v \notin DOMAIN config}

\* expand_template
Expand(e) == IF e.braces \subseteq Tokens THEN Expanded ELSE Verbatim

\* What a case starts with: seed_runtime_vars and seed_dynamic only add to
\* what was injected, the tokens before the templates.
SessionOf(config, value) ==
    [v \in Vars |->
        CASE v \in DOMAIN config                         -> config[v]
          [] InjectedLiteral(config, value, v)           -> Literal
          [] OTHER ->
             IF v \in Runtime THEN Seeded
             ELSE IF Stashed(config, value, v) # {}
             THEN Expand(CHOOSE e \in Stashed(config, value, v) : TRUE)
             ELSE Empty]

\* What the cases of a run start with: the user's settings in two files, a PRD
\* ingested after they were made, and the run's view of that PRD.
Started(env, file, doc) ==
    SessionOf(LoadVariables(env, SeedVariablesMissing(env, file, VariableSeeds(doc))),
              LoadPrd(Ingest(doc)))

================================================================================
