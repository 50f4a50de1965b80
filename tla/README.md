# Verification of the Aquarium control plane

This directory holds a TLA+ development of the control plane in this
repository: `orchestrator/` (a service layer with its clients for LiteLLM,
Infisical, SQLite and Docker) and `controlplane/` (the Django site over it).

## The system

One service layer (`orchestrator/service_layer.py`) does everything. Two
front ends call it directly: the Django site and JSON API, whose requests run
in threads of one server process, and the CLI, each call of which is a process
of its own. There is no queue, no worker and no lock of the program's own. What
the operations have in common is outside:

| shared state | written by | read by |
|---|---|---|
| SQLite database (WAL, one writer, 20 s busy timeout) | every operation; autocommit, except `create_or_update_runtime` and `upsert_provider_connection`, which are `@transaction.atomic` | every operation |
| `runtimes.json`, a mirror of the runtime rows | create, delete, limits | the import into an empty database |
| the shared compose file | create, start, stop, recreate, delete | `docker compose` |
| containers `gateway-<id>` | `docker compose up/stop/rm`, Docker's restart policy | |
| LiteLLM: virtual keys with limits | create, rotate, revoke, limits | the gateways |
| Infisical: one project per runtime, holding `LITELLM_API_KEY` and channel secrets | create, rotate, revoke, secrets, integrations | the gateways, when they boot; rotate, revoke, limits |
| `runtime.env`, the bootstrap file of a container | create, limits with a new model, secrets, integrations | the gateway, when it is created |

What is hard about it: every operation is a sequence of calls to services that
know nothing of one another; any call can raise, time out with its effect done,
or be the last before the process is killed; a rollback takes back rows, never
calls or files; and a request works with rows it read before calls that take
seconds. Nothing is retried by the program.

### Components

| component | state | operations | what makes it correct | module |
|---|---|---|---|---|
| Runtime key lifecycle | key at LiteLLM, secret in Infisical, key of the running gateway | create, rotate, revoke | no live key gets lost; a secret is a live key; a gateway runs with the secret; nobody gets another runtime's key | `RuntimeKeys`, `KeyVault` |
| Runtime registry | rows, `runtimes.json`, compose file, containers | create, start, stop, restart, recreate, delete, look-up, import | the four copies agree, or differ for a known reason; the status is truthful | `RuntimeRegistry` |
| Runtime limits | columns of the row, limits of the key | update, sync | LiteLLM enforces what the row says; the gateway runs the row's model | `RuntimeLimits` |
| Channels, settings, secrets, skills of a runtime | two JSON columns, connections, secrets, env file | upsert/delete/test integration, upsert secret, update skills | row, connection, env file, secrets and gateway agree; one column's writer leaves the other alone | `RuntimeChannels` |
| Agents and deployments | agent, build spec, skill bindings, deployment rows | draft, update, launch, stop, backfill | the status is true of the container; every runtime has an agent; default ports are distinct; bindings are what was asked for | `AgentLaunch`, `AgentSpecs` |
| Providers, models, LiteLLM stack | provider and model rows, their secrets, `config.yaml`, LiteLLM's env file and container | upsert, toggle, delete, backfill, `litellm bootstrap` | the configuration lists what the rows say, with secrets that exist; a rotated secret reaches the container | `ProviderModels` (partly) |
| Chat sessions | sessions and messages | create, send, reset | nothing outlives its runtime; questions and answers belong together | `ChatSessions` |
| Skill catalog | catalog rows | bootstrap, edit, offer, select | no page offers, and no creation or update of a runtime takes, a skill that is not reviewed, unless the operator changed his mind; agents take any (see the findings) | `RuntimeWizard` (partly) |
| Operator pages and HTTP API | the wizard's dictionary in the Django session | one handler per page and resource | what is created is what was typed; a bot token goes to one runtime | `RuntimeWizard`, and the requests of all modules (partly) |
| Infisical and LiteLLM clients, entrypoint, schema, CLI | outside services, SQLite | calls of the operations above | | partly, inside the modules above |
| Workspaces, diagnostics, sign-in, presets, stacks | | | | not modelled (see the last section) |

## Modules

### `KeyVault` and `RuntimeKeys`

`RuntimeKeys` models `create_or_update_runtime`, `rotate_runtime_key` and
`revoke_runtime_key` as far as the runtime's key is concerned, one action per
external call, in the order of the code:

| code | actions |
|---|---|
| `@transaction.atomic`, first write | `Create`/`Rotate`, `Enter` (takes the write lock) |
| `_current_runtime_key` (1123) | `Lookup`, with the failure that looks like "no key" |
| `delete_virtual_key` (1571-1575) | `Drop`, with the swallowed `LiteLLMError` |
| `_provision_litellm_key` (1576) | `Generate` |
| `upsert_secret` (1577) | `Store` |
| env file, records, files, `docker compose up` (1578-1592) | `Up` |
| status, commit (1593-1597) | `Commit` |
| `revoke_runtime_key` (1757-1768) | `Revoke`, `RevokeLookup`, `RevokeDrop`, `RevokeForget`, `RevokeSave` |
| an exception or kill at any of these | `Abort`, `RevokeFail` |
| a lost answer of a call that took effect | `DropUnanswered`, `GenerateUnanswered`, `StoreUnanswered`, `RevokeDropUnanswered` |
| other operations and Docker | `StartGateway`, `StopGateway`, `Delete`, `Boot`, `GatewayExit` |

`pc`, `rt`, `seen` and `new` are an operation's position and local variables,
`writer` is the holder of SQLite's write lock, `rows` the committed rows,
`owner`/`live` the keys of LiteLLM, `stored` the secrets, `gateway`/`loaded` the
containers. Two history variables record what a failure leaves: `strays` (keys
a step let go of) and `debt` (a dead secret, a stale gateway). The properties
say that nothing else goes wrong: they are wrong as soon as a step that is no
failure loses a key or leaves a dead one.

`KeyVault` is what the rest of the system may rely on: keys are generated for
one runtime, stored while they are live, used by their runtime's gateway only,
and never come back. `RuntimeKeys!VaultSpec` states that `RuntimeKeys` implements
it; the refinement mapping is the identity on the four shared variables.

### `RuntimeRegistry`

Rows, the two files and the containers under all lifecycle operations. The
reading of the rows (`_state_from_db`) and the writing of a file are two steps,
since other operations run in between; a transaction has its own `view` of the
rows; `fresh[p]` says whether the row object an operation loaded still exists,
which decides what `runtime.save(update_fields=...)` and `runtime.delete()` do.
`Check` and `Import` are `import_json_state_if_empty`, which runs in front of every
operation. A runtime in `Legacy` may be named by the JSON state of an older
installation before the first import.

| property | says |
|---|---|
| `FilesAccounted` | a file differs from the rows only in entries an operation in progress is about to correct, or that a broken-off operation, a stale snapshot or the import left (`drift`) |
| `FilesHealed` | a create or delete that ends normally, with no other operation beside it, has made both files exact, whatever was wrong before |
| `UpFindsService` | an operation reaches `docker compose up` with its service in the compose file, unless it was overwritten or deleted by another |
| `StatusTruthful` | after an operation without a rival that reports success, the status tells whether the container is up, whatever happens to other runtimes |
| `TransactionAdds` | no committed row is lost when a transaction commits |

The operation `limits` is `update_runtime_limits` as the registry sees it: it saves
the whole row (`Overwrite`), the status it has `loaded` included, inserts a row
that was deleted meanwhile once more, and rewrites the mirror.

### `RuntimeLimits`

What a runtime may spend and with which model is written in four places, one
after the other: the row, the virtual key at LiteLLM, the env file, the gateway
container made from it. Budget, rpm and tpm are treated alike by the code and are
one column here, which may be null (`Unset`).

| code | actions |
|---|---|
| `update_runtime_limits` (1695-1726) | `LoadUpdate`, `Save` (every column of the object), `Lookup`, `Apply`, `Touch`, with a new model `WriteEnv`, `Up`, then `Log` |
| `sync_runtime_limits` (1729-1733) | `Load`, `Lookup`, `Apply`, `Touch`, `Log` |
| `create_or_update_runtime` (1454-1597), also through `rotate_runtime_key` | `LoadCreate`/`Load`, `Enter`, `Write`, `Drop`, `Store`, `WriteEnv`, `Up`, `Commit` |
| `upsert_runtime_secret` (2177-2219), of which only env file and container matter here | `Load`, `WriteEnv`, `Up`, `Log` |
| `start_runtime`, `recreate_runtime` | `Recreate` |
| an exception or kill; a lost answer of LiteLLM | `Fail` (with `Break`), `ApplyUnanswered` |

`obj[p]` is the Runtime object (or request) in an operation's memory, which is
what it writes back; `seen[p]` says whether the key it has looked up is still the
stored one; `Enforce` is `update_virtual_key`, which leaves a null limit out of
its payload. `trouble[r]` records what a broken-off operation has left apart
(`Owes`), or that two operations raced while one of them changed the row (`Rivals`,
`alone`); an operation that ends well and alone takes away what it repairs.

| property | says |
|---|---|
| `KeyFollowsRow` | LiteLLM enforces the row's limit and model, unless `trouble` or an operation at work accounts for it; so an update, a sync or a provisioning without a rival repairs everything |
| `GatewayFollowsRow` | the same of the env file and the gateway's model |

### `AgentLaunch`

Agents, deployments, and the runtime of each agent, as `launch_agent`,
`stop_agent`, `create_draft_agent` and `backfill_agents_from_runtimes` write them:

| code | actions |
|---|---|
| `get_agent` (706-709) with the backfill (913-961), in front of everything but a draft | `Request` (reads the runtimes), `Backfill` (one turn of the loop, `AddAgent` is its transaction), `BackfillDone`, `Load` |
| `create_draft_agent` (754-796) | `Draft` |
| `launch_agent` (816-874) | `Deploy`, `Mark`, `Enter`, `Provision` (the transaction of `create_or_update_runtime`), `SaveDeployment`, `SaveAgent` |
| `stop_agent` (877-890) with `stop_runtime` (1633-1641) | `Halt`, `SaveRuntime`, `SaveDeployment`, `SaveAgent` |
| operations on the runtime itself | `Direct` |
| an exception or kill | `Fail` |

`read[p]` is what the backfill read of the runtimes before it began to make
agents, `dep[p]` the deployment an operation works with, `ref[p]` whether that had
a `runtime_ref`. `trouble` is the set of agents whose status a failure, a race of
launch and stop or a `Direct` operation may have made wrong.

| property | says |
|---|---|
| `AgentTruthful` | a running agent has its container up and a running deployment, a stopped one has it down, none is launching without an operation at work; unless it is in `trouble` |
| `BackfillComplete` | after its backfill a look-up finds an agent for every runtime it has read, although other look-ups make agents at the same time |

### `AgentSpecs`

What `AgentLaunch` leaves out of an agent: the build spec's gateway port and its
skill bindings, which a launch reads three times. The two halves are about the same
requests and agents, which `AgentRequests` declares for both; their variables and
actions have names of their own, so that one module can extend the two.

| code | actions |
|---|---|
| `create_draft_agent` (754-796), one transaction, with `_next_agent_gateway_port` (656-658) | `DraftAgent` (takes the write lock), `DraftPort`, `DraftSpec` |
| `update_agent_build_spec` (1030-1074), statement by statement | `Save`; with `skill_keys` `SavePort`, `Clear`, one `Bind` per skill, `BindingsDone` |
| `launch_agent` (816-874) | `ReadSummary`, `CompilePrompt`, `Stack`, `ProvisionPort` |
| the runtime pages; `backfill_agents_from_runtimes` | `MakeRuntime`, `BackfillSpec` |
| pages and API handlers | `HomePage`, `AgentWizard`, `AgentsApi`, `Studio`, `BuildSpecApi`, `LaunchApi`, the disjuncts of `SpecRequest` |
| an exception or kill | `BreakOff` |

`earlier` relates agents by when their ports were set and `explicit` who was given one by
somebody; `broken` the agents whose bindings a failure or two updates at a time
have left incomplete; `mixed` the launches an update of the bindings overlapped.
The unique constraints on position and skill make `Bind` raise where a second
update has bound first.

| property | says |
|---|---|
| `PortsDistinct` | two agents share a port only when the one that got it last was given it, or was backfilled; and the runtimes of agents with default ports have different ports |
| `BindingsWhole` | the bindings are the skills last asked for, in their order, unless `broken` |
| `LaunchConsistent` | summary, prompt and skill stack of a launch name the same skills, unless `mixed` |

### `RuntimeChannels`

The two JSON columns of a runtime's row as sets of what is on, and the four other
places a change is written to. An operation is a sequence of steps (`Integrate`,
`Store`, `Unlink`, `SaveSkills`, `SaveLimits`, `Provision`, `Backfill` are the
sequences, `todo[p]` is what is left of one), so that each kind of step is one
action:

| code | sequence or action |
|---|---|
| `upsert_integration_connection` (2242-2310) | `Integrate`, `IntegrateAllowing` |
| `upsert_runtime_secret` (2177-2219) | `Store` |
| `delete_integration_connection_service` (2313-2329) | `Unlink` |
| `update_runtime_skills`, `update_runtime_limits` | `SaveSkills`, `SaveLimits` |
| `create_or_update_runtime`, also for a rotation | `Provision`: `Enter` (lock, `Resolved` columns) ... `Commit` |
| `backfill_runtime_related_records` | `Backfill` |
| reading the row; `runtime.save(update_fields)` | `Load`; `Save` with `Columns` |
| connection rows | `Connect`, `Disconnect`, `Relink`, `Test` |
| `upsert_secret`, `_write_runtime_env`, `docker compose up` | `StoreSecret`, `WriteEnv`, `Up` |
| a restart by Docker; an exception or kill | `Restart`, `Fail` |

`mine[p]` is the row object in memory, `stale[p]` whether the row has changed since.
`apart` and `trouble` record what an overlap, an old reading or a broken-off
operation has left different; the next operation that is alone repairs it.

| property | says |
|---|---|
| `GatewayFollowsRow` | the gateway serves the channels and the search of the committed row, up to `trouble` |
| `SecretsReachGateway` | the gateway has the newest of every secret, also of one stored while another operation re-created it |
| `ConnectionFollowsRow` | a connection and the row agree, up to `apart` |
| `OtherColumnKept` | (action) skills and deletions of channels leave the other column as it is now, not as it was read |

### `ProviderModels`

| code | actions |
|---|---|
| `upsert_provider_connection` (2549-2604), a transaction | `Enter`, `StoreKey`, ..., `Commit` |
| `delete_provider_connection_service`, `upsert_provider_model`, `set_provider_model_enabled`, `delete_provider_model_service` | `DeleteConnection` (with `Cascade`), `SaveModel`, `ToggleModel`, `DeleteModel` |
| `ensure_platform_provider_records` (1275-1314), in a backfill | `SeedConnection`, `Seed` |
| `regenerate_litellm_config` (2696-2736) | `ReadEnv`, `WriteEnv`, `ReadRows`, `WriteConfig` with `Render`, `Up` |
| `_reload_litellm_stack` (1233-1235); the container's entrypoint | `ComposeUp`; `Boots` |
| `orchestrator litellm bootstrap` (`cli.py`) | `Rotate`, `ReadEnv`, `WriteEnv`, `WriteConfig` |
| an exception or kill; Docker and the operator | `Fail`; `Restart`, `OperatorUp` |
| pages and API handlers | `ProvidersPage` ... `SecretApi`, the disjuncts of `Request` |

Rows are read by other requests as committed (`Committed`), the files have no such
protection. `trouble` records that the configuration was written from rows that
had changed since, or by an operation that rolled back, broke off, or regenerates
nothing, or that an older service token was written back over a newer one; `keyless` the connections that were saved without ever having had a key.

| property | says |
|---|---|
| `ConfigFollowsRows` | `config.yaml` lists what the committed rows say, up to `trouble` |
| `NoDangling` | no model names a connection that is gone |
| `SecretsBehindConfig` | a secret named in `config.yaml` exists, unless the connection is `keyless`; also after a rollback |
| `RotationReaches` | no container has secrets older than its token, however many bootstraps overlap, each writing the token of its own rotation; one with the env file's token runs with the secrets of the last rotation, unless a bootstrap has yet to write its token, broke off before that, or a regeneration wrote an older token back |

### `ChatSessions`

| code | actions |
|---|---|
| `create_chat_session` (2739-2741) | `CreateSession` |
| `send_chat_message` (2749-2777) | `StoreQuestion`, `RunAgent`, `StoreAnswer`, `Touch` |
| `reset_chat_session` (2780-2784) | `Reset` |
| `runtime.delete` in `delete_runtime_service`, Django's collector and its transaction | `Collect`, `Erase` (with `Cascade`, `Unreferenced`) |
| a creation under the same id | `CreateRuntime` |
| an exception or kill | `Fail` |

`cut` are the messages a reset met while their agent was at work, `failed` those the
operator was told of, or nobody could tell him of.

| property | says |
|---|---|
| `NoOrphans` | no message without its session, no session without its runtime, whatever is created during the deletion |
| `AnswerHasQuestion` | an answer stands alone only after a reset during the agent's work |
| `QuestionsAccounted` | a question stands alone only while it is answered or after a failure |
| `OwnAnswers` | a session holds answers of its own runtime only, though the name may be that of a later one |

### `RuntimeWizard`

The wizard's dictionary in the session, which a request reads when it begins and
writes when it answers, and the skill catalog its third step offers from.

| code | actions |
|---|---|
| `_update_wizard_state_from_post`, `_wizard_defaults`, `?reset=1` (`views.py` 128-211) | `Updated`, `Defaults`, `Reset` |
| the runtime wizard's handler (`views.py` 559-655) | `Visit`, `Post`, `Rebuild`, `Create`, then `Make` or `Fails`, then `Answer` or `Begin` |
| `create_or_update_runtime` as it concerns token and skills | `Provision` |
| `_skill_dependency_status`, `selected_skill_runtime_settings`, `bootstrap_internal_skill_catalog` | `Available`, `Selectable`, `Bootstrapped` |
| the admin's edits of the catalog; other requests that bootstrap | `EditCatalog`, `Bootstrap` |
| `POST /api/runtime-wizard/create` | `ApiCreate` |
| `update_runtime_skills` (483-496), of a runtime's page | `UpdateSkills` |
| `launch_agent` (816-863) with the skills its draft or update bound by their keys alone (787-789, 1071-1073) | `Launch` |
| a kill, or an exception that nobody catches | `Kill` |

`typed` is what the forms have said, `tangled` that tabs overlapped or a request was
killed, `kept` the tokens that stayed in the session for such a reason or because
a smoke test raised after the creation, `turned` the skills the operator turned off.

| property | says |
|---|---|
| `CreatedAsTyped` | what is created, and what the session holds, is what was typed, on any way through the steps and after failed creations, unless `tangled` |
| `TokenUsedOnce` | two runtimes share a bot token only when it was `kept` |
| `SkillsReviewed` | skills in the session, and those a creation or an update of a runtime's skills put in its stack (`stacked`), are active and reviewed, or were `turned` off since |
| `AgentsReviewed` | the same of the skills an agent's launch put in a stack (`launched`), as the design of the skills has it; violated |

## Runs

Each module has a type invariant `TypeOK` (`SpecTypeOK` in `AgentSpecs`). `keys` checks it by itself; elsewhere it is
the first conjunct of one of the module's invariants (`FilesAccounted`,
`KeyFollowsRow`, `AgentTruthful`, `PortsDistinct`, `ConnectionFollowsRow`, `NoDangling`,
`NoOrphans`, `CreatedAsTyped`).

All bounds are the sets and numbers in the `.cfg` files; there is no state
constraint. All runs pass but `agent_skills`, which shows a violation (see the findings).

| run | instance | shows |
|---|---|---|
| `keys` | 2 operations, 1 runtime, 3 keys | the safety properties of `RuntimeKeys`, the invariant used by the proofs, and the refinement of `KeyVault`. Three keys let one operation rotate while another is between its calls, and a third key be generated after that. |
| `keys_live` | as `keys` with 2 keys, fair, no symmetry | the lock is given back; a committed rotation leads to a gateway with the new key |
| `registry_files` | 2 operations, 2 runtimes, create/delete | differences between rows and files, with the first import; a create finds its service in the compose file; commits lose nothing; the files are repaired by what ends undisturbed |
| `registry_status` | 2 operations, 1 runtime, all operations | truthful status and accounted files, also when whole rows are saved |
| `limits` | 2 operations, 1 runtime, 2 limits and null, 2 models, all operations | row, key and gateway agree or the difference is accounted for |
| `agents` | 2 operations, 1 agent, 2 deployments, runtime operations | truthful agent status; a look-up finds an agent for the runtime it has read |
| `agent_specs` | 2 operations, 4 requests, 2 agents, 2 skills, ports up to 3 | distinct ports, whole bindings, consistent launches |
| `channels` | 2 operations, 2 requests, 2 channels, search, skills, 3 kinds of secrets | row, connections, secrets and gateway agree or the difference is accounted for |
| `providers` | 2 operations, 3 requests, 2 connections, 2 aliases, 3 rotations | configuration, rows and secrets agree or the difference is accounted for |
| `chat` | 2 operations, 2 sessions, 3 messages, the runtime made twice | which messages can be left alone |
| `wizard` | 2 tabs, 2 runtimes, 2 skills, 1 token, 1 accident | what is created is what was typed and reviewed, beside launches and updates |
| `agent_skills` | as `wizard`, an external skill bound to an agent | violation: the launch brings an unreviewed skill to a runtime |

One runtime is enough for `keys`, `limits` and `channels`, whose operations touch
their own runtime only and share with others no more than the write lock; the
proofs cover any number. Two operations are enough for the races in this code, which
are all between a value read and used by one operation and one change by another;
three would only repeat them. Symmetry is used for values that are
interchangeable (operations, runtimes, keys, agents, skills, tabs), and not with
liveness.

The numeric bounds:

- `MaxDeployments` (`AgentLaunch`): two launches let one follow another that broke
  off, or run beside it; only the current deployment is ever read again.
- `MaxRequests`: in `RuntimeChannels` two, which overlap or follow one another from
  any of two initial rows (all off, all on), since `Test` and `Restart` are not
  counted; in `ProviderModels` three, so that a change can follow two that raced; in
  `AgentSpecs` four, as a draft, a draft, an update and a launch. `agent_specs` ends
  when they are used up and does not check for deadlock; the other runs do.
- `MaxRotations` three: one beside a rotation whose token is still to be written, and one
  after them, so that an older token can be written last.
- `MaxAsks` three and `MaxRuntimes` two: a message before, during and after a reset, and
  a runtime made again while an agent is at work. The deletion of the last
  runtime the bound allows is left out.
- `MaxPort` three, `MaxChosen` two, `MaxKeys` two: two defaults next to one chosen port, two
  bindings whose order matters. The default of the highest port is 0 instead of 3009.
- `MaxTokens` one, `MaxAccidents` one, `MaxTurned` one: one token that could reach two
  runtimes, one overlap or kill, and one skill that is turned off. `Bound`, the skills of
  agents: none in `wizard`, where what is launched bears on nothing that is checked, and
  the external one in `agent_skills`. The proofs are about any.

### Exceptions of the invariants

The code has no retries and no locks of its own, so most promises hold only up to
what a failure or a race leaves behind. Each exception is a history variable
(`strays`, `debt`, `drift`, `trouble`, `apart`, `broken`, `mixed`, `cut`, `tangled`,
`kept`) that only the steps named in its comments set and that repairing
operations clear, so that a property fails as soon as any other step causes the
damage. Some of these exceptions are more than the documentation allows for:

- `knowledge/orchestrator.md:131`: "JSON state continues to be rewritten from DB after
  runtime mutations". A create that fails leaves a runtime in `runtimes.json` that
  the rollback has removed from the database (`drift`).
- `knowledge/orchestrator.md:129`: "DB rows back the UI and JSON API". A request
  between the deletion of the last row and the rewriting of `runtimes.json` imports
  the deleted runtime again (`drift`).
- `knowledge/controlplane.md:330`: "`Update limits` now persists DB state and
  immediately applies the LiteLLM virtual-key update". Of two updates, the one
  that saves last may be the one LiteLLM hears first (`trouble` of `RuntimeLimits`).
- `knowledge/orchestrator.md:207`: "updating the runtime model alias also rewrites the
  runtime bootstrap env and recreates the runtime container". The retry of an update
  that broke off behind its `save` finds the model in the row already and does
  not re-create the container (`trouble` of `RuntimeLimits`).
- A stop after a launch that raised reports success without stopping anything: the
  failed launch left its deployment without a `runtime_ref` (`trouble` of `AgentLaunch`).
- `orchestrator litellm bootstrap` writes `config.yaml` with the default model alone, and
  a backfill changes rows without regenerating it (`trouble` of `ProviderModels`).

### Findings

The design of the skills, `docs/superpowers/specs/2026-05-07-agent-operator-skills-design.md`,
line 47, has "`quarantine`: imported but not enabled for agents.", and lines 191 and 204 that
such a skill cannot be selected. The wizard, the API's `skill_keys` and the pages of a
runtime go through `selected_skill_runtime_settings`, which asks for status and trust.
Agents do not: `create_draft_agent` (788) and `update_agent_build_spec` (1072) look the
skill up by its key, and `launch_agent` (857) hands the bound keys to
`create_or_update_runtime` within `settings`, where nothing is asked. The run
`agent_skills` shows it in one step: the launch of an agent with an external skill
puts it in the stack of a runtime, though nobody has reviewed it (`AgentsReviewed`).

## Fairness

Only `RuntimeKeys` states fairness. `RuntimeKeys!Fairness`: an operation that has begun
takes its next step or fails (HTTP calls carry `timeout=20`, SQLite waits at most
20 s; `docker` and `infisical` are run without a timeout and are assumed to return),
and Docker keeps restarting a gateway until it boots (`restart: unless-stopped`).
No operator is assumed to issue any request, and no failure is excluded: the
liveness properties hold although every step may fail.

The other modules have no liveness property. Nothing in them happens by itself:
every repair is an operator's next request, which no scheduling of the code
promises, and an agent that answers a chat message is run without a timeout.

## Proofs

Every safety invariant and every action property that a run checks is also a theorem
that TLAPS has proved for all values of the constants: any sets of operations,
runtimes, keys, agents, skills or tabs, and any bounds on requests, rotations, ports
or messages. The assumptions are those the modules state (`NullAssumption`,
`OpsAssumption`, `LimitsAssumption`, `LaunchAssumption`, `SpecAssumption`,
`ChannelAssumption`, `ProviderAssumption`, `ChatAssumption`, `WizardAssumption`): null
values differ from what they stand in for, bounds are natural numbers, and the sets
of channels, secrets and kinds of operations are those of the code. TLC
evaluates them in the runs.

Each proof module has one inductive invariant (`IInv`; `SpecIInv` for `AgentSpecs`), one
lemma per group of actions in which every conjunct of it has a step, a theorem
`Invariance` (`SpecInvariance`) that it always holds, and the properties as
consequences. Each inductive invariant was checked by TLC on an instance of the
runs (that of `AgentLaunch` also on one with two agents, that of `RuntimeWizard` with a
skill for agents) before it was proved; the number of distinct states is given below.

| module | theorems | states |
|---|---|---|
| `RuntimeKeysProofs` | type correctness, `LiveKeysAccounted`, `StoredKeyLive`, `GatewayCurrent`, `ProvisionSerial`, `RotationHolds`, `RevokeVerified`, the refinement of `KeyVault`, and through it `KeysPrivate` (a runtime stores and uses its own keys only) and `KeysFinal` (a key keeps its owner, and a rejected key is dead for good), which are proved of `KeyVault` and carried over | in the run `keys`; the last two follow from the refinement |
| `RuntimeRegistryProofs` | `FilesAccounted`, `UpFindsService`, `StatusTruthful`, `TransactionAdds`, `FilesHealed` | 162,203 and 2,147,742 |
| `RuntimeLimitsProofs` | `KeyFollowsRow`, `GatewayFollowsRow` | 342,246 |
| `AgentLaunchProofs` | `AgentTruthful`, `BackfillComplete` | 1,148,662 and 657,120 |
| `AgentLaunchProofs`, second part | `PortsDistinct`, `BindingsWhole`, `LaunchConsistent` of `AgentSpecs` | 2,059,728 |
| `RuntimeChannelsProofs` | `GatewayFollowsRow`, `SecretsReachGateway`, `ConnectionFollowsRow`, `OtherColumnKept` | 3,007,382 |
| `ProviderModelsProofs` | `ConfigFollowsRows`, `NoDangling`, `SecretsBehindConfig`, `RotationReaches` | 555,387 |
| `ChatSessionsProofs` | `NoOrphans`, `AnswerHasQuestion`, `OwnAnswers`, `QuestionsAccounted` | 538,106 |
| `RuntimeWizardProofs` | `CreatedAsTyped`, `TokenUsedOnce`, `SkillsReviewed` | 2,454,580 |

`AgentLaunchProofs` extends both halves of an agent; the definitions about `AgentSpecs` begin
with `Spec`.

What the inductive invariants add to the properties, and why:

- `RuntimeKeys`: that `Store` loses no live key (`LiveKeysAccounted`) needs the key it
  overwrites to be dead or a stray (`OldKeyHandled`); for this no other transaction may
  have stored a key since (`ProvisionSerial`), and the key that was read must be this
  runtime's (`Ownership`); and a concurrent revoke must not know the new key before
  it is stored (`NewKeyPrivate`), which also makes the vault's `Keep` possible.
- `RuntimeRegistry`: at the commit the rows jump to the view, so the files have to be
  accounted for against both (`RowsAccounted`, `ViewAccounted`), and the view may
  differ by additions only (`Transaction`), which also gives `TransactionAdds`. A status
  is true because an operation without a rival finds the container where it put it
  (`ContainerKnown`), and nothing but look-ups is at work on a settled runtime
  (`Quiet`). `FilesHealed` needs what the only operation there is has read and
  written so far (`SoloKnown`).
- `RuntimeLimits`: an operation without a rival (`Exclusive`) still has the row in its
  memory (`RowLoaded`), has told LiteLLM about the stored key and no other (`KeyMade`), and
  has put its model into file and gateway (`GatewayMade`), so that at its end the trouble
  can be taken back. `ViewKept` carries this over the commit.
- `AgentLaunch`: a current deployment without a `runtime_ref` is that of a launch at work
  or trouble (`RefKnown`), or else a stop would be skipped; what a look-up has read of a
  runtime without an agent is still true (`ReadTrue`), since only an agent's operations
  and `Direct` ones change a runtime; and a look-up's list of runtimes shrinks only by
  agents made (`Looking`).
- `AgentSpecs`: the default a draft has chosen is above all ports until it gives up the
  lock (`Drafted`), which needs that `_next_agent_gateway_port` takes the largest one; the
  ports of runtimes and launches are those of the build specs (`PortsUsed`). An update
  at work has bound a prefix of its skills (`BindingsKnown`). That a `Listing` in the order
  of positions exists and is unique is proved by taking the least of a set of numbers.
- `RuntimeChannels`: where an operation stands is a sequence of steps left, so `Flow` lists
  the sequences that occur. Each copy is up to date or somebody has yet to pass it on
  (`EnvKept`, `GatewayLags`, `SecretsLag`); who saved before a transaction began
  knows it (`Overtaken`); connections and row are in order as committed (`InOrder`), which a
  transaction may break only for itself (`Aside`, `Noticed`).
- `ProviderModels`: entries about to be written name secrets that exist (`NamedRead`);
  what a writer of `config.yaml` holds is what the rows say unless they changed (`RowsRead`),
  and a transaction's own rows are in the file when it commits (`OwnConfig`); the token a
  bootstrap has yet to write is its own, in no file, container or other operation
  (`Fresh`), so that whichever of two overlapping ones writes last, no container
  has what it writes.
- `ChatSessions`: the session a request has read is its runtime's, or is gone for
  good (`Reading`), because ids are not used again (`IdsTaken`); the question is stored beside
  where the answer goes unless a reset cut it off (`Asking`), and the agent that
  answers is that session's (`Answering`).
- `RuntimeWizard`: unless tabs overlapped, the dictionary is with one request or in the
  session (`Drafted`); the token of a runtime is nowhere but in requests about to begin
  anew (`Spent`), and two requests share a token only if it was kept (`Unshared`).

### Undisturbed operation

Most invariants have exceptions for accidents, and an invariant with too many
exceptions says nothing. A second theorem in each proof module shows that they
are no excuse: without an accident the copies agree outright. It restricts the
specification's next-state relation to steps that are no accident (`CalmNext` or
`SerialNext`, whose steps are steps of `Next`), and proves that every behaviour
of these satisfies a plain agreement without exceptions (`AtRest`). The argument is
short where the histories are known to stay empty and the invariant above does the
rest; in `RuntimeRegistry` and `AgentLaunch` agreement says more than the
properties do, and has an inductive invariant of its own (`SerialInv`,
`CalmInv`). TLC has checked each beforehand; the numbers of distinct states show that
the restricted behaviours are many.

| theorem | assumed | shown | states |
|---|---|---|---|
| `RuntimeKeysProofs!UndisturbedAgrees` | one operation at a time on a runtime, LiteLLM and Infisical answer, and nothing breaks off where it leaves a key undone | of the keys made for a runtime nobody is at, LiteLLM accepts the stored one and no other, and a running gateway has it | 16,899 |
| `RuntimeRegistryProofs!UndisturbedAgrees` | one operation at a time, which ends or is refused by its look-up | whenever none is at work, database, `runtimes.json` and compose file name the same runtimes (or there are only those of an older installation, not imported yet), and every status is that of the container | 1,815 |
| `RuntimeLimitsProofs!UndisturbedAgrees` | no operation with a rival, none breaks off while it owes something | key, env file and gateway follow the row of every runtime nobody is at | 10,152 |
| `RuntimeChannelsProofs!UndisturbedAgrees` | one operation at a time, of which only harmless ones break off; no wizard drops what is on, no search form is without a provider | env file, gateway, secrets and connections follow the row | 320,387 |
| `AgentLaunchProofs!UndisturbedAgrees` | no launch meets a stop of the same agent, none breaks off once begun, nobody goes past the agents | agent, deployment, runtime and container agree on every agent nobody is at | 7,316 and 44,558 |
| `AgentLaunchProofs!SpecUndisturbedAgrees` | no update of the bindings meets another or a launch of the same agent, none breaks off between its bindings | the bindings are those asked for, and a launch names one set of skills | 1,453,467 |
| `ChatSessionsProofs!UndisturbedAgrees` | a message that is stored fails only when its session is gone; no reset meets one on its way | every session without a message on its way has an answer for each question and a question for each answer, whatever becomes of other sessions and runtimes | 22,857 |
| `RuntimeWizardProofs!UndisturbedAgrees` | one request at a time, which is answered; no smoke test fails, no skill is turned off | the session says what was typed, a token goes to one runtime, all skills in the session, or put in a stack by a creation or an update, are reviewed | 20,620 |
| `ProviderModelsProofs!SerialRepairs` | one operation at a time, but any of them may fail, and backfills and bootstraps are allowed | each change of the rows that comes to its end leaves a `config.yaml` that lists them, each bootstrap an env file with the last token, whatever broke before | 96,139 |

The last is of another kind, since a backfill and a bootstrap leave `config.yaml` behind the
rows by design: it is the repair that the comment of `ConfigFollowsRows` promises.
What the assumptions exclude is what the exceptions name. They also show what the code
relies on its operators for: that they wait for one operation on a runtime before
the next, and repeat one that failed.

Only model-checked is liveness (`LockReleased`, `RotationRefreshes`): it needs fairness and
`ENABLED`, which the prover does not support. No module uses a recursive operator.
Whether the refinement mappings and histories say what they should, and that the
actions are those of the code, is a matter of reading, for which `PROJECT.json` names the
lines of every definition.

## Plan

Done: all modules above, the proofs of all their safety properties, and the agreement of
undisturbed operation. What is left is the rendering of a gateway's configuration by the
entrypoint scripts, as operators.

## Not modelled, and why

- Workspace secrets: `ensure_workspace` with its backend, `upsert_workspace_secret` and
  `_resolve_workspace_secret` call the Infisical client with arguments its functions do
  not take. Every call raises a `TypeError` before anything is stored; an agent
  whose Telegram token is such a secret cannot be launched.
- A caller of the API may put a `skill_stack` of its own into `settings` when it creates a
  runtime; `RuntimeWizard` follows the skills that are named by `skill_keys`.
- Diagnostics and probes read Docker, LiteLLM and Infisical and write a
  snapshot nobody acts on; `test_provider_connection` likewise writes a status nothing
  reads. (`test_integration_connection` is modelled, since its status is read back.)
- What pages show, the parsing and formatting of the handlers and of the CLI's other
  commands: they call the service layer, and their concurrency is what the
  modules call operations.
- The runtimes' references to their default provider connection and model, set to
  NULL when these go.
- Secret references (`RuntimeSecretRef`): stamps and errors of the last test.
- Sign-in trusts a header set by the reverse proxy and keeps no state of its own.
- Personality presets and skill manifests are data; the validation of a manifest
  compares it with a schema. The stacks of LiteLLM, Infisical, monitoring and the
  perimeter are configuration of other programs, except the LiteLLM container itself.
- The rendering of a gateway's configuration by the shell scripts; that a gateway reads
  its key when it boots and exits without one is in `RuntimeKeys`.
- Migrations create the tables; the constraints they set up are in the modules.
- Service tokens accumulate (one per create), but nothing reads them back.
- Behaviour of the code that no invariant is stated against, since the code and its
  documents promise nothing about it: a launch replaces the settings and channels
  of the runtime it provisions (854); a draft looks up the key of a skill only, not its
  status or trust (788); the first Slack secret switches the channel on and the
  gateway exits until the others are there (2190); `docker compose up -d` re-creates
  LiteLLM for a new env, not for a new `config.yaml` or provider key alone (1235, in
  `ComposeUp`); the bootstrap of the CLI takes any error of the look-up for a
  missing master key and makes a new one (`cli.py` 484); `run` has no timeout
  (`shell.py` 22). Line numbers are of `service_layer.py` unless said otherwise.
- The value of a secret that is stored again: every provisioning with Telegram on
  stores the default list of allowed senders, which `RuntimeChannels` counts as one more
  storing.
- A file is written in one step: a torn `runtimes.json` (a crash inside
  `write_text`) makes the next import raise, and is left out.
- `delete_secret` recognises a missing secret by "404" in the error text; it is
  modelled by what the test means.
