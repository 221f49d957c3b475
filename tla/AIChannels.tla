----------------------------- MODULE AIChannels -----------------------------
(* Administration of AI providers ("channels") and their models, the model    *)
(* each agent uses, and the embedding model of the resource search:           *)
(* internal/application/adminaiconfig and                                     *)
(* internal/adapter/postgres/admin_ai_config_repository.go,                    *)
(* admin_embedding_repository.go. Credentials, capabilities and generation     *)
(* parameters are reduced to the revision (updated_at) of the row.            *)
EXTENDS Naturals, FiniteSets

CONSTANTS
  Providers, Models,   \* identifiers of rows; a deleted row never comes back
  Keys,                \* logical model names
  Operators,           \* administrators whose requests overlap
  Nil,                 \* stands for NULL
  MaxRevision          \* bound on updates of one row

ASSUME ChannelAssumption == Nil \notin Models \cup Keys /\ MaxRevision \in Nat

VARIABLES
  providers,     \* rows of llm_providers
  models,        \* rows of llm_models
  agentConfig,   \* the agent's row of agent_model_configs
  embedding,     \* the active row of embedding_model_versions
  operators,     \* the request each administrator has in progress
  overlapped     \* ghost: two requests that choose a default have overlapped

channelVars == <<providers, models, agentConfig, embedding, operators, overlapped>>

NoModel == [state |-> "none", provider |-> Nil, key |-> Nil, active |-> FALSE,
            default |-> FALSE, code |-> 0, rev |-> 0]
NoEmbedding == [model |-> Nil, code |-> 0, modelRev |-> 0, providerRev |-> 0]
NoConfig == [set |-> FALSE, key |-> Nil, model |-> Nil]
Rest == [doing |-> "nothing", model |-> Nil, flag |-> FALSE, snapshot |-> NoEmbedding]

ChannelInit ==
  /\ providers = [p \in Providers |-> [state |-> "none", active |-> FALSE, rev |-> 0]]
  /\ models = [m \in Models |-> NoModel]
  /\ agentConfig = NoConfig /\ embedding = NoEmbedding
  /\ operators = [o \in Operators |-> Rest] /\ overlapped = FALSE

ModelsOf(p) == {m \in Models : models[m].state = "live" /\ models[m].provider = p}
DefaultsOf(p) == {m \in ModelsOf(p) : models[m].default}
ChannelUp(p) == providers[p].state = "live"
Bumped(row) == [row EXCEPT !.rev = IF row.rev < MaxRevision THEN row.rev + 1 ELSE row.rev]
MayBump(row) == row.rev < MaxRevision
Free(o) == operators[o].doing = "nothing"
Working(o, doing) == operators[o].doing = doing
Choosing == {o \in Operators : operators[o].doing \in {"creating", "setting", "cleared"}}
BeginChoosing == overlapped' = (overlapped \/ Choosing # {})
Becomes(o, x) == operators' = [operators EXCEPT ![o] = x]

\* embeddingModelIsActive and providerHasActiveEmbedding
EmbeddingUses(m) == embedding.model = m
ProviderInUse(p) == \E m \in ModelsOf(p) : EmbeddingUses(m)

-----------------------------------------------------------------------------
CreateProvider(p) ==
  /\ providers[p].state = "none"
  /\ \E on \in BOOLEAN :
       providers' = [providers EXCEPT ![p] = [state |-> "live", active |-> on, rev |-> 0]]
  /\ UNCHANGED <<models, agentConfig, embedding, operators, overlapped>>

UpdateProvider(p) ==
  /\ ChannelUp(p) /\ MayBump(providers[p])
  /\ \E on \in BOOLEAN : providers' = [providers EXCEPT ![p] = Bumped([@ EXCEPT !.active = on])]
  /\ UNCHANGED <<models, agentConfig, embedding, operators, overlapped>>

(* The models go with their provider; the rows that name them are set to NULL. *)
Unlinked(gone) == IF agentConfig.model \in gone THEN [agentConfig EXCEPT !.model = Nil]
                  ELSE agentConfig
WithoutModels(gone) ==
  [m \in Models |-> IF m \in gone THEN [NoModel EXCEPT !.state = "gone"] ELSE models[m]]
DeleteProvider(p) ==
  /\ ChannelUp(p) /\ ~ ProviderInUse(p)
  /\ providers' = [providers EXCEPT ![p] = [state |-> "gone", active |-> FALSE, rev |-> 0]]
  /\ models' = WithoutModels(ModelsOf(p))
  /\ agentConfig' = Unlinked(ModelsOf(p))
  /\ UNCHANGED <<embedding, operators, overlapped>>

-----------------------------------------------------------------------------
NewModel(p, k, on, isDefault) ==
  [state |-> "live", provider |-> p, key |-> k, active |-> on, default |-> isDefault,
   code |-> 0, rev |-> 0]
(* The first model of a provider becomes its default: the count is read in the *)
(* transaction that inserts, without a lock.                                  *)
CreateModelCounts(o, m, p) ==
  /\ Free(o) /\ models[m].state = "none" /\ ChannelUp(p)
  /\ \A x \in Operators : operators[x].model # m
  /\ \E asked \in BOOLEAN :
       Becomes(o, [Rest EXCEPT !.doing = "creating", !.model = m,
                               !.flag = asked \/ ModelsOf(p) = {}])
  /\ models' = [models EXCEPT ![m].provider = p]
  /\ BeginChoosing
  /\ UNCHANGED <<providers, agentConfig, embedding>>
CreateModelInserts(o) ==
  /\ Working(o, "creating")
  /\ LET m == operators[o].model
         p == models[m].provider
         demoted == [x \in Models |-> IF operators[o].flag /\ x \in ModelsOf(p)
                                        THEN Bumped([models[x] EXCEPT !.default = FALSE])
                                        ELSE models[x]]
     IN  \E k \in Keys, on \in BOOLEAN :
           models' = IF ChannelUp(p)
                       THEN [demoted EXCEPT ![m] = NewModel(p, k, on, operators[o].flag)]
                       ELSE [models EXCEPT ![m] = NoModel]
  /\ Becomes(o, Rest)
  /\ UNCHANGED <<providers, agentConfig, embedding, overlapped>>

(* A model that embeds the resources keeps the name its provider knows it by.   *)
UpdateModel(m) ==
  /\ models[m].state = "live" /\ MayBump(models[m])
  /\ \E k \in Keys, on \in BOOLEAN, c \in {0, 1} :
       /\ c # models[m].code => ~ EmbeddingUses(m)
       /\ models' = [models EXCEPT ![m] = Bumped([@ EXCEPT !.key = k, !.active = on, !.code = c])]
  /\ UNCHANGED <<providers, agentConfig, embedding, operators, overlapped>>

(* A deleted default is followed by one of the active models, if there is one.  *)
DeleteModel(m) ==
  /\ models[m].state = "live" /\ ~ EmbeddingUses(m)
  /\ LET p == models[m].provider
         heirs == {x \in ModelsOf(p) \ {m} : models[x].active}
         kept == WithoutModels({m})
     IN  IF models[m].default /\ heirs # {}
           THEN \E h \in heirs : models' = [kept EXCEPT ![h] = Bumped([@ EXCEPT !.default = TRUE])]
           ELSE models' = kept
  /\ agentConfig' = Unlinked({m})
  /\ BeginChoosing
  /\ UNCHANGED <<providers, embedding, operators>>

(* SetDefaultModel is three statements, outside of a transaction.               *)
SetDefaultReads(o, m) ==
  /\ Free(o) /\ models[m].state = "live" /\ MayBump(models[m])
  /\ Becomes(o, [Rest EXCEPT !.doing = "setting", !.model = m])
  /\ BeginChoosing
  /\ UNCHANGED <<providers, models, agentConfig, embedding>>
SetDefaultClears(o) ==
  /\ Working(o, "setting")
  /\ LET p == models[operators[o].model].provider
     IN  models' = [x \in Models |-> IF x \in ModelsOf(p)
                                       THEN Bumped([models[x] EXCEPT !.default = FALSE])
                                       ELSE models[x]]
  /\ Becomes(o, [operators[o] EXCEPT !.doing = "cleared"])
  /\ UNCHANGED <<providers, agentConfig, embedding, overlapped>>
SetDefaultSets(o) ==
  /\ Working(o, "cleared")
  /\ LET m == operators[o].model
     IN  models' = IF models[m].state = "live"
                     THEN [models EXCEPT ![m] = Bumped([@ EXCEPT !.default = TRUE, !.active = TRUE])]
                     ELSE models
  /\ Becomes(o, Rest)
  /\ UNCHANGED <<providers, agentConfig, embedding, overlapped>>

(* ReplaceProviderModels: the list an administrator saves. What is kept stays    *)
(* the same row; the default is kept if it is in the list, else a listed model  *)
(* takes its place. The list may not drop the model that embeds.               *)
ReplaceProviderModels(p, list, k) ==
  /\ ChannelUp(p)
  /\ list \subseteq ModelsOf(p) \cup {m \in Models : models[m].state = "none"
                                       /\ \A o \in Operators : operators[o].model # m}
  /\ \A m \in ModelsOf(p) \ list : ~ EmbeddingUses(m)
  /\ LET kept == list \cap DefaultsOf(p)
         Row(m, d) == IF m \in ModelsOf(p)
                        THEN Bumped([models[m] EXCEPT !.active = TRUE, !.default = (m = d), !.key = k])
                        ELSE NewModel(p, k, TRUE, m = d)
     IN  \E d \in IF kept # {} THEN kept ELSE IF list # {} THEN list ELSE {Nil} :
           models' = [m \in Models |-> IF m \in list THEN Row(m, d)
                                       ELSE WithoutModels(ModelsOf(p))[m]]
  /\ agentConfig' = Unlinked(ModelsOf(p) \ list)
  /\ BeginChoosing
  /\ UNCHANGED <<providers, embedding, operators>>

-----------------------------------------------------------------------------
\* ListRuntimeCandidates: the active models of a name on active providers
RuntimeCandidates(k) ==
  {m \in Models : models[m].state = "live" /\ models[m].key = k /\ models[m].active
                    /\ providers[models[m].provider].active}

(* UpdateAgentConfig picks a representative of the name it has read; the model   *)
(* may be gone when the row is written, and then the write is refused.          *)
AgentConfigReads(o, k) ==
  /\ Free(o)
  /\ \E m \in RuntimeCandidates(k) : Becomes(o, [Rest EXCEPT !.doing = "mapping", !.model = m,
                                       !.snapshot = [NoEmbedding EXCEPT !.model = k]])
  /\ UNCHANGED <<providers, models, agentConfig, embedding, overlapped>>
AgentConfigWrites(o) ==
  /\ Working(o, "mapping")
  /\ agentConfig' = IF models[operators[o].model].state = "live"
                      THEN [set |-> TRUE, key |-> operators[o].snapshot.model,
                            model |-> operators[o].model]
                      ELSE agentConfig
  /\ Becomes(o, Rest)
  /\ UNCHANGED <<providers, models, embedding, overlapped>>
DeleteAgentConfig ==
  /\ agentConfig.set
  /\ agentConfig' = NoConfig
  /\ UNCHANGED <<providers, models, embedding, operators, overlapped>>

-----------------------------------------------------------------------------
Source(m) == [model |-> m, code |-> models[m].code, modelRev |-> models[m].rev,
              providerRev |-> providers[models[m].provider].rev]
Usable(m) == models[m].state = "live" /\ models[m].active /\ providers[models[m].provider].active

(* The embedding model is tried out on what the rows say, with no lock held; the *)
(* transaction that activates it takes the activation lock and compares.        *)
ProbeEmbedding(o, m) ==
  /\ Free(o) /\ Usable(m)
  /\ Becomes(o, [Rest EXCEPT !.doing = "probing", !.model = m, !.snapshot = Source(m)])
  /\ UNCHANGED <<providers, models, agentConfig, embedding, overlapped>>
\* mutant: only asks whether the model can still be used
SourceUsable(s) == Usable(s.model)

SourceUnchanged(s) == Usable(s.model) /\ Source(s.model) = s
ActivateEmbedding(o) ==
  /\ Working(o, "probing")
  /\ embedding' = IF SourceUnchanged(operators[o].snapshot) THEN operators[o].snapshot ELSE embedding
  /\ Becomes(o, Rest)
  /\ UNCHANGED <<providers, models, agentConfig, overlapped>>
GiveUpRequest(o) ==
  /\ ~ Free(o)
  /\ Becomes(o, Rest)
  /\ models' = IF Working(o, "creating") THEN [models EXCEPT ![operators[o].model] = NoModel] ELSE models
  /\ UNCHANGED <<providers, agentConfig, embedding, overlapped>>

\* GetActiveEmbeddingRuntimeCandidate: what embeds resources right now
EmbeddingServed == embedding.model # Nil /\ SourceUnchanged(embedding)

ChannelNext ==
  \/ \E p \in Providers : CreateProvider(p) \/ UpdateProvider(p) \/ DeleteProvider(p)
  \/ \E o \in Operators, m \in Models, p \in Providers : CreateModelCounts(o, m, p)
  \/ \E m \in Models : UpdateModel(m) \/ DeleteModel(m)
  \/ \E p \in Providers, list \in SUBSET Models, k \in Keys : ReplaceProviderModels(p, list, k)
  \/ \E o \in Operators, m \in Models : SetDefaultReads(o, m) \/ ProbeEmbedding(o, m)
  \/ \E o \in Operators, k \in Keys : AgentConfigReads(o, k)
  \/ \E o \in Operators : \/ CreateModelInserts(o) \/ SetDefaultClears(o) \/ SetDefaultSets(o)
                          \/ AgentConfigWrites(o) \/ ActivateEmbedding(o) \/ GiveUpRequest(o)
  \/ DeleteAgentConfig
ChannelSpec == ChannelInit /\ [][ChannelNext]_channelVars

-----------------------------------------------------------------------------
ChannelTypeOK ==
  /\ providers \in [Providers -> [state : {"none", "live", "gone"}, active : BOOLEAN, rev : 0..MaxRevision]]
  /\ models \in [Models -> [state : {"none", "live", "gone"}, provider : Providers \cup {Nil},
                            key : Keys \cup {Nil}, active : BOOLEAN, default : BOOLEAN,
                            code : {0, 1}, rev : 0..MaxRevision]]
  /\ agentConfig.model \in Models \cup {Nil} /\ embedding.model \in Models \cup {Nil}
  /\ overlapped \in BOOLEAN

(* The model that embeds the resources keeps its row, its provider and the name  *)
(* it was verified with, whatever is deleted, saved or edited while an           *)
(* activation is on its way, so that stored vectors never lose their source.    *)
EmbeddingKeepsItsSource ==
  embedding.model # Nil =>
    /\ models[embedding.model].state = "live"
    /\ models[embedding.model].code = embedding.code
    /\ ChannelUp(models[embedding.model].provider)

(* A provider has at most one default model, unless two requests that choose a   *)
(* default overlapped: CreateModel counts and SetDefaultModel clears with no     *)
(* lock, and then two defaults can remain.                                     *)
OneDefaultModel == ~ overlapped => \A p \in Providers : Cardinality(DefaultsOf(p)) <= 1

ChannelsHold == EmbeddingKeepsItsSource /\ OneDefaultModel

(* An activation never takes effect for a source that changed after it was tried.*)
ActivatedAsProbed ==
  [][embedding' # embedding => /\ Usable(embedding'.model) /\ Source(embedding'.model) = embedding']_channelVars
=============================================================================
