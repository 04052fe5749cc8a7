--------------------------- MODULE MigrationChain ---------------------------
(* The revisions 0001 to 0022 under alembic/versions: what upgrade() and
   downgrade() of each do, operation by operation.  A revision that creates
   many tables is given in parts. *)
EXTENDS SchemaOps

(* The values of "algorithm": the one 0007 allows, and those 0015 allows
   (_SUPPORTED_ALGORITHMS; one stands for the thirteen that were added) *)
LegacyAlgorithms == {"random_forest"}
Algorithms == {"random_forest", "xgboost"}

(* 0001: Create users and refresh tokens. *)
Up0001 == <<
    CreateTable("users", {}, {}),
    CreateTable("refresh_tokens", {Cascading("user_id", "users")}, {}) >>

Down0001 == <<
    DropTable("refresh_tokens"),
    DropTable("users") >>

(* 0002: Create manufacturing domain tables. *)
Up0002 == <<
    CreateTable("companies", {}, {}),
    CreateTable("factories", {Restricting("company_id", "companies")}, {}),
    CreateTable("machines", {Restricting("factory_id", "factories")}, {}) >>

Down0002 == <<
    DropTable("machines"),
    DropTable("factories"),
    DropTable("companies") >>

(* 0003: Create sensors. *)
Up0003 == <<
    CreateTable("sensors", {Restricting("machine_id", "machines")}, {}) >>

Down0003 == <<
    DropTable("sensors") >>

(* 0004: Create sensor data platform. *)
Up0004 == <<
    CreateTable("upload_jobs", {Restricting("created_by", "users")}, {}),
    CreateTable("sensor_readings",
        {Restricting("batch_id", "upload_jobs"), Restricting("sensor_id", "sensors")},
        {}) >>

Down0004 == <<
    DropTable("sensor_readings"),
    DropTable("upload_jobs") >>

(* 0005: Create MLOps foundation tables. *)
Up0005 == <<
    CreateTable("experiments", {Restricting("created_by", "users")}, {}),
    CreateTable("training_runs",
        {Cascading("experiment_id", "experiments")},
        {}),
    CreateTable("model_artifacts",
        {Cascading("training_run_id", "training_runs")},
        {}) >>

Down0005 == <<
    DropTable("model_artifacts"),
    DropTable("training_runs"),
    DropTable("experiments") >>

(* 0006: Add persistent AI training jobs and promotion audits. *)
TrainingJobTables == <<
    CreateTable("training_jobs",
        {Restricting("requested_by_user_id", "users")},
        {{"requested_by_user_id", "algorithm", "task_type", "idempotency_key"}}) >>

PromotionAuditTables == <<
    CreateTable("model_promotion_audits",
        {Restricting("requested_by_user_id", "users")},
        {}) >>

Up0006 == TrainingJobTables \o PromotionAuditTables

Down0006 == <<
    DropTable("model_promotion_audits"),
    DropTable("training_jobs") >>

(* 0007: Add prediction events and exact-version reference profiles. *)
Up0007 == <<
    CreateTable("prediction_events",
        {Restricting("requested_by_user_id", "users")},
        {}),
    AddCheck("prediction_events", "algorithm", LegacyAlgorithms),
    CreateTable("model_reference_profiles",
        {Restricting("training_job_id", "training_jobs")},
        {{"registered_model_name", "model_version"}}),
    AddCheck("model_reference_profiles", "algorithm", LegacyAlgorithms) >>

Down0007 == <<
    DropTable("model_reference_profiles"),
    DropTable("prediction_events") >>

(* 0008: Add controlled retraining policies, requests, and evaluation audits. *)
RetrainingRequestTables == <<
    CreateTable("model_retraining_policies",
        {Restricting("created_by_user_id", "users")},
        {{"registered_model_name"}}),
    CreateTable("model_retraining_requests",
        {Restricting("policy_id", "model_retraining_policies"),
         Restricting("requested_by_user_id", "users"),
         Restricting("source_training_job_id", "training_jobs"),
         Restricting("training_job_id", "training_jobs")},
        {{"idempotency_key"}, {"training_job_id"}}) >>

RetrainingAuditTables == <<
    CreateTable("model_retraining_audits",
        {Restricting("policy_id", "model_retraining_policies"),
         Restricting("evaluated_by_user_id", "users"),
         Nulling("existing_request_id", "model_retraining_requests"),
         Nulling("created_request_id", "model_retraining_requests")},
        {}) >>

Up0008 == RetrainingRequestTables \o RetrainingAuditTables

Down0008 == <<
    DropTable("model_retraining_audits"),
    DropTable("model_retraining_requests"),
    DropTable("model_retraining_policies") >>

(* 0009: Add persisted monitoring orchestration, alerts, and prediction outcomes. *)
EvaluationTables == <<
    CreateTable("model_monitoring_evaluations",
        {},
        {{"registered_model_name", "model_version", "window_start", "window_end"},
         {"idempotency_key"}}),
    AddColumn("model_retraining_requests", "monitoring_evaluation_id"),
    AddReference("model_retraining_requests",
        Restricting("monitoring_evaluation_id", "model_monitoring_evaluations")),
    AddKey("model_retraining_requests", {"monitoring_evaluation_id"}),
    AddColumn("model_retraining_audits", "monitoring_evaluation_id"),
    AddReference("model_retraining_audits",
        Restricting("monitoring_evaluation_id", "model_monitoring_evaluations")) >>

AlertAndOutcomeTables == <<
    CreateTable("monitoring_alerts",
        {Nulling("monitoring_evaluation_id", "model_monitoring_evaluations"),
         Nulling("acknowledged_by_user_id", "users")},
        {{"deduplication_key"}}),
    CreateTable("monitoring_job_locks", {}, {}),
    CreateTable("prediction_outcomes",
        {Restricting("prediction_event_id", "prediction_events")},
        {{"prediction_event_id"}, {"external_reference_key"}}) >>

Up0009 == EvaluationTables \o AlertAndOutcomeTables

Down0009 == <<
    DropTable("prediction_outcomes"),
    DropTable("monitoring_job_locks"),
    DropTable("monitoring_alerts"),
    DropReference("model_retraining_audits", "monitoring_evaluation_id"),
    DropColumn("model_retraining_audits", "monitoring_evaluation_id"),
    DropKey("model_retraining_requests", {"monitoring_evaluation_id"}),
    DropReference("model_retraining_requests", "monitoring_evaluation_id"),
    DropColumn("model_retraining_requests", "monitoring_evaluation_id"),
    DropTable("model_monitoring_evaluations") >>

(* 0010: Add AutoML study, trial, and execution-slot persistence. *)
StudyTables == <<
    CreateTable("automl_studies",
        {Restricting("requested_by_user_id", "users"),
         Nulling("champion_training_job_id", "training_jobs")},
        {{"requested_by_user_id", "idempotency_key"}}) >>

TrialTables == <<
    CreateTable("automl_trials",
        {Cascading("study_id", "automl_studies")},
        {{"study_id", "trial_number"}, {"study_id", "parameter_fingerprint"}}),
    AddReference("automl_studies", Nulling("best_trial_id", "automl_trials")),
    CreateTable("automl_execution_slots",
        {Nulling("trial_id", "automl_trials")},
        {{"trial_id"}}) >>

Up0010 == StudyTables \o TrialTables

Down0010 == <<
    DropTable("automl_execution_slots"),
    DropReference("automl_studies", "best_trial_id"),
    DropTable("automl_trials"),
    DropTable("automl_studies") >>

(* 0011: Scope AutoML parameter fingerprints by plugin. *)
Up0011 == <<
    DropKey("automl_trials", {"study_id", "parameter_fingerprint"}),
    AddKey("automl_trials",
        {"study_id", "plugin_id", "parameter_fingerprint"}) >>

Down0011 == <<
    DropKey("automl_trials", {"study_id", "plugin_id", "parameter_fingerprint"}),
    AddKey("automl_trials", {"study_id", "parameter_fingerprint"}) >>

(* 0012: Add the authoritative versioned Dataset Registry. *)
DatasetTables == <<
    CreateTable("datasets",
        {Restricting("owner_user_id", "users")},
        {{"owner_user_id", "normalized_name"}}),
    CreateTable("dataset_versions",
        {Cascading("dataset_id", "datasets"),
         Restricting("created_by_user_id", "users")},
        {{"dataset_id", "version_number"}, {"dataset_id", "sha256_digest"},
         {"storage_key"}}),
    AddReference("datasets",
        Nulling("current_version_id", "dataset_versions")) >>

DocumentTables == <<
    CreateTable("document_records",
        {Cascading("dataset_version_id", "dataset_versions")},
        {{"dataset_version_id", "document_number"}}),
    CreateTable("document_chunks",
        {Cascading("document_id", "document_records"),
         Cascading("dataset_version_id", "dataset_versions")},
        {{"document_id", "chunk_number"},
         {"dataset_version_id", "content_hash"}}),
    CreateTable("dataset_usage_references",
        {Restricting("dataset_version_id", "dataset_versions")},
        {{"dataset_version_id", "usage_type", "reference_id"}}) >>

Up0012 == DatasetTables \o DocumentTables

Down0012 == <<
    DropTable("dataset_usage_references"),
    DropTable("document_chunks"),
    DropTable("document_records"),
    DropReference("datasets", "current_version_id"),
    DropTable("dataset_versions"),
    DropTable("datasets") >>

(* 0013: Persist exact Dataset Registry lineage for training and AutoML. *)
Up0013 == <<
    AddColumn("training_jobs", "dataset_version_id"),
    AddReference("training_jobs",
        Restricting("dataset_version_id", "dataset_versions")),
    AddColumn("automl_studies", "dataset_version_id"),
    AddReference("automl_studies",
        Restricting("dataset_version_id", "dataset_versions")) >>

Down0013 == <<
    DropReference("automl_studies", "dataset_version_id"),
    DropColumn("automl_studies", "dataset_version_id"),
    DropReference("training_jobs", "dataset_version_id"),
    DropColumn("training_jobs", "dataset_version_id") >>

(* 0014: Add owner-isolated RAG indexing, conversations, and citations. *)
KnowledgeBaseTables == <<
    CreateTable("rag_knowledge_bases",
        {Restricting("owner_user_id", "users")},
        {{"owner_user_id", "normalized_name"}}),
    CreateTable("rag_knowledge_base_dataset_versions",
        {Cascading("knowledge_base_id", "rag_knowledge_bases"),
         Restricting("dataset_version_id", "dataset_versions")},
        {}) >>

IndexBuildTables == <<
    CreateTable("rag_index_builds",
        {Cascading("knowledge_base_id", "rag_knowledge_bases"),
         Restricting("requested_by_user_id", "users")},
        {}),
    AddReference("rag_knowledge_bases",
        Nulling("active_index_build_id", "rag_index_builds")) >>

IndexedChunkTables == <<
    CreateTable("rag_indexed_chunks",
        {Cascading("knowledge_base_id", "rag_knowledge_bases"),
         Cascading("index_build_id", "rag_index_builds"),
         Restricting("document_id", "document_records"),
         Restricting("dataset_version_id", "dataset_versions")},
        {{"index_build_id", "document_id", "chunk_number"}}),
    CreateTable("rag_chunk_embeddings",
        {Cascading("knowledge_base_id", "rag_knowledge_bases"),
         Cascading("index_build_id", "rag_index_builds"),
         Cascading("chunk_id", "rag_indexed_chunks"),
         Restricting("document_id", "document_records"),
         Restricting("dataset_version_id", "dataset_versions")},
        {{"index_build_id", "chunk_id"}}) >>

ConversationTables == <<
    CreateTable("rag_conversations",
        {Restricting("owner_user_id", "users"),
         Restricting("knowledge_base_id", "rag_knowledge_bases")},
        {}),
    CreateTable("rag_messages",
        {Cascading("conversation_id", "rag_conversations"),
         Restricting("reply_to_message_id", "rag_messages")},
        {{"conversation_id", "idempotency_key"}}),
    CreateTable("rag_message_citations",
        {Cascading("message_id", "rag_messages"),
         Restricting("chunk_id", "rag_indexed_chunks"),
         Restricting("document_id", "document_records"),
         Restricting("dataset_version_id", "dataset_versions")},
        {{"message_id", "rank"}, {"message_id", "chunk_id"}}) >>

Up0014 == KnowledgeBaseTables \o IndexBuildTables
          \o IndexedChunkTables \o ConversationTables

Down0014 == <<
    DropTable("rag_message_citations"),
    DropTable("rag_messages"),
    DropTable("rag_conversations"),
    DropTable("rag_chunk_embeddings"),
    DropTable("rag_indexed_chunks"),
    DropReference("rag_knowledge_bases", "active_index_build_id"),
    DropTable("rag_index_builds"),
    DropTable("rag_knowledge_base_dataset_versions"),
    DropTable("rag_knowledge_bases") >>

(* 0015: Add pilot tenant identity, audit, governed inputs, and machine risk. *)
TenantUsersOnly == <<
    AddColumn("users", "company_id"),
    AddReference("users", Restricting("company_id", "companies")),
    FillCanonical("users"),
    SetNotNull("users", "company_id") >>

TenantUsers == <<
    InsertLegacyCompany,
    AddColumn("users", "company_id"),
    AddReference("users", Restricting("company_id", "companies")),
    FillCanonical("users"),
    SetNotNull("users", "company_id") >>

(* The tables whose rows take the company of a user, with the user column *)
ScopedFromUser == <<
    <<"datasets", "owner_user_id">>, <<"training_jobs", "requested_by_user_id">>,
    <<"model_promotion_audits", "requested_by_user_id">>,
    <<"prediction_events", "requested_by_user_id">>,
    <<"automl_studies", "requested_by_user_id">>,
    <<"model_retraining_policies", "created_by_user_id">>,
    <<"model_retraining_requests", "requested_by_user_id">>,
    <<"model_retraining_audits", "evaluated_by_user_id">>,
    <<"rag_knowledge_bases", "owner_user_id">>,
    <<"rag_conversations", "owner_user_id">>,
    <<"upload_jobs", "created_by">>, <<"experiments", "created_by">> >>

InheritedOrLegacy == <<"model_reference_profiles", "model_monitoring_evaluations",
                       "monitoring_alerts", "prediction_outcomes">>

ScopedTables == [i \in DOMAIN ScopedFromUser |-> ScopedFromUser[i][1]] \o InheritedOrLegacy

AddCompanyScope(t) == <<AddColumn(t, "company_id"),
                        AddReference(t, Restricting("company_id", "companies"))>>
FinishCompanyScope(t) == <<FillCanonical(t), SetNotNull(t, "company_id")>>

ScopeTables ==
    FlattenSeq([i \in DOMAIN ScopedTables |-> AddCompanyScope(ScopedTables[i])])
    \o [i \in DOMAIN ScopedFromUser |-> FillFromUser(ScopedFromUser[i][1], ScopedFromUser[i][2])]
    \o FlattenSeq([i \in DOMAIN ScopedTables |-> FinishCompanyScope(ScopedTables[i])])

KeysByCompany == <<
    DropCheck("prediction_events", "algorithm"),
    AddCheck("prediction_events", "algorithm", Algorithms),
    DropCheck("model_reference_profiles", "algorithm"),
    AddCheck("model_reference_profiles", "algorithm", Algorithms),
    DropKey("model_reference_profiles", {"registered_model_name", "model_version"}),
    AddKey("model_reference_profiles", {"company_id", "registered_model_name", "model_version"}),
    DropKey("datasets", {"owner_user_id", "normalized_name"}),
    AddKey("datasets", {"company_id", "normalized_name"}),
    DropKey("rag_knowledge_bases", {"owner_user_id", "normalized_name"}),
    AddKey("rag_knowledge_bases", {"company_id", "normalized_name"}),
    DropKey("model_retraining_policies", {"registered_model_name"}),
    AddKey("model_retraining_policies", {"company_id", "registered_model_name"}) >>

AlertPlaceColumns == <<
    AddColumn("refresh_tokens", "last_seen_at"),
    AddColumn("refresh_tokens", "user_agent_summary"),
    AddColumn("refresh_tokens", "source_ip"),
    AddColumn("monitoring_alerts", "factory_id"),
    AddColumn("monitoring_alerts", "machine_id"),
    AddColumn("monitoring_alerts", "operator_note"),
    AddColumn("monitoring_alerts", "engineer_note"),
    AddColumn("monitoring_alerts", "cooldown_until"),
    AddReference("monitoring_alerts", Nulling("factory_id", "factories")),
    AddReference("monitoring_alerts", Nulling("machine_id", "machines")) >>

GovernanceTables == <<
    CreateTable("password_reset_tokens", {Cascading("user_id", "users")}, {}),
    CreateTable("audit_events",
        {Restricting("company_id", "companies"),
         Nulling("actor_user_id", "users")},
        {}) >>

MachineRiskTables == <<
    CreateTable("model_feature_schemas",
        {Restricting("company_id", "companies"),
         Nulling("training_dataset_version_id", "dataset_versions"),
         Restricting("created_by_user_id", "users")},
        {{"company_id", "registered_model_name", "model_version"}}),
    CreateTable("machine_risk_assessments",
        {Restricting("company_id", "companies"),
         Restricting("factory_id", "factories"),
         Restricting("machine_id", "machines"),
         Nulling("prediction_event_id", "prediction_events"),
         Nulling("alert_id", "monitoring_alerts"),
         Nulling("acknowledged_by_user_id", "users")},
        {}) >>

DropPilotTables == <<
    DropTable("machine_risk_assessments"),
    DropTable("model_feature_schemas"),
    DropTable("audit_events"),
    DropTable("password_reset_tokens"),
    DropReference("monitoring_alerts", "machine_id"),
    DropReference("monitoring_alerts", "factory_id"),
    DropColumn("monitoring_alerts", "cooldown_until"),
    DropColumn("monitoring_alerts", "engineer_note"),
    DropColumn("monitoring_alerts", "operator_note"),
    DropColumn("monitoring_alerts", "machine_id"),
    DropColumn("monitoring_alerts", "factory_id"),
    DropColumn("refresh_tokens", "source_ip"),
    DropColumn("refresh_tokens", "user_agent_summary"),
    DropColumn("refresh_tokens", "last_seen_at") >>

KeysByOwner == <<
    DropKey("model_reference_profiles", {"company_id", "registered_model_name", "model_version"}),
    AddKey("model_reference_profiles", {"registered_model_name", "model_version"}),
    DropCheck("model_reference_profiles", "algorithm"),
    AddCheck("model_reference_profiles", "algorithm", LegacyAlgorithms),
    DropCheck("prediction_events", "algorithm"),
    AddCheck("prediction_events", "algorithm", LegacyAlgorithms),
    DropKey("rag_knowledge_bases", {"company_id", "normalized_name"}),
    AddKey("rag_knowledge_bases", {"owner_user_id", "normalized_name"}),
    DropKey("datasets", {"company_id", "normalized_name"}),
    AddKey("datasets", {"owner_user_id", "normalized_name"}),
    DropKey("model_retraining_policies", {"company_id", "registered_model_name"}),
    AddKey("model_retraining_policies", {"registered_model_name"}) >>

(* The tables in reverse order, then users *)
DropCompanyScope ==
    LET Tables == Reverse(ScopedTables) \o <<"users">> IN
    FlattenSeq([i \in DOMAIN Tables |-> <<DropReference(Tables[i], "company_id"),
                                          DropColumn(Tables[i], "company_id")>>])

Up0015 == TenantUsers \o ScopeTables \o KeysByCompany \o AlertPlaceColumns
          \o GovernanceTables \o MachineRiskTables
Down0015 == DropPilotTables \o KeysByOwner \o DropCompanyScope

(* 0016: Add company-scoped operational actions, notes, feedback, and timeline. *)
ActionTables == <<
    CreateTable("operational_actions",
        {Nulling("assigned_user_id", "users"),
         Restricting("company_id", "companies"), Restricting("created_by", "users"),
         Restricting("factory_id", "factories"),
         Restricting("machine_id", "machines"),
         Nulling("related_alert_id", "monitoring_alerts")},
        {}),
    CreateTable("operational_notes",
        {Restricting("action_id", "operational_actions"),
         Restricting("alert_id", "monitoring_alerts"),
         Restricting("author_user_id", "users"),
         Restricting("company_id", "companies"),
         Restricting("factory_id", "factories"),
         Restricting("machine_id", "machines")},
        {}) >>

FeedbackTables == <<
    CreateTable("maintenance_feedback",
        {Restricting("action_id", "operational_actions"),
         Restricting("alert_id", "monitoring_alerts"),
         Restricting("company_id", "companies"),
         Restricting("factory_id", "factories"),
         Restricting("machine_id", "machines"),
         Restricting("submitted_by_user_id", "users")},
        {}),
    CreateTable("operational_timeline_events",
        {Nulling("action_id", "operational_actions"),
         Nulling("actor_user_id", "users"),
         Nulling("alert_id", "monitoring_alerts"),
         Restricting("company_id", "companies"),
         Restricting("factory_id", "factories"),
         Restricting("machine_id", "machines")},
        {}) >>

Up0016 == ActionTables \o FeedbackTables

Down0016 == <<
    DropTable("operational_timeline_events"),
    DropTable("maintenance_feedback"),
    DropTable("operational_notes"),
    DropTable("operational_actions") >>

(* 0017: Add enhanced alert lifecycle and shift handover. *)
Up0017 == <<
    AddColumn("monitoring_alerts", "assigned_user_id"),
    AddColumn("monitoring_alerts", "assigned_at"),
    AddColumn("monitoring_alerts", "assigned_by_user_id"),
    AddColumn("monitoring_alerts", "in_progress_at"),
    AddColumn("monitoring_alerts", "escalated_at"),
    AddColumn("monitoring_alerts", "escalated_by_user_id"),
    AddColumn("monitoring_alerts", "resolution_summary"),
    AddColumn("monitoring_alerts", "resolution_classification"),
    AddColumn("monitoring_alerts", "reopened_at"),
    AddColumn("monitoring_alerts", "reopened_by_user_id"),
    AddColumn("monitoring_alerts", "reopen_reason"),
    AddColumn("monitoring_alerts", "lifecycle_version"),
    AddReference("monitoring_alerts", Nulling("assigned_user_id", "users")),
    AddReference("monitoring_alerts", Nulling("assigned_by_user_id", "users")),
    AddReference("monitoring_alerts",
        Nulling("escalated_by_user_id", "users")),
    AddReference("monitoring_alerts", Nulling("reopened_by_user_id", "users")),
    CreateTable("shift_handovers",
        {Restricting("company_id", "companies"),
         Restricting("factory_id", "factories"),
         Restricting("started_by_user_id", "users"),
         Nulling("ended_by_user_id", "users"),
         Nulling("acknowledged_by_user_id", "users")},
        {}) >>

Down0017 == <<
    DropTable("shift_handovers"),
    DropReference("monitoring_alerts", "reopened_by_user_id"),
    DropReference("monitoring_alerts", "escalated_by_user_id"),
    DropReference("monitoring_alerts", "assigned_by_user_id"),
    DropReference("monitoring_alerts", "assigned_user_id"),
    DropColumn("monitoring_alerts", "lifecycle_version"),
    DropColumn("monitoring_alerts", "reopen_reason"),
    DropColumn("monitoring_alerts", "reopened_by_user_id"),
    DropColumn("monitoring_alerts", "reopened_at"),
    DropColumn("monitoring_alerts", "resolution_classification"),
    DropColumn("monitoring_alerts", "resolution_summary"),
    DropColumn("monitoring_alerts", "escalated_by_user_id"),
    DropColumn("monitoring_alerts", "escalated_at"),
    DropColumn("monitoring_alerts", "in_progress_at"),
    DropColumn("monitoring_alerts", "assigned_by_user_id"),
    DropColumn("monitoring_alerts", "assigned_at"),
    DropColumn("monitoring_alerts", "assigned_user_id") >>

(* 0018: Add company-scoped guided data imports. *)
Up0018 == <<
    CreateTable("data_imports",
        {Restricting("company_id", "companies"), Restricting("created_by", "users")},
        {}) >>

Down0018 == <<
    DropTable("data_imports") >>

(* 0019: Add deterministic demo scenarios and 2D factory layouts. *)
Up0019 == <<
    CreateTable("factory_layouts",
        {Restricting("company_id", "companies"),
         Restricting("factory_id", "factories"), Restricting("updated_by", "users")},
        {}),
    CreateTable("demo_scenario_runs",
        {Restricting("company_id", "companies"),
         Restricting("factory_id", "factories"),
         Restricting("machine_id", "machines"), Restricting("created_by", "users")},
        {}) >>

Down0019 == <<
    DropTable("demo_scenario_runs"),
    DropTable("factory_layouts") >>

(* 0020: Add executive report jobs and bounded schedules. *)
Up0020 == <<
    CreateTable("report_jobs",
        {Restricting("company_id", "companies"),
         Restricting("factory_id", "factories"), Restricting("created_by", "users")},
        {}),
    CreateTable("report_schedules",
        {Restricting("company_id", "companies"),
         Restricting("factory_id", "factories"), Restricting("created_by", "users")},
        {}) >>

Down0020 == <<
    DropTable("report_schedules"),
    DropTable("report_jobs") >>

(* 0021: Add optional user names and company support request delivery state. *)
Up0021 == <<
    AddColumn("users", "full_name"),
    CreateTable("support_requests",
        {Restricting("company_id", "companies"), Restricting("created_by", "users"),
         Restricting("factory_id", "factories"),
         Restricting("machine_id", "machines")},
        {}) >>

Down0021 == <<
    DropTable("support_requests"),
    DropColumn("users", "full_name") >>

(* 0022: Mark isolated public-demo company workspaces. *)
Up0022 == <<
    AddColumn("companies", "is_public_demo") >>

Down0022 == <<
    DropColumn("companies", "is_public_demo") >>

Upgrades == <<Up0001, Up0002, Up0003, Up0004, Up0005, Up0006, Up0007, Up0008,
              Up0009, Up0010, Up0011, Up0012, Up0013, Up0014, Up0015, Up0016,
              Up0017, Up0018, Up0019, Up0020, Up0021, Up0022>>
Downgrades == <<Down0001, Down0002, Down0003, Down0004, Down0005, Down0006,
                Down0007, Down0008, Down0009, Down0010, Down0011, Down0012,
                Down0013, Down0014, Down0015, Down0016, Down0017, Down0018,
                Down0019, Down0020, Down0021, Down0022>>
=============================================================================
