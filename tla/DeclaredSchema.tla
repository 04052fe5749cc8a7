--------------------------- MODULE DeclaredSchema ---------------------------
(* The schema the ORM classes under app/models declare (Base.metadata): every
   table with its foreign keys, what a delete of the referenced row does, and
   its unique constraints. *)
EXTENDS SchemaOps

Declare(t, refs, keys) == [table |-> t, refs |-> refs, keys |-> keys]

UserModels == {
    Declare("users", {Restricting("company_id", "companies")}, {}),
    Declare("refresh_tokens", {Cascading("user_id", "users")}, {}),
    Declare("password_reset_tokens", {Cascading("user_id", "users")}, {})}

AuditEventModels == {
    Declare("audit_events",
        {Restricting("company_id", "companies"),
         Nulling("actor_user_id", "users")},
        {})}

PlantModels == {
    Declare("companies", {}, {}),
    Declare("factories", {Restricting("company_id", "companies")}, {}),
    Declare("machines", {Restricting("factory_id", "factories")}, {})}

SensorModels == {
    Declare("sensors", {Restricting("machine_id", "machines")}, {})}

UploadJobModels == {
    Declare("upload_jobs",
        {Restricting("created_by", "users"), Restricting("company_id", "companies")},
        {})}

SensorReadingModels == {
    Declare("sensor_readings",
        {Restricting("sensor_id", "sensors"),
         Restricting("batch_id", "upload_jobs")},
        {})}

ExperimentModels == {
    Declare("experiments",
        {Restricting("created_by", "users"), Restricting("company_id", "companies")},
        {}),
    Declare("training_runs", {Cascading("experiment_id", "experiments")}, {})}

ModelArtifactModels == {
    Declare("model_artifacts",
        {Cascading("training_run_id", "training_runs")},
        {})}

TrainingJobModels == {
    Declare("training_jobs",
        {Restricting("requested_by_user_id", "users"),
         Restricting("company_id", "companies"),
         Restricting("dataset_version_id", "dataset_versions")},
        {{"requested_by_user_id", "algorithm", "task_type", "idempotency_key"}})}

ModelPromotionAuditModels == {
    Declare("model_promotion_audits",
        {Restricting("company_id", "companies"),
         Restricting("requested_by_user_id", "users")},
        {})}

PredictionEventModels == {
    Declare("prediction_events",
        {Restricting("requested_by_user_id", "users"),
         Restricting("company_id", "companies")},
        {})}

ModelReferenceProfileModels == {
    Declare("model_reference_profiles",
        {Restricting("company_id", "companies"),
         Restricting("training_job_id", "training_jobs")},
        {{"company_id", "registered_model_name", "model_version"}})}

ModelRetrainingPolicyModels == {
    Declare("model_retraining_policies",
        {Restricting("company_id", "companies"),
         Restricting("created_by_user_id", "users")},
        {{"company_id", "registered_model_name"}})}

ModelRetrainingRequestModels == {
    Declare("model_retraining_requests",
        {Restricting("company_id", "companies"),
         Restricting("source_training_job_id", "training_jobs"),
         Restricting("policy_id", "model_retraining_policies"),
         Restricting("training_job_id", "training_jobs"),
         Restricting("monitoring_evaluation_id", "model_monitoring_evaluations"),
         Restricting("requested_by_user_id", "users")},
        {{"idempotency_key"}, {"training_job_id"},
         {"monitoring_evaluation_id"}})}

ModelRetrainingAuditModels == {
    Declare("model_retraining_audits",
        {Restricting("company_id", "companies"),
         Restricting("policy_id", "model_retraining_policies"),
         Nulling("existing_request_id", "model_retraining_requests"),
         Nulling("created_request_id", "model_retraining_requests"),
         Restricting("monitoring_evaluation_id", "model_monitoring_evaluations"),
         Restricting("evaluated_by_user_id", "users")},
        {})}

ModelMonitoringEvaluationModels == {
    Declare("model_monitoring_evaluations",
        {Restricting("company_id", "companies")},
        {{"registered_model_name", "model_version", "window_start", "window_end"},
         {"idempotency_key"}})}

MonitoringAlertModels == {
    Declare("monitoring_alerts",
        {Restricting("company_id", "companies"),
         Nulling("factory_id", "factories"),
         Nulling("machine_id", "machines"),
         Nulling("monitoring_evaluation_id", "model_monitoring_evaluations"),
         Nulling("acknowledged_by_user_id", "users"),
         Nulling("assigned_user_id", "users"),
         Nulling("assigned_by_user_id", "users"),
         Nulling("escalated_by_user_id", "users"),
         Nulling("reopened_by_user_id", "users")},
        {{"deduplication_key"}}),
    Declare("monitoring_job_locks", {}, {})}

PredictionOutcomeModels == {
    Declare("prediction_outcomes",
        {Restricting("company_id", "companies"),
         Restricting("prediction_event_id", "prediction_events")},
        {{"prediction_event_id"}, {"external_reference_key"}})}

AutoMLStudyModels == {
    Declare("automl_studies",
        {Restricting("requested_by_user_id", "users"),
         Restricting("company_id", "companies"),
         Restricting("dataset_version_id", "dataset_versions"),
         Nulling("best_trial_id", "automl_trials"),
         Nulling("champion_training_job_id", "training_jobs")},
        {{"requested_by_user_id", "idempotency_key"}})}

AutoMLTrialModels == {
    Declare("automl_trials",
        {Cascading("study_id", "automl_studies")},
        {{"study_id", "trial_number"},
         {"study_id", "plugin_id", "parameter_fingerprint"}}),
    Declare("automl_execution_slots",
        {Nulling("trial_id", "automl_trials")},
        {{"trial_id"}})}

DatasetModels == {
    Declare("datasets",
        {Restricting("owner_user_id", "users"),
         Restricting("company_id", "companies"),
         Nulling("current_version_id", "dataset_versions")},
        {{"company_id", "normalized_name"}})}

DatasetVersionModels == {
    Declare("dataset_versions",
        {Cascading("dataset_id", "datasets"),
         Restricting("created_by_user_id", "users")},
        {{"storage_key"}, {"dataset_id", "version_number"},
         {"dataset_id", "sha256_digest"}})}

DocumentRecordModels == {
    Declare("document_records",
        {Cascading("dataset_version_id", "dataset_versions")},
        {{"dataset_version_id", "document_number"}}),
    Declare("document_chunks",
        {Cascading("document_id", "document_records"),
         Cascading("dataset_version_id", "dataset_versions")},
        {{"document_id", "chunk_number"},
         {"dataset_version_id", "content_hash"}}),
    Declare("dataset_usage_references",
        {Restricting("dataset_version_id", "dataset_versions")},
        {{"dataset_version_id", "usage_type", "reference_id"}})}

RAGKnowledgeBaseModels == {
    Declare("rag_knowledge_bases",
        {Restricting("owner_user_id", "users"),
         Restricting("company_id", "companies"),
         Nulling("active_index_build_id", "rag_index_builds")},
        {{"company_id", "normalized_name"}}),
    Declare("rag_knowledge_base_dataset_versions",
        {Cascading("knowledge_base_id", "rag_knowledge_bases"),
         Restricting("dataset_version_id", "dataset_versions")},
        {})}

RAGIndexBuildModels == {
    Declare("rag_index_builds",
        {Cascading("knowledge_base_id", "rag_knowledge_bases"),
         Restricting("requested_by_user_id", "users")},
        {}),
    Declare("rag_chunk_embeddings",
        {Cascading("knowledge_base_id", "rag_knowledge_bases"),
         Cascading("index_build_id", "rag_index_builds"),
         Cascading("chunk_id", "rag_indexed_chunks"),
         Restricting("document_id", "document_records"),
         Restricting("dataset_version_id", "dataset_versions")},
        {{"index_build_id", "chunk_id"}})}

RAGIndexedChunkModels == {
    Declare("rag_indexed_chunks",
        {Cascading("knowledge_base_id", "rag_knowledge_bases"),
         Cascading("index_build_id", "rag_index_builds"),
         Restricting("document_id", "document_records"),
         Restricting("dataset_version_id", "dataset_versions")},
        {{"index_build_id", "document_id", "chunk_number"}}),
    Declare("rag_conversations",
        {Restricting("owner_user_id", "users"),
         Restricting("company_id", "companies"),
         Restricting("knowledge_base_id", "rag_knowledge_bases")},
        {})}

RAGMessageModels == {
    Declare("rag_messages",
        {Cascading("conversation_id", "rag_conversations"),
         Restricting("reply_to_message_id", "rag_messages")},
        {{"conversation_id", "idempotency_key"}}),
    Declare("rag_message_citations",
        {Cascading("message_id", "rag_messages"),
         Restricting("chunk_id", "rag_indexed_chunks"),
         Restricting("document_id", "document_records"),
         Restricting("dataset_version_id", "dataset_versions")},
        {{"message_id", "rank"}, {"message_id", "chunk_id"}})}

PilotModels == {
    Declare("model_feature_schemas",
        {Restricting("company_id", "companies"),
         Nulling("training_dataset_version_id", "dataset_versions"),
         Restricting("created_by_user_id", "users")},
        {{"company_id", "registered_model_name", "model_version"}}),
    Declare("machine_risk_assessments",
        {Restricting("company_id", "companies"),
         Restricting("factory_id", "factories"),
         Restricting("machine_id", "machines"),
         Nulling("prediction_event_id", "prediction_events"),
         Nulling("alert_id", "monitoring_alerts"),
         Nulling("acknowledged_by_user_id", "users")},
        {})}

OperationalActionModels == {
    Declare("operational_actions",
        {Restricting("company_id", "companies"),
         Restricting("factory_id", "factories"),
         Restricting("machine_id", "machines"),
         Nulling("related_alert_id", "monitoring_alerts"),
         Nulling("assigned_user_id", "users"),
         Restricting("created_by", "users")},
        {}),
    Declare("operational_notes",
        {Restricting("company_id", "companies"),
         Restricting("factory_id", "factories"),
         Restricting("machine_id", "machines"),
         Restricting("action_id", "operational_actions"),
         Restricting("alert_id", "monitoring_alerts"),
         Restricting("author_user_id", "users")},
        {})}

MaintenanceFeedbackModels == {
    Declare("maintenance_feedback",
        {Restricting("company_id", "companies"),
         Restricting("factory_id", "factories"),
         Restricting("machine_id", "machines"),
         Restricting("action_id", "operational_actions"),
         Restricting("alert_id", "monitoring_alerts"),
         Restricting("submitted_by_user_id", "users")},
        {}),
    Declare("operational_timeline_events",
        {Restricting("company_id", "companies"),
         Restricting("factory_id", "factories"),
         Restricting("machine_id", "machines"),
         Nulling("action_id", "operational_actions"),
         Nulling("alert_id", "monitoring_alerts"),
         Nulling("actor_user_id", "users")},
        {})}

ShiftHandoverModels == {
    Declare("shift_handovers",
        {Restricting("company_id", "companies"),
         Restricting("factory_id", "factories"),
         Restricting("started_by_user_id", "users"),
         Nulling("ended_by_user_id", "users"),
         Nulling("acknowledged_by_user_id", "users")},
        {})}

DataImportModels == {
    Declare("data_imports",
        {Restricting("company_id", "companies"), Restricting("created_by", "users")},
        {}),
    Declare("factory_layouts",
        {Restricting("company_id", "companies"),
         Restricting("factory_id", "factories"), Restricting("updated_by", "users")},
        {})}

DemoScenarioRunModels == {
    Declare("demo_scenario_runs",
        {Restricting("company_id", "companies"),
         Restricting("factory_id", "factories"),
         Restricting("machine_id", "machines"), Restricting("created_by", "users")},
        {}),
    Declare("report_jobs",
        {Restricting("company_id", "companies"),
         Restricting("factory_id", "factories"), Restricting("created_by", "users")},
        {})}

ReportScheduleModels == {
    Declare("report_schedules",
        {Restricting("company_id", "companies"),
         Restricting("factory_id", "factories"), Restricting("created_by", "users")},
        {})}

SupportModels == {
    Declare("support_requests",
        {Restricting("company_id", "companies"),
         Restricting("created_by", "users"),
         Restricting("factory_id", "factories"),
         Restricting("machine_id", "machines")},
        {})}

(* Base.metadata *)
Declared == UNION {
    UserModels, AuditEventModels, PlantModels, SensorModels,
    UploadJobModels, SensorReadingModels, ExperimentModels,
    ModelArtifactModels, TrainingJobModels, ModelPromotionAuditModels,
    PredictionEventModels, ModelReferenceProfileModels,
    ModelRetrainingPolicyModels, ModelRetrainingRequestModels,
    ModelRetrainingAuditModels, ModelMonitoringEvaluationModels,
    MonitoringAlertModels, PredictionOutcomeModels, AutoMLStudyModels,
    AutoMLTrialModels, DatasetModels, DatasetVersionModels,
    DocumentRecordModels, RAGKnowledgeBaseModels, RAGIndexBuildModels,
    RAGIndexedChunkModels, RAGMessageModels, PilotModels,
    OperationalActionModels, MaintenanceFeedbackModels,
    ShiftHandoverModels, DataImportModels, DemoScenarioRunModels,
    ReportScheduleModels, SupportModels}
DeclaredTables == {d.table : d \in Declared}
DeclaredRefs == UNION {{d.table} \X d.refs : d \in Declared}
DeclaredKeys == UNION {{d.table} \X d.keys : d \in Declared}
=============================================================================
