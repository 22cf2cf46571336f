---------------------------- MODULE Capabilities ----------------------------
(***************************************************************************)
(* The capability bindings lenso-bun generates: one TypeScript module per  *)
(* contract, all instances of one template.  For each contract this module *)
(* states what distinguishes its instance:                                 *)
(*   - XProvider: the cases of the three switches of bindXProvider, each   *)
(*     case being one of the two templates of module CapabilityCall;       *)
(*   - XClient: the methods of the client bindXDependency creates, and the *)
(*     entry of the invoker each of them goes through;                     *)
(*   - XErrors: the string codes that the codec of each operation decodes  *)
(*     as they are.                                                        *)
(***************************************************************************)
\* A provider binding handles its requests in invokeRequest and its streams in
\* openStream; no contract has events, so publishEvent has its default only.
Switches(requests, streams) ==
  [invokeRequest |-> requests, openStream |-> streams, publishEvent |-> {}]

\* A client calls the invoker itself for a request, and openStream of it for a
\* stream.
Methods(requests, streams) ==
  [op \in requests \cup streams |->
     IF op \in streams THEN "openStream" ELSE "invokeRequest"]
-----------------------------------------------------------------------------
\* account-admin.ts
AccountAdminProvider == Switches({"list_sessions", "list_subjects",
  "set_subject_status"}, {})
AccountAdminClient == Methods({"list_sessions", "list_subjects",
  "set_subject_status"}, {})
AccountAdminErrors ==
  [list_sessions |-> {"forbidden", "invalid_page", "invalid_subject"},
   list_subjects |-> {"forbidden", "invalid_page"},
   set_subject_status |-> {"forbidden", "invalid_status", "invalid_subject",
        "not_found"}]

\* agent-auth-openai-codex.ts
AgentAuthOpenaiCodexProvider == Switches({"access"}, {})
AgentAuthOpenaiCodexClient == Methods({"access"}, {})
AgentAuthOpenaiCodexErrors ==
  [access |-> {"not_authenticated", "refresh_rejected"}]

\* agent-model.ts
AgentModelProvider == Switches({}, {"complete"})
AgentModelClient == Methods({}, {"complete"})
AgentModelErrors ==
  [complete |-> {"content_rejected", "invalid_request", "unsupported_model"}]

\* agent-prompt-provider.ts
AgentPromptProviderProvider == Switches({"contribute"}, {})
AgentPromptProviderClient == Methods({"contribute"}, {})
AgentPromptProviderErrors == [contribute |-> {"contribution_invalid"}]

\* agent-prompt.ts
AgentPromptProvider == Switches({"assemble"}, {})
AgentPromptClient == Methods({"assemble"}, {})
AgentPromptErrors == [assemble |-> {"prompt_invalid"}]

\* agent-session.ts
AgentSessionProvider == Switches({"append", "open", "read"}, {})
AgentSessionClient == Methods({"append", "open", "read"}, {})
AgentSessionErrors ==
  [append |-> {"invalid_event", "not_found"},
   open |-> {"invalid_session_id", "not_found"},
   read |-> {"invalid_cursor", "not_found"}]

\* agent-tool-provider.ts
AgentToolProviderProvider == Switches({"catalog", "execute"}, {})
AgentToolProviderClient == Methods({"catalog", "execute"}, {})
AgentToolProviderErrors ==
  [catalog |-> {"catalog_invalid"},
   execute |-> {"invalid_arguments", "not_found", "output_limit_exceeded",
        "permission_denied"}]

\* agent-tools.ts
AgentToolsProvider == Switches({"catalog", "execute"}, {})
AgentToolsClient == Methods({"catalog", "execute"}, {})
AgentToolsErrors ==
  [catalog |-> {"catalog_invalid"},
   execute |-> {"invalid_arguments", "unknown_tool"}]

\* agent.ts
AgentProvider == Switches({}, {"run_turn"})
AgentClient == Methods({}, {"run_turn"})
AgentErrors ==
  [run_turn |-> {"concurrent_turn", "context_limit_exceeded",
        "invalid_session", "step_limit_exceeded",
        "tool_call_limit_exceeded"}]

\* anonymous-auth.ts
AnonymousAuthProvider == Switches({"sign_in"}, {})
AnonymousAuthClient == Methods({"sign_in"}, {})
AnonymousAuthErrors == [sign_in |-> {"disabled", "invalid_device"}]

\* auth.ts
AuthProvider == Switches({"authenticate"}, {})
AuthClient == Methods({"authenticate"}, {})
AuthErrors ==
  [authenticate |-> {"expired", "invalid", "revoked", "unsupported"}]

\* credential-issuer.ts
CredentialIssuerProvider == Switches({"issue", "revoke"}, {})
CredentialIssuerClient == Methods({"issue", "revoke"}, {})
CredentialIssuerErrors ==
  [issue |-> {"disabled", "expired", "invalid_authority", "invalid_subject"},
   revoke |-> {"invalid_session", "not_found"}]

\* device-auth.ts
DeviceAuthProvider == Switches({"list", "observe", "set_trust"}, {})
DeviceAuthClient == Methods({"list", "observe", "set_trust"}, {})
DeviceAuthErrors ==
  [list |-> {"invalid_subject"},
   observe |-> {"invalid_device", "invalid_subject"},
   set_trust |-> {"invalid_device", "invalid_subject", "not_found"}]

\* federated-auth.ts
FederatedAuthProvider == Switches({"complete", "start"}, {})
FederatedAuthClient == Methods({"complete", "start"}, {})
FederatedAuthErrors ==
  [complete |-> {"disabled", "invalid_callback", "invalid_state",
        "provider_rejected", "unverified_identity"},
   start |-> {"invalid_return_to", "provider_unavailable"}]

\* http-client.ts
HttpClientProvider == Switches({"send"}, {})
HttpClientClient == Methods({"send"}, {})
HttpClientErrors ==
  [send |-> {"destination_not_allowed", "invalid_request",
        "request_too_large", "response_too_large", "timeout",
        "transport_failure"}]

\* http-endpoint.ts
HttpEndpointProvider == Switches({"describe", "handle"}, {})
HttpEndpointClient == Methods({"describe", "handle"}, {})
HttpEndpointErrors ==
  [describe |-> {"invalid_configuration"},
   handle |-> {"rejected"}]

\* identity-directory.ts
IdentityDirectoryProvider == Switches({"ensure_identity", "read_status"}, {})
IdentityDirectoryClient == Methods({"ensure_identity", "read_status"}, {})
IdentityDirectoryErrors ==
  [ensure_identity |-> {"disabled", "invalid_identity"},
   read_status |-> {"invalid_subject", "not_found"}]

\* jobs.ts
JobsProvider == Switches({"claim", "complete", "enqueue", "fail", "inspect",
  "renew"}, {})
JobsClient == Methods({"claim", "complete", "enqueue", "fail", "inspect",
  "renew"}, {})
JobsErrors ==
  [claim |-> {"invalid_queue", "no_job_available", "unauthorized"},
   complete |-> {"invalid_lease", "unauthorized"},
   enqueue |-> {"idempotency_conflict", "invalid_job", "unauthorized"},
   fail |-> {"invalid_failure", "invalid_lease", "unauthorized"},
   inspect |-> {"job_not_found", "unauthorized"},
   renew |-> {"invalid_lease", "unauthorized"}]

\* oauth-flow.ts
OauthFlowProvider == Switches({"consume", "create"}, {})
OauthFlowClient == Methods({"consume", "create"}, {})
OauthFlowErrors ==
  [consume |-> {"already_consumed", "expired", "invalid_state",
        "provider_mismatch"},
   create |-> {"invalid_expiry", "invalid_provider", "invalid_return_to"}]

\* oidc-provider.ts
OidcProviderProvider == Switches({"authorize", "exchange", "jwks", "metadata"},
  {})
OidcProviderClient == Methods({"authorize", "exchange", "jwks", "metadata"},
  {})
OidcProviderErrors ==
  [authorize |-> {"disabled_subject", "forbidden", "invalid_client",
        "invalid_pkce", "invalid_redirect_uri", "invalid_request",
        "invalid_scope"},
   exchange |-> {"disabled_subject", "invalid_grant", "invalid_request"},
   jwks |-> {"disabled"},
   metadata |-> {"disabled"}]

\* password-auth.ts
PasswordAuthProvider == Switches({"login", "register"}, {})
PasswordAuthClient == Methods({"login", "register"}, {})
PasswordAuthErrors ==
  [login |-> {"disabled", "invalid_credentials", "invalid_identifier",
        "rate_limited"},
   register |-> {"disabled", "identifier_taken", "invalid_identifier",
        "weak_password"}]

\* phone-auth.ts
PhoneAuthProvider == Switches({"password_login", "set_password", "start_otp",
  "verify_otp"}, {})
PhoneAuthClient == Methods({"password_login", "set_password", "start_otp",
  "verify_otp"}, {})
PhoneAuthErrors ==
  [password_login |-> {"disabled", "invalid_credentials", "invalid_phone",
        "rate_limited"},
   set_password |-> {"disabled", "forbidden", "invalid_subject", "not_found",
        "weak_password"},
   start_otp |-> {"delivery_rejected", "invalid_phone", "invalid_purpose",
        "rate_limited", "resend_too_soon"},
   verify_otp |-> {"disabled", "expired", "invalid_challenge",
        "invalid_code", "too_many_attempts"}]

\* secrets.ts
SecretsProvider == Switches({"resolve"}, {})
SecretsClient == Methods({"resolve"}, {})
SecretsErrors == [resolve |-> {"invalid_reference", "unknown_reference"}]

\* sms-delivery.ts
SmsDeliveryProvider == Switches({"send"}, {})
SmsDeliveryClient == Methods({"send"}, {})
SmsDeliveryErrors ==
  [send |-> {"invalid_destination", "rejected", "throttled"}]

\* websocket-endpoint.ts
WebsocketEndpointProvider == Switches({"describe_websocket"},
  {"connect_websocket"})
WebsocketEndpointClient == Methods({"describe_websocket"},
  {"connect_websocket"})
WebsocketEndpointErrors ==
  [connect_websocket |-> {"rejected", "unauthorized",
        "unsupported_protocol"},
   describe_websocket |-> {"invalid_configuration"}]
-----------------------------------------------------------------------------
Bound(provider, client, errors) ==
  [provider |-> provider, client |-> client, errors |-> errors]

\* Every contract under its file name.
ContractNames ==
  {"account-admin", "agent-auth-openai-codex", "agent-model",
   "agent-prompt-provider", "agent-prompt", "agent-session",
   "agent-tool-provider", "agent-tools", "agent", "anonymous-auth", "auth",
   "credential-issuer", "device-auth", "federated-auth", "http-client",
   "http-endpoint", "identity-directory", "jobs", "oauth-flow",
   "oidc-provider", "password-auth", "phone-auth", "secrets", "sms-delivery",
   "websocket-endpoint"}

Bindings ==
  [name \in ContractNames |->
     CASE name = "account-admin" ->
            Bound(AccountAdminProvider, AccountAdminClient,
                  AccountAdminErrors)
       [] name = "agent-auth-openai-codex" ->
            Bound(AgentAuthOpenaiCodexProvider, AgentAuthOpenaiCodexClient,
                  AgentAuthOpenaiCodexErrors)
       [] name = "agent-model" ->
            Bound(AgentModelProvider, AgentModelClient, AgentModelErrors)
       [] name = "agent-prompt-provider" ->
            Bound(AgentPromptProviderProvider, AgentPromptProviderClient,
                  AgentPromptProviderErrors)
       [] name = "agent-prompt" ->
            Bound(AgentPromptProvider, AgentPromptClient, AgentPromptErrors)
       [] name = "agent-session" ->
            Bound(AgentSessionProvider, AgentSessionClient,
                  AgentSessionErrors)
       [] name = "agent-tool-provider" ->
            Bound(AgentToolProviderProvider, AgentToolProviderClient,
                  AgentToolProviderErrors)
       [] name = "agent-tools" ->
            Bound(AgentToolsProvider, AgentToolsClient, AgentToolsErrors)
       [] name = "agent" -> Bound(AgentProvider, AgentClient, AgentErrors)
       [] name = "anonymous-auth" ->
            Bound(AnonymousAuthProvider, AnonymousAuthClient,
                  AnonymousAuthErrors)
       [] name = "auth" -> Bound(AuthProvider, AuthClient, AuthErrors)
       [] name = "credential-issuer" ->
            Bound(CredentialIssuerProvider, CredentialIssuerClient,
                  CredentialIssuerErrors)
       [] name = "device-auth" ->
            Bound(DeviceAuthProvider, DeviceAuthClient, DeviceAuthErrors)
       [] name = "federated-auth" ->
            Bound(FederatedAuthProvider, FederatedAuthClient,
                  FederatedAuthErrors)
       [] name = "http-client" ->
            Bound(HttpClientProvider, HttpClientClient, HttpClientErrors)
       [] name = "http-endpoint" ->
            Bound(HttpEndpointProvider, HttpEndpointClient,
                  HttpEndpointErrors)
       [] name = "identity-directory" ->
            Bound(IdentityDirectoryProvider, IdentityDirectoryClient,
                  IdentityDirectoryErrors)
       [] name = "jobs" -> Bound(JobsProvider, JobsClient, JobsErrors)
       [] name = "oauth-flow" ->
            Bound(OauthFlowProvider, OauthFlowClient, OauthFlowErrors)
       [] name = "oidc-provider" ->
            Bound(OidcProviderProvider, OidcProviderClient,
                  OidcProviderErrors)
       [] name = "password-auth" ->
            Bound(PasswordAuthProvider, PasswordAuthClient,
                  PasswordAuthErrors)
       [] name = "phone-auth" ->
            Bound(PhoneAuthProvider, PhoneAuthClient, PhoneAuthErrors)
       [] name = "secrets" ->
            Bound(SecretsProvider, SecretsClient, SecretsErrors)
       [] name = "sms-delivery" ->
            Bound(SmsDeliveryProvider, SmsDeliveryClient, SmsDeliveryErrors)
       [] name = "websocket-endpoint" ->
            Bound(WebsocketEndpointProvider, WebsocketEndpointClient,
                  WebsocketEndpointErrors)]
=============================================================================
