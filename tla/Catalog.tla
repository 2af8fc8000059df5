------------------------------- MODULE Catalog -------------------------------
(***************************************************************************)
(* What the platform offers, side by side: SkillHub, McpHub, McpSecrets,   *)
(* Sites and Models.  They share no state, only the requests that may run  *)
(* at once; each is of documents or rows of its own.                       *)
(***************************************************************************)
EXTENDS SkillHub

CONSTANTS
  ServerNames, Configs,                           \* of McpHub
  Owners, Handles, Keys, Addresses, Forbidden,    \* of McpSecrets: Owners are its namespaces
  SiteIds, Hosts, Local, Parts,                   \* of Sites
  Accounts, Bindings, Account, Labels, Tenants    \* of Models: Tenants are its sites

VARIABLES
  server, snapshot, mcpTask, granted, overlapped,
  ring, secret, reference, selfRequest, given,
  site, domain, part, siteRequest, late,
  account, binding, label, hidden, modelJob, veiled, barred

H == INSTANCE McpHub WITH Names <- ServerNames, task <- mcpTask
B == INSTANCE McpSecrets WITH Namespaces <- Owners, request <- selfRequest
S == INSTANCE Sites WITH request <- siteRequest
D == INSTANCE Models WITH Sites <- Tenants, job <- modelJob

mcpVars == <<server, snapshot, mcpTask, granted, overlapped>>
secretVars == <<ring, secret, reference, selfRequest, given>>
siteVars == <<site, domain, part, siteRequest, late>>
modelVars == <<account, binding, label, hidden, modelJob, veiled, barred>>

GrantsResolve == H!GrantsResolve
SecretsServeTheirOwner == B!SecretsServeTheirOwner
DeletedIsFrozen == S!DeletedIsFrozen
HiddenIsNotServed == D!HiddenIsNotServed
=============================================================================
