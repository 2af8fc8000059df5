------------------------------ MODULE McpSecrets ------------------------------
(***************************************************************************)
(* The secret broker of kokoro-hub and the requests of members around it   *)
(* (kokoro-hub/src/application/mcp-secret-service.ts, and self-routes.ts): *)
(* a namespace stores a value under a handle, registers MCP servers that   *)
(* refer to the handle, and the runtime exchanges handles for values.      *)
(*                                                                         *)
(* A value is never stored but sealed with the primary key of the process. *)
(* The key ring is read at the start: a process that is restarted with a   *)
(* new primary key still opens what earlier ones sealed.                   *)
(***************************************************************************)
EXTENDS Integers, FiniteSets, Sequences, Functions

CONSTANTS
  Namespaces,
  Handles,             \* random: one is never drawn twice
  Keys,                \* master keys, told apart by their fingerprint
  Addresses, Forbidden,\* what a host name resolves to, and the ranges no server may be in
  Workers,             \* requests that may run at once
  None

VARIABLES
  ring,      \* the keys of the running process, the primary first
  secret,    \* mcp_secrets: one document for each handle
  reference, \* the secret_ref of the server each namespace registered last
  request,   \* where each request is in its handler
  given      \* history: which handles were exchanged for which namespace

vars == <<ring, secret, reference, request, given>>

-----------------------------------------------------------------------------
SecretRow == [status : {"none", "live", "deleted"}, scope : Namespaces \cup {None},
              key : Keys \cup {None}]
NoSecret == [status |-> "none", scope |-> None, key |-> None]

Steps == {"idle", "guard", "insert", "remove", "owns", "url", "write"}
Request == [at : Steps, kind : {"none", "create", "delete", "register"},
            namespace : Namespaces \cup {None}, handle : Handles \cup {None}]
Idle == [at |-> "idle", kind |-> "none", namespace |-> None, handle |-> None]

At(p, step) == request[p].at = step
Go(p, step) == request' = [request EXCEPT ![p].at = step]
Finish(p) == request' = [request EXCEPT ![p] = Idle]

(* resolve of the repository: what is live in the namespace, of the handles asked for. *)
Found_Anywhere(namespace, handles) == {h \in handles : secret[h].status = "live"}
Found(namespace, handles) ==
  {h \in handles : secret[h].status = "live" /\ secret[h].scope = namespace}

(* All of the values or none: one handle that is not found, or one that no key of the
   ring opens, and the answer is an error.                                 *)
Opens(h) == secret[h].key \in Range(ring)
Resolved(namespace, handles) ==
  IF Found(namespace, handles) = handles /\ \A h \in handles : Opens(h) THEN handles ELSE {}

-----------------------------------------------------------------------------
(* A member asks for something in a namespace; the server that is registered refers to
   a handle, or to nothing.                                                *)
SelfReference == Handles \cup {None}
Ask(p) ==
  \E namespace \in Namespaces, h \in SelfReference,
     kind \in {"create", "delete", "register"} :
    /\ request[p] = Idle
    /\ kind = "create" => h = None
    /\ kind = "delete" => h # None
    /\ request' = [request EXCEPT ![p] = [at |-> "guard", kind |-> kind,
                                          namespace |-> namespace, handle |-> h]]
    /\ UNCHANGED <<ring, secret, reference, given>>

Guarded(r) ==
  CASE r.kind = "create" -> "insert"
    [] r.kind = "delete" -> "remove"
    [] r.kind = "register" -> IF r.handle = None THEN "url" ELSE "owns"

(* membershipGuard: the user service answers what the user is in the namespace, and only
   an owner or an admin goes on to write.                                  *)
Roles == {"none", "member", "admin", "owner"}
Guard(p) ==
  \E role \in Roles :
    /\ At(p, "guard")
    /\ \/ role \in {"owner", "admin"} /\ Go(p, Guarded(request[p]))
       \/ role \notin {"owner", "admin"} /\ Finish(p)
    /\ UNCHANGED <<ring, secret, reference, given>>

(* A value is sealed with the primary key and stored under a new handle.   *)
Sealed(namespace) == [status |-> "live", scope |-> namespace, key |-> Head(ring)]
Insert(p) ==
  \E h \in Handles :
    /\ At(p, "insert")
    /\ secret[h] = NoSecret
    /\ secret' = [secret EXCEPT ![h] = Sealed(request[p].namespace)]
    /\ Finish(p)
    /\ UNCHANGED <<ring, reference, given>>

(* Deleting what is not there, or not of the namespace, is no error.       *)
Remove(p) ==
  LET r == request[p]
  IN  /\ At(p, "remove")
      /\ secret' = IF Found(r.namespace, {r.handle}) = {r.handle}
                   THEN [secret EXCEPT ![r.handle].status = "deleted"] ELSE secret
      /\ Finish(p)
      /\ UNCHANGED <<ring, reference, given>>

Store(p) == Ask(p) \/ Guard(p) \/ Insert(p) \/ Remove(p)

-----------------------------------------------------------------------------
(* selfRegisterMcp: the handle has to be one of the namespace, then the host of the
   server is looked up, and then the server is written.                    *)
Owns(p) ==
  LET r == request[p]
  IN  /\ At(p, "owns")
      /\ \/ Found(r.namespace, {r.handle}) = {r.handle} /\ Go(p, "url")
         \/ Found(r.namespace, {r.handle}) # {r.handle} /\ Finish(p)
      /\ UNCHANGED <<ring, secret, reference, given>>

UrlAllowed(addresses) == addresses # {} /\ addresses \cap Forbidden = {}
CheckUrl(p) ==
  \E addresses \in SUBSET Addresses :
    /\ At(p, "url")
    /\ \/ UrlAllowed(addresses) /\ Go(p, "write")
       \/ ~UrlAllowed(addresses) /\ Finish(p)
    /\ UNCHANGED <<ring, secret, reference, given>>

WriteServer(p) ==
  /\ At(p, "write")
  /\ reference' = [reference EXCEPT ![request[p].namespace] = request[p].handle]
  /\ Finish(p)
  /\ UNCHANGED <<ring, secret, given>>

SelfRegister(p) == Owns(p) \/ CheckUrl(p) \/ WriteServer(p)

-----------------------------------------------------------------------------
(* The runtime asks for the values of some handles in the name of a namespace. *)
Resolve ==
  \E namespace \in Namespaces, handles \in SUBSET Handles :
    /\ Resolved(namespace, handles) # {}
    /\ given' = given \cup ({namespace} \X Resolved(namespace, handles))
    /\ UNCHANGED <<ring, secret, reference, request>>

(* A restart ends the requests.  Who rotates the key puts a new one in front and
   keeps the earlier ones behind it, as loadSecretKeyring reads them.      *)
Rotated(key) == <<key>> \o ring
Restart ==
  \E key \in Keys \ Range(ring) :
    /\ ring' = Rotated(key)
    /\ request' = [p \in Workers |-> Idle]
    /\ UNCHANGED <<secret, reference, given>>

Throws(p) ==
  /\ request[p] # Idle
  /\ Finish(p)
  /\ UNCHANGED <<ring, secret, reference, given>>

Init ==
  /\ \E key \in Keys : ring = <<key>>
  /\ secret = [h \in Handles |-> NoSecret]
  /\ reference = [n \in Namespaces |-> None]
  /\ request = [p \in Workers |-> Idle]
  /\ given = {}

Next ==
  \/ \E p \in Workers : Store(p) \/ SelfRegister(p) \/ Throws(p)
  \/ Resolve \/ Restart

Spec == Init /\ [][Next]_vars

-----------------------------------------------------------------------------
(* Type correctness.                                                       *)
TypeOK ==
  /\ ring \in Seq(Keys)
  /\ secret \in [Handles -> SecretRow]
  /\ reference \in [Namespaces -> SelfReference]
  /\ request \in [Workers -> Request]
  /\ given \in SUBSET (Namespaces \X Handles)

(* A value leaves the broker for the namespace that stored it and no other.  And a
   server that was registered can be assembled: until the secret it refers to is
   deleted, the runtime gets its value, whoever deletes while the registration looks
   up the host, and however often the key is rotated.                      *)
SecretsServeTheirOwner ==
  /\ \A g \in given : secret[g[2]].scope = g[1]
  /\ \A n \in Namespaces : LET h == reference[n] IN
       h # None /\ secret[h].status # "deleted" => Resolved(n, {h}) = {h}
=============================================================================
