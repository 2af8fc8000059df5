------------------------------ MODULE MCCatalog ------------------------------
(***************************************************************************)
(* Small instances of SkillHub, McpHub, McpSecrets, Sites and Models for   *)
(* TLC.  They share no state, and a behaviour is of one of them; scene     *)
(* says of which, and which requests overlap in it.                        *)
(***************************************************************************)
EXTENDS Catalog, TLC
CONSTANTS n1, a, b, d, c1, c2, a1, b1

VARIABLE scene

SizeOf == (c1 :> 1) @@ (c2 :> 2)
AccountOf == b1 :> a1

-----------------------------------------------------------------------------
Busy(jobs, idle) == {p \in Workers : jobs[p] # idle}
AtOnce(jobs, idle) == Cardinality(Busy(jobs, idle))

(* Skills: "race" overlaps two uploads of one skill, "quota" runs uploads of several
   skills one after another, and "pool" overlaps one listing with one switch.  *)
Uploads == (\E p \in Workers : Upload(p) \/ Throws(p)) \/ MarkDeleted
InN1 == \A p \in Workers : task'[p] # Idle => task'[p].scope = n1
SkillScene ==
  /\ scene \in {"race", "quota", "pool"}
  /\ UNCHANGED <<scene, mcpVars, secretVars, siteVars, modelVars>>
  /\ \/ /\ scene = "race" /\ Uploads /\ InN1
        /\ \A p \in Workers : \/ Cardinality(task'[p].zip) = 0
                              \/ /\ Cardinality(task'[p].zip) = 1
                                 /\ task'[p].at = "items" => \A i \in task'[p].zip : i[1] = a
     \/ /\ scene = "quota"
        /\ \/ \E p \in Workers : Busy(task, Idle) \subseteq {p} /\ (Upload(p) \/ Throws(p))
           \/ MarkDeleted
        /\ InN1
        /\ \A n \in {b, d} : skill'[n1][n].revision <= 1 /\ skill'[n1][n].status # "deleted"
        /\ \A p \in Workers : <<d, c2>> \notin task'[p].zip
     \/ /\ scene = "pool" /\ Next
        /\ \A p \in Workers : task'[p].name \notin {b, d} /\ task'[p].zip \subseteq {<<a, c1>>}
        /\ \A s \in Scopes :
             /\ skill'[s][a].revision <= 1
             /\ skill[s] # skill'[s] /\ skill'[s][a].status = "deleted" => s = n1
        /\ \/ AtOnce(task', Idle) < 2
           \/ \E p, q \in Workers : /\ task'[p].at \in {"own", "official", "answer"}
                                    /\ task'[q].at = "switch"

(* MCP servers: "register" overlaps two registrations in a namespace, "cover" the
   readings of an official server and one of the namespace.  Servers are switched and
   deleted while one request runs.                                         *)
Toggled ==
  \E s \in H!Scopes : \/ server[s][a].enabled # server'[s][a].enabled
                      \/ server[s][a].status # "deleted" /\ server'[s][a].status = "deleted"
McpScene ==
  /\ scene \in {"register", "cover"}
  /\ UNCHANGED <<scene, vars, secretVars, siteVars, modelVars>>
  /\ H!Next /\ Cardinality(granted') <= 1
  /\ Toggled => AtOnce(mcpTask, H!Idle) = 1
  /\ \/ /\ scene = "register" /\ UNCHANGED server[Official]
        /\ server'[n1][a].revision <= 2
        /\ \A p \in Workers : mcpTask'[p].at = "read" => mcpTask'[p].scope = n1
     \/ scene = "cover" /\ \A p \in Workers : mcpTask'[p].kind # "register"

(* Secrets: one request, and a deletion that overlaps a registration; one exchange is
   remembered.                                                             *)
SecretScene ==
  /\ scene = "secrets"
  /\ UNCHANGED <<scene, vars, mcpVars, siteVars, modelVars>>
  /\ B!Next
  /\ given # given' => given = {} /\ AtOnce(selfRequest, B!Idle) = 0
  /\ \/ AtOnce(selfRequest', B!Idle) < 2
     \/ \E p, q \in Workers : selfRequest'[p].kind = "delete" /\ B!At(q, "url")

(* Sites: a request that looks before it writes, and any other that is writing; one
   site has parts.                                                         *)
SiteScene ==
  /\ scene = "sites"
  /\ UNCHANGED <<scene, vars, mcpVars, secretVars, modelVars>>
  /\ S!Next
  /\ Cardinality({s \in SiteIds : \E k \in Parts : part'[s][k] # None}) <= 1
  /\ \A p \in Workers : siteRequest'[p].active => siteRequest'[p].kind = "upsertPart"
  /\ \/ AtOnce(siteRequest', S!Idle) < 2
     \/ \E p, q \in Workers :
          /\ p # q /\ siteRequest'[q].at \in {"find", "write"}
          /\ siteRequest'[p].at \in {"lookup", "find", "write"}
          /\ siteRequest'[p].kind \in {"upsertPart", "upsertDomain", "verify"}

(* Models: "serve" overlaps a request that reads with one that is writing, "ensure"
   two that write.  An answer is closed before anything else happens, and the catalog
   has one label.                                                          *)
Answered == \E p \in Workers : D!At(p, "answered")
Turn(p) ==
  \/ (modelJob[p] # D!Idle \/ AtOnce(modelJob, D!Idle) = 0) /\ D!Step(p)
  \/ D!AskRead(p)
ModelScene ==
  /\ scene \in {"serve", "ensure"}
  /\ UNCHANGED <<scene, vars, mcpVars, secretVars, siteVars>>
  /\ \/ /\ scene = "serve"
        /\ (\E p \in Workers : Turn(p)) \/ D!Administer
        /\ Cardinality({l \in Labels : label'[l] # "none"}) <= 1
        /\ \/ AtOnce(modelJob', D!Idle) < 2
           \/ \E p, q \in Workers : D!Reads(p)' /\ modelJob'[q].at = "write"
        /\ D!Observe
     \/ /\ scene = "ensure" /\ D!Next /\ UNCHANGED <<label, hidden>>
        /\ \A p \in Workers : ~D!Reads(p)' /\ modelJob'[p].labels = {}
  /\ Answered => ~Answered'

MCInit ==
  /\ Init /\ H!Init /\ B!Init /\ S!Init /\ D!Init
  /\ scene \in {"race", "quota", "pool", "register", "cover", "secrets", "sites",
               "serve", "ensure"}
  /\ scene # "secrets" => ring = <<a1>>
  /\ scene # "cover" => server[Official][a] = H!NoServer
  /\ scene \notin {"register", "cover"} => server[n1][a] = H!NoServer
MCNext == SkillScene \/ McpScene \/ SecretScene \/ SiteScene \/ ModelScene
MCSpec == MCInit /\ [][MCNext]_<<vars, mcpVars, secretVars, siteVars, modelVars, scene>>

(* Configs, Owners, SiteIds and Labels are one set: one exchange stands for all. *)
Symmetry == Permutations(Workers) \cup Permutations(Labels)
=============================================================================
